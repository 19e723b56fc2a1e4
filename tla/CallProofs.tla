----------------------------- MODULE CallProofs -----------------------------
(***************************************************************************)
(* Theorems about a call, for any values of the constants.  ClientCall:    *)
(* Client.inFlight is exact, no transport call leaks from a failing Open   *)
(* or a Close, and Recv and Header tell the truth.  CallMetadata: what a   *)
(* call carries besides its messages arrives - metadata, deadline, route,  *)
(* compression and status.                                                 *)
(***************************************************************************)
EXTENDS ClientCall, CallMetadata, FiniteSetTheorems, WellFoundedInduction, TLAPS

(***************************************************************************)
(* ClientCall                                                              *)
(***************************************************************************)

(* A Close inside closeOnce.Do. *)
Inside == {"cancel", "lock", "close", "release"}

(* closeOnce: one Close is inside and nobody has returned, or nobody is     *)
(* inside; only an open stream is closed, and it says so first.             *)
OnceKept ==
  \A k \in Calls : \A x \in Closers :
    /\ xpc[k][x] \in Inside => \A y \in Closers : y = x \/ xpc[k][y] = "idle"
    /\ xpc[k][x] # "idle" => opc[k] = "open" /\ closed[k]
    /\ xpc[k][x] \in {"lock", "close", "release", "returned"} => ctxDone[k]
    /\ xpc[k][x] \in {"release", "returned"} => call[k] = "closed"

(* A call has a transport call behind it from the end of a chain that kept  *)
(* it on, and none before its chain has run.                                *)
CallBehind ==
  \A k \in Calls :
    /\ opc[k] \in {"idle", "admitted"} => call[k] = "none"
    /\ opc[k] = "failed" => call[k] # "open"
    /\ opc[k] \in {"install", "open", "dropped", "reclaimed"} => call[k] # "none"

(* headersCh is closed only behind a result of the stream. *)
HeadersBehind ==
  \A k \in Calls : headers[k] \/ rpc[k] \in Resolved => arrived[k]

CountExact ==
  /\ inFlight = Cardinality(Admitted)
  /\ MaxConcurrentCalls > 0 => inFlight <= MaxConcurrentCalls

(* A step of CallTruthful. *)
TruthfulStep ==
  \A k \in Calls :
    /\ hpc[k] = "select" /\ hres'[k] = "md" /\ hpc'[k] = "idle" =>
         arrived[k] /\ ~closed[k]
    /\ rpc[k] \in Resolved /\ rpc'[k] = "idle" => rres'[k] = rpc[k]

CallInv == TypeOK /\ OnceKept /\ CallBehind /\ HeadersBehind /\ CountExact

(***************************************************************************)
(* Types, closeOnce and the transport call                                 *)
(***************************************************************************)

(* The answer of Header: metadata only through headersCh, on an open stream. *)
LEMMA HeaderSays ==
  ASSUME NEW k \in Calls, HeaderSelects(k)
  PROVE  \E r \in {"closed", "md", "ctx"} :
           ReturnHeader(k, r) /\ (r = "md" => headers[k] /\ ~closed[k])
<1>1. CASE closed[k]
  <2>1. HeaderAnswers(k, "headers") = "closed" /\ HeaderAnswers(k, "ctx") = "closed"
    BY <1>1 DEF HeaderAnswers
  <2> QED
    BY <2>1 DEF HeaderSelects
<1>2. CASE ~closed[k]
  <2>1. HeaderAnswers(k, "headers") = "md" /\ HeaderAnswers(k, "ctx") = "ctx"
    BY <1>2 DEF HeaderAnswers
  <2> QED
    BY <1>2, <2>1 DEF HeaderSelects
<1> QED
  BY <1>1, <1>2

LEMMA TypeInit == Init => TypeOK
BY ClientCallAssumption DEF Init, TypeOK, OPCs, XPCs, Resolved

LEMMA TypeStep == TypeOK /\ [Next]_vars => TypeOK'
<1> SUFFICES ASSUME TypeOK, [Next]_vars PROVE TypeOK'
  OBVIOUS
<1> USE DEF TypeOK, OPCs, XPCs, Resolved, streamVars, opVars
<1>1. ASSUME NEW k \in Calls, Open(k) PROVE TypeOK'
  BY <1>1 DEF Open, GoOpen
<1>2. ASSUME NEW k \in Calls, RunChain(k) PROVE TypeOK'
  BY <1>2 DEF RunChain, GoOpen
<1>3. ASSUME NEW k \in Calls, Unwind(k) PROVE TypeOK'
  BY <1>3 DEF Unwind, GoOpen, CloseTransportCall, ReleaseAdmit
<1>4. ASSUME NEW k \in Calls, Install(k) PROVE TypeOK'
  BY <1>4 DEF Install, GoOpen
<1>5. ASSUME NEW k \in Calls, CallerCancels(k) PROVE TypeOK'
  BY <1>5 DEF CallerCancels, CtxEnds
<1>6. ASSUME NEW k \in Calls, WatchCloses(k) PROVE TypeOK'
  BY <1>6 DEF WatchCloses, CloseTransportCall
<1>7. ASSUME NEW k \in Calls, NEW x \in Closers, CloseStarts(k, x) PROVE TypeOK'
  BY <1>7 DEF CloseStarts, GoClose
<1>8. ASSUME NEW k \in Calls, NEW x \in Closers, CloseAgain(k, x) PROVE TypeOK'
  BY <1>8 DEF CloseAgain, GoClose
<1>9. ASSUME NEW k \in Calls, NEW x \in Closers, CloseCancels(k, x) PROVE TypeOK'
  BY <1>9 DEF CloseCancels, GoClose, CtxEnds
<1>10. ASSUME NEW k \in Calls, NEW x \in Closers, CloseLocks(k, x) PROVE TypeOK'
  BY <1>10 DEF CloseLocks, GoClose
<1>11. ASSUME NEW k \in Calls, NEW x \in Closers, CloseClosesCall(k, x) PROVE TypeOK'
  BY <1>11 DEF CloseClosesCall, GoClose, CloseTransportCall
<1>12. ASSUME NEW k \in Calls, NEW x \in Closers, CloseReleases(k, x) PROVE TypeOK'
  BY <1>12 DEF CloseReleases, GoClose, ReleaseAdmit
<1>13. ASSUME NEW k \in Calls, Dropped(k) PROVE TypeOK'
  BY <1>13 DEF Dropped, GoOpen
<1>14. ASSUME NEW k \in Calls, LeakReclaimed(k) PROVE TypeOK'
  BY <1>14 DEF LeakReclaimed, GoOpen, ReleaseAdmit
<1>15. ASSUME NEW k \in Calls, RecvEnters(k) PROVE TypeOK'
  <2>1. \E r \in {"recv", rpc[k]}, e \in {"ctx", "none"} :
          rpc' = [rpc EXCEPT ![k] = r] /\ rres' = [rres EXCEPT ![k] = e]
    <3>1. CASE ctxDone[k]
      BY <1>15, <3>1 DEF RecvEnters
    <3>2. CASE ~ctxDone[k]
      BY <1>15, <3>2 DEF RecvEnters
    <3> QED
      BY <3>1, <3>2
  <2>2. UNCHANGED <<inFlight, opc, call, streamVars, xpc, hpc, hres>>
    BY <1>15 DEF RecvEnters
  <2> QED
    BY <2>1, <2>2
<1>16. ASSUME NEW k \in Calls, StreamAnswers(k) PROVE TypeOK'
  BY <1>16 DEF StreamAnswers
<1>17. ASSUME NEW k \in Calls, RecvReturns(k) PROVE TypeOK'
  BY <1>17 DEF RecvReturns, Interrupted
<1>18. ASSUME NEW k \in Calls, HeaderEnters(k) PROVE TypeOK'
  BY <1>18 DEF HeaderEnters, ReturnHeader
<1>19. ASSUME NEW k \in Calls, HeaderSelects(k) PROVE TypeOK'
  <2>1. PICK r \in {"closed", "md", "ctx"} :
          ReturnHeader(k, r) /\ (r = "md" => headers[k] /\ ~closed[k])
    BY <1>19, HeaderSays
  <2>2. UNCHANGED <<inFlight, opc, call, streamVars, xpc, rpc, rres>>
    BY <1>19 DEF HeaderSelects
  <2> QED
    BY <2>1, <2>2 DEF ReturnHeader
<1>20. CASE UNCHANGED vars
  BY <1>20 DEF vars
<1> QED
  BY <1>1, <1>2, <1>3, <1>4, <1>5, <1>6, <1>7, <1>8, <1>9, <1>10, <1>11, <1>12, <1>13,
      <1>14, <1>15, <1>16, <1>17, <1>18, <1>19, <1>20
  DEF Next, OpenStep, CloseStep

(* Close passes its stages once, whoever else calls it. *)
LEMMA OnceStep == TypeOK /\ OnceKept /\ CallBehind /\ [Next]_vars => OnceKept'
<1> SUFFICES ASSUME TypeOK, OnceKept, CallBehind, [Next]_vars PROVE OnceKept'
  OBVIOUS
<1> USE DEF TypeOK, OnceKept, OPCs, XPCs, Inside, streamVars, opVars
<1>1. ASSUME NEW k \in Calls, Open(k) PROVE OnceKept'
  BY <1>1 DEF Open, GoOpen
<1>2. ASSUME NEW k \in Calls, RunChain(k) PROVE OnceKept'
  BY <1>2 DEF RunChain, GoOpen
<1>3. ASSUME NEW k \in Calls, Unwind(k) PROVE OnceKept'
  BY <1>3 DEF Unwind, GoOpen, CloseTransportCall
<1>4. ASSUME NEW k \in Calls, Install(k) PROVE OnceKept'
  BY <1>4 DEF Install, GoOpen
<1>5. ASSUME NEW k \in Calls, CallerCancels(k) PROVE OnceKept'
  BY <1>5 DEF CallerCancels, CtxEnds
<1>6. ASSUME NEW k \in Calls, WatchCloses(k) PROVE OnceKept'
  BY <1>6 DEF WatchCloses, CloseTransportCall
<1>7. ASSUME NEW k \in Calls, NEW x \in Closers, CloseStarts(k, x) PROVE OnceKept'
  BY <1>7 DEF CloseStarts, GoClose, OnceTaken
<1>8. ASSUME NEW k \in Calls, NEW x \in Closers, CloseAgain(k, x) PROVE OnceKept'
  BY <1>8 DEF CloseAgain, GoClose, OnceDone
<1>9. ASSUME NEW k \in Calls, NEW x \in Closers, CloseCancels(k, x) PROVE OnceKept'
  BY <1>9 DEF CloseCancels, GoClose, CtxEnds
<1>10. ASSUME NEW k \in Calls, NEW x \in Closers, CloseLocks(k, x) PROVE OnceKept'
  BY <1>10 DEF CloseLocks, GoClose
<1>11. ASSUME NEW k \in Calls, NEW x \in Closers, CloseClosesCall(k, x) PROVE OnceKept'
  BY <1>11 DEF CloseClosesCall, GoClose, CloseTransportCall, CallBehind
<1>12. ASSUME NEW k \in Calls, NEW x \in Closers, CloseReleases(k, x) PROVE OnceKept'
  BY <1>12 DEF CloseReleases, GoClose
<1>13. ASSUME NEW k \in Calls, Dropped(k) PROVE OnceKept'
  BY <1>13 DEF Dropped, GoOpen, OnceTaken
<1>14. ASSUME NEW k \in Calls, LeakReclaimed(k) PROVE OnceKept'
  BY <1>14 DEF LeakReclaimed, GoOpen
<1>15. ASSUME NEW k \in Calls, RecvEnters(k) PROVE OnceKept'
  BY <1>15 DEF RecvEnters
<1>16. ASSUME NEW k \in Calls, StreamAnswers(k) PROVE OnceKept'
  BY <1>16 DEF StreamAnswers
<1>17. ASSUME NEW k \in Calls, RecvReturns(k) PROVE OnceKept'
  BY <1>17 DEF RecvReturns, Interrupted
<1>18. ASSUME NEW k \in Calls, HeaderEnters(k) PROVE OnceKept'
  BY <1>18 DEF HeaderEnters, ReturnHeader
<1>19. ASSUME NEW k \in Calls, HeaderSelects(k) PROVE OnceKept'
  BY <1>19 DEF HeaderSelects, ReturnHeader, HeaderAnswers
<1>20. CASE UNCHANGED vars
  BY <1>20 DEF vars
<1> QED
  BY <1>1, <1>2, <1>3, <1>4, <1>5, <1>6, <1>7, <1>8, <1>9, <1>10, <1>11, <1>12, <1>13,
      <1>14, <1>15, <1>16, <1>17, <1>18, <1>19, <1>20
  DEF Next, OpenStep, CloseStep

(* Whatever the filters do, a call they opened is kept or closed. *)
LEMMA BehindStep == TypeOK /\ CallBehind /\ [Next]_vars => CallBehind'
<1> SUFFICES ASSUME TypeOK, CallBehind, [Next]_vars PROVE CallBehind'
  OBVIOUS
<1> USE DEF TypeOK, CallBehind, OPCs, streamVars, opVars
<1>1. ASSUME NEW k \in Calls, Open(k) PROVE CallBehind'
  BY <1>1 DEF Open, GoOpen
<1>2. ASSUME NEW k \in Calls, RunChain(k) PROVE CallBehind'
  <2>1. PICK chain \in Chains, ok \in BOOLEAN :
          /\ GoOpen(k, "admitted", IF Opened(ChainOpen(chain, ok)) THEN "install" ELSE "unwind")
          /\ call' = [call EXCEPT ![k] = IF ChainOpen(chain, ok).opened THEN "open" ELSE "none"]
    BY <1>2 DEF RunChain
  <2>2. Opened(ChainOpen(chain, ok)) => ChainOpen(chain, ok).opened
    BY DEF Opened
  <2> QED
    BY <2>1, <2>2 DEF GoOpen
<1>3. ASSUME NEW k \in Calls, Unwind(k) PROVE CallBehind'
  BY <1>3 DEF Unwind, GoOpen, CloseTransportCall
<1>4. ASSUME NEW k \in Calls, Install(k) PROVE CallBehind'
  BY <1>4 DEF Install, GoOpen
<1>5. ASSUME NEW k \in Calls, CallerCancels(k) PROVE CallBehind'
  BY <1>5 DEF CallerCancels, CtxEnds
<1>6. ASSUME NEW k \in Calls, WatchCloses(k) PROVE CallBehind'
  BY <1>6 DEF WatchCloses, CloseTransportCall
<1>7. ASSUME NEW k \in Calls, NEW x \in Closers, CloseStarts(k, x) PROVE CallBehind'
  BY <1>7 DEF CloseStarts, GoClose
<1>8. ASSUME NEW k \in Calls, NEW x \in Closers, CloseAgain(k, x) PROVE CallBehind'
  BY <1>8 DEF CloseAgain, GoClose
<1>9. ASSUME NEW k \in Calls, NEW x \in Closers, CloseCancels(k, x) PROVE CallBehind'
  BY <1>9 DEF CloseCancels, GoClose, CtxEnds
<1>10. ASSUME NEW k \in Calls, NEW x \in Closers, CloseLocks(k, x) PROVE CallBehind'
  BY <1>10 DEF CloseLocks, GoClose
<1>11. ASSUME NEW k \in Calls, NEW x \in Closers, CloseClosesCall(k, x) PROVE CallBehind'
  BY <1>11 DEF CloseClosesCall, GoClose, CloseTransportCall
<1>12. ASSUME NEW k \in Calls, NEW x \in Closers, CloseReleases(k, x) PROVE CallBehind'
  BY <1>12 DEF CloseReleases, GoClose
<1>13. ASSUME NEW k \in Calls, Dropped(k) PROVE CallBehind'
  BY <1>13 DEF Dropped, GoOpen
<1>14. ASSUME NEW k \in Calls, LeakReclaimed(k) PROVE CallBehind'
  BY <1>14 DEF LeakReclaimed, GoOpen
<1>15. ASSUME NEW k \in Calls, RecvEnters(k) PROVE CallBehind'
  BY <1>15 DEF RecvEnters
<1>16. ASSUME NEW k \in Calls, StreamAnswers(k) PROVE CallBehind'
  BY <1>16 DEF StreamAnswers
<1>17. ASSUME NEW k \in Calls, RecvReturns(k) PROVE CallBehind'
  BY <1>17 DEF RecvReturns, Interrupted
<1>18. ASSUME NEW k \in Calls, HeaderEnters(k) PROVE CallBehind'
  BY <1>18 DEF HeaderEnters, ReturnHeader
<1>19. ASSUME NEW k \in Calls, HeaderSelects(k) PROVE CallBehind'
  BY <1>19 DEF HeaderSelects, ReturnHeader, HeaderAnswers
<1>20. CASE UNCHANGED vars
  BY <1>20 DEF vars
<1> QED
  BY <1>1, <1>2, <1>3, <1>4, <1>5, <1>6, <1>7, <1>8, <1>9, <1>10, <1>11, <1>12, <1>13,
      <1>14, <1>15, <1>16, <1>17, <1>18, <1>19, <1>20
  DEF Next, OpenStep, CloseStep

(* A result is noted as arrived before anyone is told. *)
LEMMA HeadersStep == TypeOK /\ HeadersBehind /\ [Next]_vars => HeadersBehind'
<1> SUFFICES ASSUME TypeOK, HeadersBehind, [Next]_vars PROVE HeadersBehind'
  OBVIOUS
<1> USE DEF TypeOK, HeadersBehind, Resolved, streamVars, opVars
<1>1. ASSUME NEW k \in Calls, Open(k) PROVE HeadersBehind'
  BY <1>1 DEF Open, GoOpen
<1>2. ASSUME NEW k \in Calls, RunChain(k) PROVE HeadersBehind'
  BY <1>2 DEF RunChain, GoOpen
<1>3. ASSUME NEW k \in Calls, Unwind(k) PROVE HeadersBehind'
  BY <1>3 DEF Unwind, GoOpen, CloseTransportCall
<1>4. ASSUME NEW k \in Calls, Install(k) PROVE HeadersBehind'
  BY <1>4 DEF Install, GoOpen
<1>5. ASSUME NEW k \in Calls, CallerCancels(k) PROVE HeadersBehind'
  BY <1>5 DEF CallerCancels, CtxEnds
<1>6. ASSUME NEW k \in Calls, WatchCloses(k) PROVE HeadersBehind'
  BY <1>6 DEF WatchCloses, CloseTransportCall
<1>7. ASSUME NEW k \in Calls, NEW x \in Closers, CloseStarts(k, x) PROVE HeadersBehind'
  BY <1>7 DEF CloseStarts, GoClose
<1>8. ASSUME NEW k \in Calls, NEW x \in Closers, CloseAgain(k, x) PROVE HeadersBehind'
  BY <1>8 DEF CloseAgain, GoClose
<1>9. ASSUME NEW k \in Calls, NEW x \in Closers, CloseCancels(k, x) PROVE HeadersBehind'
  BY <1>9 DEF CloseCancels, GoClose, CtxEnds
<1>10. ASSUME NEW k \in Calls, NEW x \in Closers, CloseLocks(k, x) PROVE HeadersBehind'
  BY <1>10 DEF CloseLocks, GoClose
<1>11. ASSUME NEW k \in Calls, NEW x \in Closers, CloseClosesCall(k, x) PROVE HeadersBehind'
  BY <1>11 DEF CloseClosesCall, GoClose, CloseTransportCall
<1>12. ASSUME NEW k \in Calls, NEW x \in Closers, CloseReleases(k, x) PROVE HeadersBehind'
  BY <1>12 DEF CloseReleases, GoClose
<1>13. ASSUME NEW k \in Calls, Dropped(k) PROVE HeadersBehind'
  BY <1>13 DEF Dropped, GoOpen
<1>14. ASSUME NEW k \in Calls, LeakReclaimed(k) PROVE HeadersBehind'
  BY <1>14 DEF LeakReclaimed, GoOpen
<1>15. ASSUME NEW k \in Calls, RecvEnters(k) PROVE HeadersBehind'
  BY <1>15 DEF RecvEnters
<1>16. ASSUME NEW k \in Calls, StreamAnswers(k) PROVE HeadersBehind'
  <2>1. PICK r \in Resolved \cup {"fail"} :
          /\ rpc' = [rpc EXCEPT ![k] = r]
          /\ arrived' = [arrived EXCEPT ![k] = arrived[k] \/ r \in Resolved]
    BY <1>16 DEF StreamAnswers
  <2>2. headers' = headers /\ rpc'[k] = r /\ (arrived'[k] <=> arrived[k] \/ r \in Resolved)
    BY <1>16, <2>1 DEF StreamAnswers
  <2>3. \A j \in Calls \ {k} : rpc'[j] = rpc[j] /\ arrived'[j] = arrived[j]
    BY <2>1
  <2> QED
    BY <2>2, <2>3
<1>17. ASSUME NEW k \in Calls, RecvReturns(k) PROVE HeadersBehind'
  BY <1>17 DEF RecvReturns, Interrupted
<1>18. ASSUME NEW k \in Calls, HeaderEnters(k) PROVE HeadersBehind'
  BY <1>18 DEF HeaderEnters, ReturnHeader
<1>19. ASSUME NEW k \in Calls, HeaderSelects(k) PROVE HeadersBehind'
  BY <1>19 DEF HeaderSelects, ReturnHeader, HeaderAnswers
<1>20. CASE UNCHANGED vars
  BY <1>20 DEF vars
<1> QED
  BY <1>1, <1>2, <1>3, <1>4, <1>5, <1>6, <1>7, <1>8, <1>9, <1>10, <1>11, <1>12, <1>13,
      <1>14, <1>15, <1>16, <1>17, <1>18, <1>19, <1>20
  DEF Next, OpenStep, CloseStep

(***************************************************************************)
(* The admissions                                                          *)
(***************************************************************************)

LEMMA AdmittedFinite == IsFiniteSet(Admitted) /\ Cardinality(Admitted) \in Nat
<1>1. Admitted \subseteq Calls
  BY DEF Admitted
<1> QED
  BY <1>1, FS_Subset, FS_CardinalityType, ClientCallAssumption

(* A step that moves no call into or out of its admission. *)
LEMMA CountKept ==
  ASSUME CountExact, inFlight' = inFlight, Admitted' = Admitted
  PROVE  CountExact'
BY DEF CountExact

(* releaseAdmit for a call that holds an admission: the floor is not met. *)
LEMMA CountReleased ==
  ASSUME CountExact, NEW k \in Calls, k \in Admitted, Admitted' = Admitted \ {k}, ReleaseAdmit
  PROVE  CountExact'
<1>1. Cardinality(Admitted') = Cardinality(Admitted) - 1 /\ Cardinality(Admitted') \in Nat
  BY AdmittedFinite, FS_RemoveElement, FS_CardinalityType
<1>2. inFlight' = inFlight - 1
  BY <1>1, AdmittedFinite DEF CountExact, ReleaseAdmit
<1> QED
  BY <1>1, <1>2, AdmittedFinite, ClientCallAssumption DEF CountExact

(* Open takes an admission, below the limit only. *)
LEMMA CountOpens ==
  ASSUME TypeOK, OnceKept, CountExact, NEW k \in Calls, Open(k)
  PROVE  CountExact'
<1>1. CASE GoOpen(k, "idle", "failed") /\ UNCHANGED inFlight
  <2>1. Admitted' = Admitted
    BY <1>1 DEF Open, GoOpen, Admitted, OnceDone, TypeOK
  <2> QED
    BY <1>1, <2>1, CountKept
<1>2. CASE HasRoom /\ GoOpen(k, "idle", "admitted") /\ inFlight' = inFlight + 1
  <2>1. xpc' = xpc /\ \A x \in Closers : xpc[k][x] = "idle"
    BY <1>2 DEF Open, GoOpen, OnceKept
  <2>2. k \notin Admitted /\ Admitted' = Admitted \cup {k}
    BY <1>2, <2>1 DEF GoOpen, Admitted, OnceDone, TypeOK
  <2>3. Cardinality(Admitted') = inFlight + 1
    BY <2>2, AdmittedFinite, FS_AddElement DEF CountExact
  <2> QED
    BY <1>2, <2>3, AdmittedFinite, ClientCallAssumption DEF CountExact, HasRoom
<1> QED
  BY <1>1, <1>2 DEF Open

LEMMA CountStep == TypeOK /\ OnceKept /\ CountExact /\ [Next]_vars => CountExact'
<1> SUFFICES ASSUME TypeOK, OnceKept, CountExact, [Next]_vars PROVE CountExact'
  OBVIOUS
<1> USE DEF TypeOK, streamVars, opVars
<1>1. ASSUME NEW k \in Calls, Open(k) PROVE CountExact'
  BY <1>1, CountOpens
<1>2. ASSUME NEW k \in Calls, RunChain(k) PROVE CountExact'
  <2>1. inFlight' = inFlight /\ Admitted' = Admitted
    BY <1>2 DEF RunChain, GoOpen, Admitted, OnceDone
  <2> QED
    BY <2>1, CountKept
<1>3. ASSUME NEW k \in Calls, Unwind(k) PROVE CountExact'
  <2>1. ReleaseAdmit /\ xpc' = xpc /\ \A x \in Closers : xpc[k][x] = "idle"
    BY <1>3 DEF Unwind, GoOpen, OnceKept
  <2>2. k \in Admitted /\ Admitted' = Admitted \ {k}
    BY <1>3, <2>1 DEF Unwind, GoOpen, Admitted, OnceDone, TypeOK
  <2> QED
    BY <2>1, <2>2, CountReleased
<1>4. ASSUME NEW k \in Calls, Install(k) PROVE CountExact'
  <2>1. inFlight' = inFlight /\ Admitted' = Admitted
    BY <1>4 DEF Install, GoOpen, Admitted, OnceDone
  <2> QED
    BY <2>1, CountKept
<1>5. ASSUME NEW k \in Calls, CallerCancels(k) PROVE CountExact'
  <2>1. inFlight' = inFlight /\ Admitted' = Admitted
    BY <1>5 DEF CallerCancels, CtxEnds, Admitted, OnceDone
  <2> QED
    BY <2>1, CountKept
<1>6. ASSUME NEW k \in Calls, WatchCloses(k) PROVE CountExact'
  <2>1. inFlight' = inFlight /\ Admitted' = Admitted
    BY <1>6 DEF WatchCloses, CloseTransportCall, Admitted, OnceDone
  <2> QED
    BY <2>1, CountKept
<1>7. ASSUME NEW k \in Calls, NEW x \in Closers, CloseStarts(k, x) PROVE CountExact'
  <2>1. inFlight' = inFlight /\ opc' = opc /\ \A j \in Calls : OnceDone(j)' <=> OnceDone(j)
    BY <1>7 DEF CloseStarts, GoClose, OnceDone
  <2> QED
    BY <2>1, CountKept DEF Admitted
<1>8. ASSUME NEW k \in Calls, NEW x \in Closers, CloseAgain(k, x) PROVE CountExact'
  <2>1. inFlight' = inFlight /\ opc' = opc /\ \A j \in Calls : OnceDone(j)' <=> OnceDone(j)
    BY <1>8 DEF CloseAgain, GoClose, OnceDone
  <2> QED
    BY <2>1, CountKept DEF Admitted
<1>9. ASSUME NEW k \in Calls, NEW x \in Closers, CloseCancels(k, x) PROVE CountExact'
  <2>1. inFlight' = inFlight /\ opc' = opc /\ \A j \in Calls : OnceDone(j)' <=> OnceDone(j)
    BY <1>9 DEF CloseCancels, GoClose, OnceDone
  <2> QED
    BY <2>1, CountKept DEF Admitted
<1>10. ASSUME NEW k \in Calls, NEW x \in Closers, CloseLocks(k, x) PROVE CountExact'
  <2>1. inFlight' = inFlight /\ opc' = opc /\ \A j \in Calls : OnceDone(j)' <=> OnceDone(j)
    BY <1>10 DEF CloseLocks, GoClose, OnceDone
  <2> QED
    BY <2>1, CountKept DEF Admitted
<1>11. ASSUME NEW k \in Calls, NEW x \in Closers, CloseClosesCall(k, x) PROVE CountExact'
  <2>1. inFlight' = inFlight /\ opc' = opc /\ \A j \in Calls : OnceDone(j)' <=> OnceDone(j)
    BY <1>11 DEF CloseClosesCall, GoClose, OnceDone
  <2> QED
    BY <2>1, CountKept DEF Admitted
<1>12. ASSUME NEW k \in Calls, NEW x \in Closers, CloseReleases(k, x) PROVE CountExact'
  <2>0. ReleaseAdmit /\ opc' = opc /\ xpc[k][x] = "release"
    BY <1>12 DEF CloseReleases, GoClose
  <2>1. opc[k] = "open" /\ ~OnceDone(k)
    <3>1. opc[k] = "open" /\ \A y \in Closers : y = x \/ xpc[k][y] = "idle"
      BY <2>0 DEF OnceKept, Inside
    <3> QED
      BY <2>0, <3>1 DEF OnceDone
  <2>2. OnceDone(k)' /\ \A j \in Calls \ {k} : OnceDone(j)' <=> OnceDone(j)
    BY <1>12 DEF CloseReleases, GoClose, OnceDone, TypeOK
  <2>3. k \in Admitted /\ Admitted' = Admitted \ {k}
    BY <2>0, <2>1, <2>2 DEF Admitted
  <2> QED
    BY <2>0, <2>3, CountReleased
<1>13. ASSUME NEW k \in Calls, Dropped(k) PROVE CountExact'
  <2>1. inFlight' = inFlight /\ Admitted' = Admitted
    BY <1>13 DEF Dropped, GoOpen, Admitted, OnceDone
  <2> QED
    BY <2>1, CountKept
<1>14. ASSUME NEW k \in Calls, LeakReclaimed(k) PROVE CountExact'
  <2>1. ReleaseAdmit /\ xpc' = xpc /\ \A x \in Closers : xpc[k][x] = "idle"
    BY <1>14 DEF LeakReclaimed, GoOpen, OnceKept
  <2>2. k \in Admitted /\ Admitted' = Admitted \ {k}
    BY <1>14, <2>1 DEF LeakReclaimed, GoOpen, Admitted, OnceDone, TypeOK
  <2> QED
    BY <2>1, <2>2, CountReleased
<1>15. ASSUME NEW k \in Calls, RecvEnters(k) PROVE CountExact'
  <2>1. inFlight' = inFlight /\ Admitted' = Admitted
    BY <1>15 DEF RecvEnters, Admitted, OnceDone
  <2> QED
    BY <2>1, CountKept
<1>16. ASSUME NEW k \in Calls, StreamAnswers(k) PROVE CountExact'
  <2>1. inFlight' = inFlight /\ Admitted' = Admitted
    BY <1>16 DEF StreamAnswers, Admitted, OnceDone
  <2> QED
    BY <2>1, CountKept
<1>17. ASSUME NEW k \in Calls, RecvReturns(k) PROVE CountExact'
  <2>1. inFlight' = inFlight /\ Admitted' = Admitted
    BY <1>17 DEF RecvReturns, Interrupted, Admitted, OnceDone
  <2> QED
    BY <2>1, CountKept
<1>18. ASSUME NEW k \in Calls, HeaderEnters(k) PROVE CountExact'
  <2>1. inFlight' = inFlight /\ Admitted' = Admitted
    BY <1>18 DEF HeaderEnters, ReturnHeader, Admitted, OnceDone
  <2> QED
    BY <2>1, CountKept
<1>19. ASSUME NEW k \in Calls, HeaderSelects(k) PROVE CountExact'
  <2>1. inFlight' = inFlight /\ Admitted' = Admitted
    BY <1>19 DEF HeaderSelects, ReturnHeader, HeaderAnswers, Admitted, OnceDone
  <2> QED
    BY <2>1, CountKept
<1>20. CASE UNCHANGED vars
  <2>1. inFlight' = inFlight /\ Admitted' = Admitted
    BY <1>20 DEF vars, Admitted, OnceDone
  <2> QED
    BY <2>1, CountKept
<1> QED
  BY <1>1, <1>2, <1>3, <1>4, <1>5, <1>6, <1>7, <1>8, <1>9, <1>10, <1>11, <1>12, <1>13,
      <1>14, <1>15, <1>16, <1>17, <1>18, <1>19, <1>20
  DEF Next, OpenStep, CloseStep

(***************************************************************************)
(* The invariant and the theorems                                          *)
(***************************************************************************)

LEMMA CallInit == Init => CallInv
<1> SUFFICES ASSUME Init PROVE CallInv
  OBVIOUS
<1>1. OnceKept /\ CallBehind /\ HeadersBehind
  BY DEF Init, OnceKept, CallBehind, HeadersBehind, Inside, Resolved
<1>2. Admitted = {}
  BY DEF Init, Admitted
<1>3. CountExact
  BY <1>2, FS_EmptySet, ClientCallAssumption DEF Init, CountExact
<1> QED
  BY <1>1, <1>3, TypeInit DEF CallInv

LEMMA CallInvariant == Spec => []CallInv
<1>1. CallInv /\ [Next]_vars => CallInv'
  BY TypeStep, OnceStep, BehindStep, HeadersStep, CountStep DEF CallInv
<1> QED
  BY <1>1, CallInit, PTL DEF Spec

(* Client.inFlight is the number of admissions held, over failing Opens,    *)
(* Closes and leaks, and within the limit (client.go, admit, releaseAdmit). *)
THEOREM InFlightIsExact == Spec => []InFlightExact
<1>1. CallInv => InFlightExact
  BY DEF CallInv, CountExact, InFlightExact
<1> QED
  BY <1>1, CallInvariant, PTL

(* An Open that fails leaves no transport call open, whatever its filters   *)
(* did, and a Close that returned has closed it (client.go, Open; call.go,  *)
(* Close).                                                                  *)
THEOREM OpenLeaksNothing == Spec => []OpenNeverLeaks
<1>1. CallInv => OpenNeverLeaks
  BY DEF CallInv, OnceKept, CallBehind, OpenNeverLeaks, OnceDone
<1> QED
  BY <1>1, CallInvariant, PTL

(* What a step tells the callers of Header and Recv is true. *)
LEMMA TruthStep == TypeOK /\ HeadersBehind /\ [Next]_vars => TruthfulStep
<1> SUFFICES ASSUME TypeOK, HeadersBehind, [Next]_vars PROVE TruthfulStep
  OBVIOUS
<1> USE DEF TypeOK, TruthfulStep, Resolved, streamVars, opVars
<1>1. ASSUME NEW k \in Calls, Open(k) PROVE TruthfulStep
  BY <1>1 DEF Open, GoOpen
<1>2. ASSUME NEW k \in Calls, RunChain(k) PROVE TruthfulStep
  BY <1>2 DEF RunChain, GoOpen
<1>3. ASSUME NEW k \in Calls, Unwind(k) PROVE TruthfulStep
  BY <1>3 DEF Unwind, GoOpen, CloseTransportCall
<1>4. ASSUME NEW k \in Calls, Install(k) PROVE TruthfulStep
  BY <1>4 DEF Install, GoOpen
<1>5. ASSUME NEW k \in Calls, CallerCancels(k) PROVE TruthfulStep
  BY <1>5 DEF CallerCancels, CtxEnds
<1>6. ASSUME NEW k \in Calls, WatchCloses(k) PROVE TruthfulStep
  BY <1>6 DEF WatchCloses, CloseTransportCall
<1>7. ASSUME NEW k \in Calls, NEW x \in Closers, CloseStarts(k, x) PROVE TruthfulStep
  BY <1>7 DEF CloseStarts, GoClose
<1>8. ASSUME NEW k \in Calls, NEW x \in Closers, CloseAgain(k, x) PROVE TruthfulStep
  BY <1>8 DEF CloseAgain, GoClose
<1>9. ASSUME NEW k \in Calls, NEW x \in Closers, CloseCancels(k, x) PROVE TruthfulStep
  BY <1>9 DEF CloseCancels, GoClose, CtxEnds
<1>10. ASSUME NEW k \in Calls, NEW x \in Closers, CloseLocks(k, x) PROVE TruthfulStep
  BY <1>10 DEF CloseLocks, GoClose
<1>11. ASSUME NEW k \in Calls, NEW x \in Closers, CloseClosesCall(k, x) PROVE TruthfulStep
  BY <1>11 DEF CloseClosesCall, GoClose, CloseTransportCall
<1>12. ASSUME NEW k \in Calls, NEW x \in Closers, CloseReleases(k, x) PROVE TruthfulStep
  BY <1>12 DEF CloseReleases, GoClose
<1>13. ASSUME NEW k \in Calls, Dropped(k) PROVE TruthfulStep
  BY <1>13 DEF Dropped, GoOpen
<1>14. ASSUME NEW k \in Calls, LeakReclaimed(k) PROVE TruthfulStep
  BY <1>14 DEF LeakReclaimed, GoOpen
<1>15. ASSUME NEW k \in Calls, RecvEnters(k) PROVE TruthfulStep
  BY <1>15 DEF RecvEnters
<1>16. ASSUME NEW k \in Calls, StreamAnswers(k) PROVE TruthfulStep
  BY <1>16 DEF StreamAnswers
<1>17. ASSUME NEW k \in Calls, RecvReturns(k) PROVE TruthfulStep
  BY <1>17 DEF RecvReturns, Interrupted
<1>18. ASSUME NEW k \in Calls, HeaderEnters(k) PROVE TruthfulStep
  BY <1>18 DEF HeaderEnters, ReturnHeader
<1>19. ASSUME NEW k \in Calls, HeaderSelects(k) PROVE TruthfulStep
  <2>1. PICK r \in {"closed", "md", "ctx"} :
          ReturnHeader(k, r) /\ (r = "md" => headers[k] /\ ~closed[k])
    BY <1>19, HeaderSays
  <2>2. UNCHANGED <<inFlight, opc, call, streamVars, xpc, rpc, rres>>
    BY <1>19 DEF HeaderSelects
  <2> QED
    BY <2>1, <2>2 DEF ReturnHeader, HeadersBehind
<1>20. CASE UNCHANGED vars
  BY <1>20 DEF vars
<1> QED
  BY <1>1, <1>2, <1>3, <1>4, <1>5, <1>6, <1>7, <1>8, <1>9, <1>10, <1>11, <1>12, <1>13,
      <1>14, <1>15, <1>16, <1>17, <1>18, <1>19, <1>20
  DEF Next, OpenStep, CloseStep

(* Header returns metadata only when something has come and the stream is   *)
(* not closed, and Recv returns what the stream produced although the ctx   *)
(* ends (call.go, Header, Recv, interrupted).                               *)
THEOREM CallTellsTruth == Spec => CallTruthful
<1>1. CallInv => TypeOK /\ HeadersBehind
  BY DEF CallInv
<1>2. TypeOK /\ HeadersBehind /\ [Next]_vars => [TruthfulStep]_vars
  BY TruthStep
<1> QED
  BY <1>1, <1>2, CallInvariant, PTL DEF Spec, CallTruthful, TruthfulStep

(***************************************************************************)
(* CallMetadata: the lemmas about WireCodec's operators come first, then   *)
(* the invariant, part by part.                                            *)
(***************************************************************************)

(***************************************************************************)
(* Induction, and FlattenSeq                                               *)
(***************************************************************************)

(* A set of naturals has a least element. *)
LEMMA LeastNatural ==
  ASSUME NEW T \in SUBSET Nat, T # {}
  PROVE  \E x \in T : \A y \in T : x <= y
<1> DEFINE R == OpToRel(<, Nat)
<1>1. IsWellFoundedOn(R, Nat)
  BY NatLessThanWellFounded
<1>2. \A x, y \in Nat : <<y, x>> \in R <=> y < x
  BY DEF OpToRel
<1> HIDE DEF R
<1>3. PICK x \in T : \A y \in T : ~(<<y, x>> \in R)
  BY <1>1, WFMin
<1>4. ASSUME NEW y \in T PROVE x <= y
  <2>1. x \in Nat /\ y \in Nat /\ ~(y < x)
    BY <1>2, <1>3
  <2> QED
    BY <2>1
<1> QED
  BY <1>4

(* Induction, over a set instead of a predicate: it needs no operator       *)
(* parameter.                                                               *)
LEMMA Induct ==
  ASSUME NEW S, 0 \in S, \A n \in Nat : n \in S => n + 1 \in S
  PROVE  \A n \in Nat : n \in S
<1> SUFFICES ASSUME Nat \ S # {} PROVE FALSE
  OBVIOUS
<1>1. PICK x \in Nat \ S : \A y \in Nat \ S : x <= y
  BY LeastNatural
<1>2. x # 0 /\ x - 1 \in Nat
  BY <1>1
<1>3. x - 1 \in S
  BY <1>1, <1>2
<1>4. (x - 1) + 1 \in S
  BY <1>2, <1>3
<1> QED BY <1>1, <1>4

(* Induction over sequences, by Append. *)
LEMMA SeqInduct ==
  ASSUME NEW X, NEW P, <<>> \in P,
         \A s \in Seq(X), x \in X : s \in P => Append(s, x) \in P
  PROVE  \A s \in Seq(X) : s \in P
<1> DEFINE S == {n \in Nat : \A s \in Seq(X) : Len(s) = n => s \in P}
<1>1. 0 \in S
  <2>1. \A s \in Seq(X) : Len(s) = 0 => s = <<>>
    OBVIOUS
  <2> QED BY <2>1
<1>2. ASSUME NEW n \in Nat, n \in S PROVE n + 1 \in S
  <2> SUFFICES ASSUME NEW s \in Seq(X), Len(s) = n + 1 PROVE s \in P
    OBVIOUS
  <2> DEFINE t == SubSeq(s, 1, n)
  <2>1. t \in Seq(X) /\ Len(t) = n /\ s[n + 1] \in X
    OBVIOUS
  <2>2. s = Append(t, s[n + 1])
    OBVIOUS
  <2> QED
    BY <1>2, <2>1, <2>2
<1> HIDE DEF S
<1>3. \A n \in Nat : n \in S
  BY <1>1, <1>2, Induct
<1> QED
  BY <1>3 DEF S

-----------------------------------------------------------------------------

Flattening(ss) ==
  CHOOSE g : g = [i \in 1..Len(ss) |-> IF i = 1 THEN ss[i] ELSE g[i-1] \o ss[i]]

Flattens(f, ss) ==
  /\ f = [i \in 1..Len(ss) |-> f[i]]
  /\ 1 \in 1..Len(ss) => f[1] = ss[1]
  /\ \A i \in Nat \ {0} : i + 1 \in 1..Len(ss) => f[i + 1] = f[i] \o ss[i + 1]

(* FlattenSeq by the function it is computed with. *)
LEMMA FlattenIs ==
  ASSUME NEW ss
  PROVE  FlattenSeq(ss) = IF Len(ss) = 0 THEN ss ELSE Flattening(ss)[Len(ss)]
BY DEF FlattenSeq, Flattening

(* That function is given by its first value and by a step. *)
LEMMA FlattensIs ==
  ASSUME NEW X, NEW ss \in Seq(X), NEW f
  PROVE  f = [i \in 1..Len(ss) |-> IF i = 1 THEN ss[i] ELSE f[i-1] \o ss[i]] <=> Flattens(f, ss)
<1>1. ASSUME f = [i \in 1..Len(ss) |-> IF i = 1 THEN ss[i] ELSE f[i-1] \o ss[i]]
      PROVE  Flattens(f, ss)
  <2>1. f = [i \in 1..Len(ss) |-> f[i]]
    BY <1>1
  <2>2. \A i \in 1..Len(ss) : f[i] = IF i = 1 THEN ss[i] ELSE f[i-1] \o ss[i]
    BY <1>1
  <2>3. ASSUME NEW i \in Nat \ {0}, i + 1 \in 1..Len(ss)
        PROVE  f[i + 1] = f[i] \o ss[i + 1]
    <3>1. i + 1 # 1 /\ (i + 1) - 1 = i
      OBVIOUS
    <3>2. f[i + 1] = f[(i + 1) - 1] \o ss[i + 1]
      BY <2>2, <2>3, <3>1
    <3> QED
      BY <3>1, <3>2
  <2> QED
    BY <2>1, <2>2, <2>3 DEF Flattens
<1>2. ASSUME Flattens(f, ss)
      PROVE  f = [i \in 1..Len(ss) |-> IF i = 1 THEN ss[i] ELSE f[i-1] \o ss[i]]
  <2>1. ASSUME NEW i \in 1..Len(ss), i # 1
        PROVE  f[i] = f[i - 1] \o ss[i]
    <3>1. i - 1 \in Nat \ {0} /\ (i - 1) + 1 = i
      BY <2>1
    <3> DEFINE j == i - 1
    <3>2. j \in Nat \ {0} /\ j + 1 = i
      BY <3>1
    <3> HIDE DEF j
    <3>3. f[j + 1] = f[j] \o ss[j + 1]
      BY <1>2, <3>2 DEF Flattens
    <3>4. f[i] = f[j] \o ss[i]
      BY <3>2, <3>3
    <3> QED
      BY <3>4 DEF j
  <2>2. ASSUME NEW i \in 1..Len(ss)
        PROVE  f[i] = IF i = 1 THEN ss[i] ELSE f[i-1] \o ss[i]
    BY <1>2, <2>1 DEF Flattens
  <2>3. f = [i \in 1..Len(ss) |-> f[i]]
    BY <1>2 DEF Flattens
  <2> QED
    BY <2>2, <2>3
<1> QED
  BY <1>1, <1>2

(* If some function flattens a sequence, the one FlattenSeq chooses does. *)
LEMMA FlatteningExists ==
  ASSUME NEW X, NEW ss \in Seq(X), NEW f, Flattens(f, ss)
  PROVE  Flattens(Flattening(ss), ss)
<1>1. f = [i \in 1..Len(ss) |-> IF i = 1 THEN ss[i] ELSE f[i-1] \o ss[i]]
  BY FlattensIs
<1>2. Flattening(ss) = [i \in 1..Len(ss) |-> IF i = 1 THEN ss[i] ELSE Flattening(ss)[i-1] \o ss[i]]
  BY <1>1 DEF Flattening
<1> QED
  BY <1>2, FlattensIs

(* Two functions that flatten sequences agree as far as the sequences do. *)
LEMMA FlattensUnique ==
  ASSUME NEW n \in Nat, NEW X, NEW ss \in Seq(X), NEW tt \in Seq(X), NEW f, NEW g,
         Flattens(f, ss), Flattens(g, tt), n <= Len(ss), n <= Len(tt),
         \A i \in 1..n : ss[i] = tt[i]
  PROVE  \A i \in 1..n : f[i] = g[i]
<1> DEFINE S == {k \in Nat : k \in 1..n => f[k] = g[k]}
<1>1. 0 \in S
  OBVIOUS
<1>2. ASSUME NEW k \in Nat, k \in S PROVE k + 1 \in S
  <2> SUFFICES ASSUME k + 1 \in 1..n PROVE f[k + 1] = g[k + 1]
    OBVIOUS
  <2>1. k + 1 \in 1..Len(ss) /\ k + 1 \in 1..Len(tt) /\ ss[k + 1] = tt[k + 1]
    OBVIOUS
  <2>2. CASE k = 0
    <3>1. k + 1 = 1
      BY <2>2
    <3> QED
      BY <2>1, <3>1 DEF Flattens
  <2>3. CASE k # 0
    <3>1. f[k] = g[k]
      BY <1>2, <2>3
    <3>2. f[k + 1] = f[k] \o ss[k + 1] /\ g[k + 1] = g[k] \o tt[k + 1]
      BY <2>1, <2>3 DEF Flattens
    <3> QED
      BY <2>1, <3>1, <3>2
  <2> QED
    BY <2>2, <2>3
<1> HIDE DEF S
<1>3. \A k \in Nat : k \in S
  BY <1>1, <1>2, Induct
<1> QED
  BY <1>3 DEF S

\* one more
LEMMA FlattensMore ==
  ASSUME NEW X, NEW s \in Seq(X), NEW x \in X, NEW f, Flattens(f, s)
  PROVE  \E g : /\ Flattens(g, Append(s, x))
                /\ g[Len(s) + 1] = IF Len(s) = 0 THEN x ELSE f[Len(s)] \o x
<1> DEFINE n == Len(s) + 1
           g == [i \in 1..n |-> IF i = n THEN (IF Len(s) = 0 THEN x ELSE f[Len(s)] \o x) ELSE f[i]]
<1>1. /\ Append(s, x) \in Seq(X) /\ Len(Append(s, x)) = n /\ Append(s, x)[n] = x 
      /\ \A i \in 1..Len(s) : Append(s, x)[i] = s[i]
  OBVIOUS
<1>2. /\ DOMAIN g = 1..n
      /\ g[n] = IF Len(s) = 0 THEN x ELSE f[Len(s)] \o x
      /\ \A i \in 1..Len(s) : g[i] = f[i]
      /\ g = [i \in 1..n |-> g[i]]
  OBVIOUS
<1>3. g[1] = Append(s, x)[1]
  <2>1. CASE Len(s) = 0
    BY <1>1, <1>2, <2>1
  <2>2. CASE Len(s) # 0
    <3>1. 1 \in 1..Len(s)
      BY <2>2
    <3> QED
      BY <1>1, <1>2, <3>1 DEF Flattens
  <2> QED
    BY <2>1, <2>2
<1>4. ASSUME NEW i \in Nat \ {0}, i + 1 \in 1..n
      PROVE  g[i + 1] = g[i] \o Append(s, x)[i + 1]
  <2>1. i \in 1..Len(s)
    BY <1>4
  <2>2. CASE i + 1 = n
    <3>1. Len(s) # 0 /\ i = Len(s)
      BY <2>1, <2>2
    <3> QED
      BY <1>1, <1>2, <2>1, <2>2, <3>1
  <2>3. CASE i + 1 # n
    <3>1. i + 1 \in 1..Len(s)
      BY <1>4, <2>3
    <3>2. f[i + 1] = f[i] \o s[i + 1]
      BY <3>1 DEF Flattens
    <3> QED
      BY <1>1, <1>2, <2>1, <3>1, <3>2
  <2> QED
    BY <2>2, <2>3
<1> HIDE DEF g
<1>5. Flattens(g, Append(s, x))
  BY <1>1, <1>2, <1>3, <1>4 DEF Flattens
<1> QED
  BY <1>2, <1>5

(* Every sequence has a function that flattens it. *)
LEMMA FlatteningDefined ==
  ASSUME NEW X, NEW ss \in Seq(X)
  PROVE  Flattens(Flattening(ss), ss)
<1> DEFINE P == {s \in Seq(X) : \E f : Flattens(f, s)}
<1>1. <<>> \in P
  <2>1. Flattens([i \in 1..Len(<<>>) |-> <<>>], <<>>)
    BY DEF Flattens
  <2> QED
    BY <2>1
<1>2. ASSUME NEW s \in Seq(X), NEW x \in X, s \in P PROVE Append(s, x) \in P
  <2>1. PICK f : Flattens(f, s)
    BY <1>2
  <2>2. PICK g : Flattens(g, Append(s, x))
    BY <2>1, FlattensMore
  <2>3. Append(s, x) \in Seq(X)
    OBVIOUS
  <2> QED
    BY <2>2, <2>3
<1> HIDE DEF P
<1>3. ss \in P
  BY <1>1, <1>2, SeqInduct
<1> QED
  BY <1>3, FlatteningExists DEF P

(* Nothing, flattened, is nothing. *)
LEMMA FlattenNil == FlattenSeq(<<>>) = <<>>
BY FlattenIs

(* One more part is put at the end. *)
LEMMA FlattenAppend ==
  ASSUME NEW S, NEW ss \in Seq(Seq(S)), NEW s \in Seq(S)
  PROVE  /\ FlattenSeq(ss) \in Seq(S)
         /\ FlattenSeq(Append(ss, s)) = FlattenSeq(ss) \o s
<1> DEFINE One(r, x) == FlattenSeq(Append(r, x)) = IF Len(r) = 0 THEN x ELSE FlattenSeq(r) \o x
<1>1. ASSUME NEW r \in Seq(Seq(S)), NEW x \in Seq(S)
      PROVE  One(r, x)
  <2>1. Flattens(Flattening(r), r)
    BY FlatteningDefined
  <2>2. PICK g : /\ Flattens(g, Append(r, x))
                 /\ g[Len(r) + 1] = IF Len(r) = 0 THEN x ELSE Flattening(r)[Len(r)] \o x
    BY <2>1, FlattensMore
  <2>3. /\ Append(r, x) \in Seq(Seq(S)) /\ Len(Append(r, x)) = Len(r) + 1
        /\ Len(r) + 1 \in Nat /\ Len(r) + 1 # 0 /\ Len(r) + 1 \in 1..(Len(r) + 1)
    OBVIOUS
  <2>4. Flattens(Flattening(Append(r, x)), Append(r, x))
    BY <2>3, FlatteningDefined
  <2>5. Flattening(Append(r, x))[Len(r) + 1] = g[Len(r) + 1]
    <3> DEFINE a == Append(r, x)
               n == Len(r) + 1
    <3>2. a \in Seq(Seq(S)) /\ n \in Nat /\ n <= Len(a) /\ Flattens(g, a) /\ Flattens(Flattening(a), a)
      BY <2>2, <2>3, <2>4
    <3> HIDE DEF a, n
    <3>3. \A i \in 1..n : Flattening(a)[i] = g[i]
      BY <3>2, FlattensUnique
    <3> QED
      BY <2>3, <3>3 DEF a, n
  <2>6. FlattenSeq(Append(r, x)) = Flattening(Append(r, x))[Len(r) + 1]
    BY <2>3, FlattenIs
  <2>7. Len(r) # 0 => FlattenSeq(r) = Flattening(r)[Len(r)]
    BY FlattenIs
  <2> QED
    BY <2>2, <2>5, <2>6, <2>7
<1> DEFINE P == {r \in Seq(Seq(S)) : FlattenSeq(r) \in Seq(S)}
<1>2. <<>> \in P
  <2>1. <<>> \in Seq(Seq(S)) /\ <<>> \in Seq(S)
    OBVIOUS
  <2> QED
    BY <2>1, FlattenNil, Zenon
<1>3. ASSUME NEW r \in Seq(Seq(S)), NEW x \in Seq(S), r \in P PROVE Append(r, x) \in P
  <2>1. One(r, x)
    BY <1>1
  <2>2. Append(r, x) \in Seq(Seq(S)) /\ FlattenSeq(r) \in Seq(S)
    BY <1>3
  <2>3. FlattenSeq(r) \o x \in Seq(S)
    BY <2>2
  <2> QED
    BY <2>1, <2>2, <2>3
<1>4. ss \in P
  <2> HIDE DEF P
  <2> QED
    BY <1>2, <1>3, SeqInduct
<1>5. One(ss, s)
  BY <1>1
<1>6. Len(ss) = 0 => FlattenSeq(ss) \o s = s
  BY FlattenNil
<1> QED
  BY <1>4, <1>5, <1>6

(***************************************************************************)
(* Sequences, and what FlatMap makes of them                               *)
(***************************************************************************)

(* The empty sequence is one over any set. *)
LEMMA EmptySeq == ASSUME NEW S PROVE <<>> \in Seq(S)
OBVIOUS

(* ... and has no elements. *)
LEMMA EmptyRange == ToSet(<<>>) = {}
<1>1. DOMAIN <<>> = {}
  OBVIOUS
<1>2. ToSet(<<>>) = {<<>>[i] : i \in DOMAIN <<>>}
  BY DEF ToSet
<1> QED
  BY <1>1, <1>2, Zenon

(* The type and the length of a concatenation. *)
LEMMA ConcatType ==
  ASSUME NEW S, NEW s \in Seq(S), NEW t \in Seq(S)
  PROVE  /\ s \o t \in Seq(S) /\ Len(s \o t) = Len(s) + Len(t)
         /\ s \o <<>> = s /\ <<>> \o s = s
OBVIOUS

(* Sequences are equal when their elements are. *)
LEMMA SeqEqual ==
  ASSUME NEW S, NEW s \in Seq(S), NEW t \in Seq(S), Len(s) = Len(t),
         \A i \in 1..Len(s) : s[i] = t[i]
  PROVE  s = t
OBVIOUS

(* Concatenation is associative. *)
LEMMA ConcatAssociative ==
  ASSUME NEW S, NEW s \in Seq(S), NEW t \in Seq(S), NEW u \in Seq(S)
  PROVE  (s \o t) \o u = s \o (t \o u)
OBVIOUS

(* The elements of a concatenation. *)
LEMMA ConcatRange ==
  ASSUME NEW S, NEW s \in Seq(S), NEW t \in Seq(S)
  PROVE  ToSet(s \o t) = ToSet(s) \cup ToSet(t)
<1>1. ASSUME NEW y \in ToSet(s \o t) PROVE y \in ToSet(s) \cup ToSet(t)
  <2>1. PICK i \in 1..(Len(s) + Len(t)) : y = (s \o t)[i]
    BY DEF ToSet
  <2>2. CASE i <= Len(s)
    BY <2>1, <2>2 DEF ToSet
  <2>3. CASE ~(i <= Len(s))
    <3>1. i - Len(s) \in 1..Len(t) /\ y = t[i - Len(s)]
      BY <2>1, <2>3
    <3> QED
      BY <3>1 DEF ToSet
  <2> QED
    BY <2>2, <2>3
<1>2. ASSUME NEW y \in ToSet(s) PROVE y \in ToSet(s \o t)
  <2>1. PICK i \in 1..Len(s) : y = s[i]
    BY DEF ToSet
  <2>2. i \in 1..Len(s \o t) /\ y = (s \o t)[i]
    BY <2>1
  <2> QED
    BY <2>2 DEF ToSet
<1>3. ASSUME NEW y \in ToSet(t) PROVE y \in ToSet(s \o t)
  <2>1. PICK i \in 1..Len(t) : y = t[i]
    BY DEF ToSet
  <2>2. Len(s) + i \in 1..Len(s \o t) /\ y = (s \o t)[Len(s) + i]
    BY <2>1
  <2> QED
    BY <2>2 DEF ToSet
<1> QED
  BY <1>1, <1>2, <1>3

(* The elements of a sequence and one more. *)
LEMMA AppendRange ==
  ASSUME NEW S, NEW s \in Seq(S), NEW x \in S
  PROVE  Append(s, x) \in Seq(S) /\ ToSet(Append(s, x)) = ToSet(s) \cup {x}
<1>1. Append(s, x) \in Seq(S) /\ Append(s, x) = s \o <<x>>
  OBVIOUS
<1>2. DOMAIN <<x>> = {1} /\ <<x>>[1] = x /\ <<x>> \in Seq(S)
  OBVIOUS
<1>3. ToSet(<<x>>) = {x}
  BY <1>2 DEF ToSet
<1> QED
  <2> DEFINE u == <<x>>
  <2>1. u \in Seq(S) /\ ToSet(u) = {x} /\ Append(s, x) = s \o u
    BY <1>1, <1>2, <1>3
  <2> HIDE DEF u
  <2>2. ToSet(s \o u) = ToSet(s) \cup ToSet(u)
    BY <2>1, ConcatRange
  <2> QED
    BY <1>1, <2>1, <2>2

Single(v) == <<v>>

\* f sends the members of X to sequences over V.
Lists(f, X, V) == \A x \in X : f[x] \in Seq(V)

(* FlatMap of nothing. *)
LEMMA FlatMapNil == ASSUME NEW f PROVE FlatMap(<<>>, f) = <<>>
<1>1. [i \in DOMAIN <<>> |-> f[<<>>[i]]] = <<>>
  OBVIOUS
<1> QED
  BY <1>1, FlattenNil DEF FlatMap

(* FlatMap depends on what the function makes of the elements only. *)
LEMMA FlatMapSame ==
  ASSUME NEW s, NEW f, NEW g, \A i \in DOMAIN s : f[s[i]] = g[s[i]]
  PROVE  FlatMap(s, f) = FlatMap(s, g)
<1>1. [i \in DOMAIN s |-> f[s[i]]] = [i \in DOMAIN s |-> g[s[i]]]
  OBVIOUS
<1> QED
  BY <1>1 DEF FlatMap

(* FlatMap of one more element. *)
LEMMA FlatMapAppend ==
  ASSUME NEW X, NEW V, NEW f, Lists(f, X, V), NEW s \in Seq(X), NEW x \in X
  PROVE  /\ FlatMap(s, f) \in Seq(V)
         /\ FlatMap(Append(s, x), f) = FlatMap(s, f) \o f[x]
<1> DEFINE m == [i \in DOMAIN s |-> f[s[i]]]
           n == [i \in DOMAIN Append(s, x) |-> f[Append(s, x)[i]]]
<1>1. m \in Seq(Seq(V)) /\ Len(m) = Len(s) /\ DOMAIN m = 1..Len(s)
  <2>1. DOMAIN s = 1..Len(s) /\ Len(s) \in Nat /\ \A i \in 1..Len(s) : s[i] \in X
    OBVIOUS
  <2>2. m \in [1..Len(s) -> Seq(V)]
    BY <2>1 DEF Lists
  <2> HIDE DEF m
  <2> QED
    BY <2>1, <2>2
<1>2. f[x] \in Seq(V)
  BY DEF Lists
<1>3. n = Append(m, f[x])
  <2>1. /\ DOMAIN Append(s, x) = 1..(Len(s) + 1) /\ Append(s, x)[Len(s) + 1] = x
        /\ \A i \in 1..Len(s) : Append(s, x)[i] = s[i]
        /\ DOMAIN s = 1..Len(s)
    OBVIOUS
  <2>2. /\ DOMAIN Append(m, f[x]) = 1..(Len(s) + 1) /\ Append(m, f[x])[Len(s) + 1] = f[x]
        /\ \A i \in 1..Len(s) : Append(m, f[x])[i] = m[i]
    <3> HIDE DEF m
    <3> QED
      BY <1>1, <1>2
  <2>3. \A i \in 1..(Len(s) + 1) : n[i] = Append(m, f[x])[i]
    <3> SUFFICES ASSUME NEW i \in 1..(Len(s) + 1) PROVE n[i] = Append(m, f[x])[i]
      OBVIOUS
    <3>1. n[i] = f[Append(s, x)[i]]
      BY <2>1
    <3>2. CASE i = Len(s) + 1
      BY <2>1, <2>2, <3>1, <3>2
    <3>3. CASE i # Len(s) + 1
      <4>1. i \in 1..Len(s)
        BY <3>3
      <4>2. m[i] = f[s[i]]
        BY <2>1, <4>1
      <4> HIDE DEF m, n
      <4> QED
        BY <2>1, <2>2, <3>1, <4>1, <4>2
    <3> QED
      BY <3>2, <3>3
  <2>4. DOMAIN n = 1..(Len(s) + 1) /\ n = [i \in DOMAIN n |-> n[i]]
    BY <2>1
  <2>5. Append(m, f[x]) \in Seq(Seq(V))
    <3> HIDE DEF m
    <3> QED
      BY <1>1, <1>2
  <2>6. Append(m, f[x]) = [i \in DOMAIN Append(m, f[x]) |-> Append(m, f[x])[i]]
    <3> HIDE DEF m
    <3> QED
      BY <2>5
  <2> HIDE DEF m, n
  <2> QED
    BY <2>2, <2>3, <2>4, <2>6
<1>4. FlattenSeq(m) \in Seq(V) /\ FlattenSeq(Append(m, f[x])) = FlattenSeq(m) \o f[x]
  <2> HIDE DEF m
  <2> QED
    BY <1>1, <1>2, FlattenAppend
<1>5. FlatMap(s, f) = FlattenSeq(m) /\ FlatMap(Append(s, x), f) = FlattenSeq(n)
  BY DEF FlatMap
<1> HIDE DEF m, n
<1> QED
  BY <1>3, <1>4, <1>5

(* The type of FlatMap. *)
LEMMA FlatMapType ==
  ASSUME NEW X, NEW V, NEW f, Lists(f, X, V), NEW s \in Seq(X)
  PROVE  FlatMap(s, f) \in Seq(V)
<1>1. CASE X = {}
  <2>1. s = <<>>
    BY <1>1
  <2> QED
    BY <2>1, FlatMapNil, EmptySeq, Zenon
<1>2. CASE X # {}
  BY <1>2, FlatMapAppend
<1> QED
  BY <1>1, <1>2

(* FlatMap of a concatenation. *)
LEMMA FlatMapConcat ==
  ASSUME NEW X, NEW V, NEW f, Lists(f, X, V), NEW s \in Seq(X), NEW t \in Seq(X)
  PROVE  FlatMap(s \o t, f) = FlatMap(s, f) \o FlatMap(t, f)
<1> DEFINE P == {r \in Seq(X) : FlatMap(s \o r, f) = FlatMap(s, f) \o FlatMap(r, f)}
<1>1. <<>> \in P
  <2>1. s \o <<>> = s /\ <<>> \in Seq(X)
    OBVIOUS
  <2>2. FlatMap(s, f) \in Seq(V)
    BY FlatMapType
  <2>3. FlatMap(s, f) \o <<>> = FlatMap(s, f)
    BY <2>2
  <2>4. FlatMap(<<>>, f) = <<>>
    BY FlatMapNil
  <2> QED
    BY <2>1, <2>3, <2>4, Zenon
<1>2. ASSUME NEW r \in Seq(X), NEW x \in X, r \in P PROVE Append(r, x) \in P
  <2>1. s \o r \in Seq(X) /\ Append(r, x) \in Seq(X) /\ s \o Append(r, x) = Append(s \o r, x)
    OBVIOUS
  <2>2. FlatMap(s \o Append(r, x), f) = FlatMap(s \o r, f) \o f[x]
    <3> DEFINE q == s \o r
    <3>1. q \in Seq(X) /\ s \o Append(r, x) = Append(q, x)
      BY <2>1
    <3> HIDE DEF q
    <3>2. FlatMap(Append(q, x), f) = FlatMap(q, f) \o f[x]
      BY <3>1, FlatMapAppend
    <3> QED
      BY <3>1, <3>2 DEF q
  <2>3. FlatMap(Append(r, x), f) = FlatMap(r, f) \o f[x]
    BY FlatMapAppend
  <2>4. FlatMap(s, f) \in Seq(V) /\ FlatMap(r, f) \in Seq(V) /\ f[x] \in Seq(V)
    BY FlatMapType DEF Lists
  <2>5. (FlatMap(s, f) \o FlatMap(r, f)) \o f[x] = FlatMap(s, f) \o (FlatMap(r, f) \o f[x])
    <3> DEFINE a == FlatMap(s, f)
               b == FlatMap(r, f)
               c == f[x]
    <3>1. a \in Seq(V) /\ b \in Seq(V) /\ c \in Seq(V)
      BY <2>4
    <3> HIDE DEF a, b, c
    <3>2. (a \o b) \o c = a \o (b \o c)
      BY <3>1, ConcatAssociative
    <3> QED
      BY <3>2 DEF a, b, c
  <2> QED
    BY <1>2, <2>1, <2>2, <2>3, <2>5
<1> HIDE DEF P
<1>3. t \in P
  BY <1>1, <1>2, SeqInduct
<1> QED
  BY <1>3 DEF P

(* A function that makes nothing of each element. *)
LEMMA FlatMapNone ==
  ASSUME NEW X, NEW f, NEW s \in Seq(X), \A i \in DOMAIN s : f[s[i]] = <<>>
  PROVE  FlatMap(s, f) = <<>>
<1> DEFINE Y == {x \in X : f[x] = <<>>}
           P == {r \in Seq(Y) : FlatMap(r, f) = <<>>}
<1>1. s \in Seq(Y)
  OBVIOUS
<1>2. <<>> \in P
  <2>1. <<>> \in Seq(Y)
    OBVIOUS
  <2> HIDE DEF Y
  <2> QED
    BY <2>1, FlatMapNil, Zenon
<1>3. ASSUME NEW r \in Seq(Y), NEW x \in Y, r \in P PROVE Append(r, x) \in P
  <2>1. Lists(f, Y, {}) /\ f[x] = <<>>
    BY EmptySeq DEF Lists
  <2> HIDE DEF Y
  <2>2. FlatMap(Append(r, x), f) = FlatMap(r, f) \o f[x]
    BY <2>1, FlatMapAppend
  <2>3. <<>> \o <<>> = <<>> /\ Append(r, x) \in Seq(Y)
    OBVIOUS
  <2> QED
    BY <1>3, <2>1, <2>2, <2>3
<1> HIDE DEF P, Y
<1>4. s \in P
  BY <1>1, <1>2, <1>3, SeqInduct
<1> QED
  BY <1>4 DEF P

(* One FlatMap after another is one FlatMap. *)
LEMMA FlatMapTwice ==
  ASSUME NEW X, NEW Y, NEW V, NEW f, NEW g, Lists(f, X, Y), Lists(g, Y, V), NEW s \in Seq(X)
  PROVE  FlatMap(FlatMap(s, f), g) = FlatMap(s, [x \in X |-> FlatMap(f[x], g)])
<1> DEFINE h == [x \in X |-> FlatMap(f[x], g)]
           P == {r \in Seq(X) : FlatMap(FlatMap(r, f), g) = FlatMap(r, h)}
<1>1. <<>> \in P
  <2>1. <<>> \in Seq(X) /\ FlatMap(<<>>, f) = <<>> /\ FlatMap(<<>>, g) = <<>>
    BY FlatMapNil, EmptySeq
  <2>2. FlatMap(<<>>, h) = <<>>
    BY FlatMapNil
  <2> HIDE DEF h
  <2>3. FlatMap(FlatMap(<<>>, f), g) = FlatMap(<<>>, h)
    BY <2>1, <2>2
  <2> QED
    BY <2>1, <2>3
<1>2. \A x \in X : h[x] = FlatMap(f[x], g) /\ h[x] \in Seq(V)
  BY FlatMapType DEF Lists
<1>3. ASSUME NEW r \in Seq(X), NEW x \in X, r \in P PROVE Append(r, x) \in P
  <2> HIDE DEF h
  <2>1. Lists(h, X, V)
    BY <1>2 DEF Lists
  <2>2. FlatMap(Append(r, x), h) = FlatMap(r, h) \o h[x]
    BY <2>1, FlatMapAppend
  <2>3. FlatMap(Append(r, x), f) = FlatMap(r, f) \o f[x]
    BY FlatMapAppend
  <2>4. FlatMap(r, f) \in Seq(Y) /\ f[x] \in Seq(Y)
    BY FlatMapType DEF Lists
  <2>5. FlatMap(FlatMap(r, f) \o f[x], g) = FlatMap(FlatMap(r, f), g) \o FlatMap(f[x], g)
    BY <2>4, FlatMapConcat
  <2>6. Append(r, x) \in Seq(X)
    OBVIOUS
  <2> QED
    BY <1>2, <1>3, <2>2, <2>3, <2>5, <2>6
<1> HIDE DEF P, h
<1>4. s \in P
  BY <1>1, <1>3, SeqInduct
<1> QED
  BY <1>4 DEF P, h

(* Each element of the result comes from an element. *)
LEMMA FlatMapRange ==
  ASSUME NEW X, NEW V, NEW f, Lists(f, X, V), NEW s \in Seq(X), NEW y \in ToSet(FlatMap(s, f))
  PROVE  \E x \in ToSet(s) : y \in ToSet(f[x])
<1> DEFINE P == {r \in Seq(X) : \A z \in ToSet(FlatMap(r, f)) : \E x \in ToSet(r) : z \in ToSet(f[x])}
<1>1. <<>> \in P
  <2>1. <<>> \in Seq(X) /\ ToSet(<<>>) = {}
    BY DEF ToSet
  <2> QED
    BY <2>1, FlatMapNil, Zenon
<1>2. ASSUME NEW r \in Seq(X), NEW x \in X, r \in P PROVE Append(r, x) \in P
  <2>1. FlatMap(Append(r, x), f) = FlatMap(r, f) \o f[x] /\ FlatMap(r, f) \in Seq(V)
    BY FlatMapAppend
  <2>0. f[x] \in Seq(V)
    BY DEF Lists
  <2>2. ToSet(FlatMap(r, f) \o f[x]) = ToSet(FlatMap(r, f)) \cup ToSet(f[x])
    BY <2>0, <2>1, ConcatRange
  <2>3. Append(r, x) \in Seq(X) /\ ToSet(r) \subseteq ToSet(Append(r, x)) /\ x \in ToSet(Append(r, x))
    BY AppendRange
  <2> QED
    BY <1>2, <2>1, <2>2, <2>3
<1> HIDE DEF P
<1>3. s \in P
  BY <1>1, <1>2, SeqInduct
<1> QED
  BY <1>3 DEF P

(* A function that makes one element of each. *)
LEMMA FlatMapEach ==
  ASSUME NEW X, NEW V, NEW f, Lists(f, X, V), NEW s \in Seq(X), NEW t \in Seq(V),
         Len(t) = Len(s), \A i \in 1..Len(s) : f[s[i]] = Single(t[i])
  PROVE  FlatMap(s, f) = t
<1> DEFINE Each(r, u) == Len(u) = Len(r) /\ \A i \in 1..Len(r) : f[r[i]] = Single(u[i])
           P == {r \in Seq(X) : \A u \in Seq(V) : Each(r, u) => FlatMap(r, f) = u}
<1>1. <<>> \in P
  <2>1. \A u \in Seq(V) : Len(u) = 0 => u = <<>>
    OBVIOUS
  <2>2. Len(<<>>) = 0 /\ <<>> \in Seq(X)
    OBVIOUS
  <2>3. \A u \in Seq(V) : Each(<<>>, u) => FlatMap(<<>>, f) = u
    BY <2>1, <2>2, FlatMapNil
  <2> QED
    BY <2>2, <2>3
<1>2. ASSUME NEW r \in Seq(X), NEW x \in X, r \in P PROVE Append(r, x) \in P
  <2> SUFFICES ASSUME NEW u \in Seq(V), Each(Append(r, x), u)
               PROVE  FlatMap(Append(r, x), f) = u
    BY AppendRange
  <2> DEFINE n == Len(r)
             w == SubSeq(u, 1, n)
  <2>1. /\ n \in Nat /\ Len(Append(r, x)) = n + 1 /\ Append(r, x)[n + 1] = x
        /\ \A i \in 1..n : Append(r, x)[i] = r[i]
    OBVIOUS
  <2>2. Len(u) = n + 1 /\ f[x] = Single(u[n + 1]) /\ \A i \in 1..n : f[r[i]] = Single(u[i])
    BY <2>1
  <2>3. w \in Seq(V) /\ Len(w) = n /\ \A i \in 1..n : w[i] = u[i]
    BY <2>1, <2>2
  <2>4. u = w \o <<u[n + 1]>>
    BY <2>1, <2>2
  <2> HIDE DEF w
  <2>5. FlatMap(r, f) = w
    BY <1>2, <2>2, <2>3
  <2>6. FlatMap(Append(r, x), f) = FlatMap(r, f) \o f[x]
    BY FlatMapAppend
  <2> QED
    BY <2>2, <2>4, <2>5, <2>6 DEF Single
<1> HIDE DEF P
<1>3. s \in P
  BY <1>1, <1>2, SeqInduct
<1> QED
  BY <1>3 DEF P

(***************************************************************************)
(* What headers are decoded to, and Only                                   *)
(***************************************************************************)

Readable(axis, X, V) == \A h \in X : \A k : ValuesOfKey(axis, k, h) \in Seq(V)
Gather(axis, hs, k) == Values(DecodeMetadata(axis, hs), k)

(* A sequence is one over its elements. *)
LEMMA SeqOverRange ==
  ASSUME NEW X, NEW s \in Seq(X)
  PROVE  s \in Seq(ToSet(s)) /\ ToSet(s) \subseteq X /\ \A i \in DOMAIN s : s[i] \in ToSet(s)
<1>1. ToSet(s) \subseteq X /\ \A i \in DOMAIN s : s[i] \in ToSet(s)
  BY DEF ToSet
<1>2. s \in [1..Len(s) -> ToSet(s)] /\ Len(s) \in Nat
  BY <1>1
<1> QED
  BY <1>1, <1>2

(* What is decoded under a key, header by header. *)
LEMMA GatherIs ==
  ASSUME NEW axis, NEW X, NEW V, Readable(axis, X, V), NEW hs \in Seq(X), NEW k
  PROVE  /\ Gather(axis, hs, k) = FlatMap(hs, [h \in X |-> ValuesOfKey(axis, k, h)])
         /\ Gather(axis, hs, k) \in Seq(V)
<1> DEFINE f == [h \in X |-> ValuesOfKey(axis, k, h)]
           g == [h \in ToSet(hs) |-> ValuesOfKey(axis, k, h)]
<1>1. /\ Lists(f, X, V)
      /\ \A i \in DOMAIN hs : f[hs[i]] = g[hs[i]]
  BY SeqOverRange DEF Lists, Readable
<1>2. FlatMap(hs, f) \in Seq(V) /\ FlatMap(hs, g) = FlatMap(hs, f)
  <2> HIDE DEF f, g
  <2> QED
    BY <1>1, FlatMapType, FlatMapSame
<1> DEFINE names == {h.name : h \in {e \in ToSet(hs) : IsKept(axis, e)}}
<1>3. CASE k \in names
  <2>1. DecodeMetadata(axis, hs)[k] = FlatMap(hs, g) /\ DOMAIN DecodeMetadata(axis, hs) = names
    BY <1>3 DEF DecodeMetadata
  <2> HIDE DEF f, g, names
  <2> QED
    BY <1>2, <1>3, <2>1 DEF Gather, Values, f
<1>4. CASE k \notin names
  <2>1. DOMAIN DecodeMetadata(axis, hs) = names
    BY DEF DecodeMetadata
  <2>2. \A i \in DOMAIN hs : f[hs[i]] = <<>>
    <3> SUFFICES ASSUME NEW i \in DOMAIN hs PROVE f[hs[i]] = <<>>
      OBVIOUS
    <3>1. hs[i] \in ToSet(hs) /\ hs[i] \in X
      BY SeqOverRange
    <3>2. ~(hs[i].name = k /\ IsKept(axis, hs[i]))
      BY <1>4, <3>1
    <3> QED
      BY <3>1, <3>2 DEF ValuesOfKey
  <2> HIDE DEF f, g
  <2>3. FlatMap(hs, f) = <<>>
    BY <2>2, FlatMapNone
  <2>4. Gather(axis, hs, k) = <<>>
    BY <1>4, <2>1 DEF Gather, Values
  <2> QED
    BY <1>2, <2>3, <2>4 DEF f
<1> QED
  BY <1>3, <1>4

(* ... and of two lists of headers, one after the other. *)
LEMMA GatherConcat ==
  ASSUME NEW axis, NEW X, NEW V, Readable(axis, X, V), NEW a \in Seq(X), NEW b \in Seq(X), NEW k
  PROVE  Gather(axis, a \o b, k) = Gather(axis, a, k) \o Gather(axis, b, k)
<1> DEFINE f == [h \in X |-> ValuesOfKey(axis, k, h)]
           c == a \o b
<1>1. Lists(f, X, V) /\ c \in Seq(X)
  BY DEF Lists, Readable
<1>2. FlatMap(a \o b, f) = FlatMap(a, f) \o FlatMap(b, f)
  <2> HIDE DEF f
  <2> QED
    BY <1>1, FlatMapConcat
<1>3. /\ Gather(axis, a, k) = FlatMap(a, f)
      /\ Gather(axis, b, k) = FlatMap(b, f)
  BY GatherIs
<1>4. Gather(axis, c, k) = FlatMap(c, f)
  <2> HIDE DEF c
  <2> QED
    BY <1>1, GatherIs
<1> HIDE DEF f
<1> QED
  BY <1>2, <1>3, <1>4

\* ----- Only
LEMMA OnlyIs ==
  ASSUME NEW X, NEW s \in Seq(X), NEW T
  PROVE  /\ Only(s, T) = FlatMap(s, [x \in X |-> IF x \in T THEN <<x>> ELSE <<>>])
         /\ Only(s, T) \in Seq(X) /\ ToSet(Only(s, T)) \subseteq T \cap ToSet(s)
<1> DEFINE f == [x \in X |-> IF x \in T THEN <<x>> ELSE <<>>]
           g == [x \in ToSet(s) |-> IF x \in T THEN <<x>> ELSE <<>>]
<1>1. \A i \in DOMAIN s : f[s[i]] = g[s[i]]
  BY SeqOverRange
<1>2. Lists(f, X, X)
  BY DEF Lists
<1>3. Only(s, T) = FlatMap(s, g)
  BY DEF Only
<1>4. \A x \in X : \A y \in ToSet(f[x]) : x \in T /\ y = x
  <2> SUFFICES ASSUME NEW x \in X, NEW y \in ToSet(f[x]) PROVE x \in T /\ y = x
    OBVIOUS
  <2>1. CASE x \in T
    <3>1. f[x] = <<x>> /\ ToSet(<<x>>) = {x}
      BY <2>1 DEF ToSet
    <3> QED
      BY <2>1, <3>1
  <2>2. CASE x \notin T
    <3>1. f[x] = <<>>
      BY <2>2
    <3> HIDE DEF f
    <3> QED
      BY <3>1, EmptyRange
  <2> QED
    BY <2>1, <2>2
<1> HIDE DEF f, g
<1>5. Only(s, T) = FlatMap(s, f) /\ FlatMap(s, f) \in Seq(X)
  BY <1>1, <1>2, <1>3, FlatMapSame, FlatMapType
<1>6. ASSUME NEW y \in ToSet(FlatMap(s, f)) PROVE y \in T \cap ToSet(s)
  <2>1. PICK x \in ToSet(s) : y \in ToSet(f[x])
    BY <1>2, FlatMapRange
  <2> QED
    <3>1. ToSet(s) \subseteq X
      BY SeqOverRange
    <3> QED
      BY <1>4, <2>1, <3>1
<1> QED
  BY <1>5, <1>6 DEF f

(* Only of a concatenation. *)
LEMMA OnlyConcat ==
  ASSUME NEW X, NEW a \in Seq(X), NEW b \in Seq(X), NEW T
  PROVE  Only(a \o b, T) = Only(a, T) \o Only(b, T)
<1> DEFINE f == [x \in X |-> IF x \in T THEN <<x>> ELSE <<>>]
           c == a \o b
<1>1. Lists(f, X, X) /\ c \in Seq(X)
  BY DEF Lists
<1>2. FlatMap(a \o b, f) = FlatMap(a, f) \o FlatMap(b, f)
  <2> HIDE DEF f
  <2> QED
    BY <1>1, FlatMapConcat
<1>3. Only(a, T) = FlatMap(a, f) /\ Only(b, T) = FlatMap(b, f)
  BY OnlyIs
<1>4. Only(c, T) = FlatMap(c, f)
  <2> HIDE DEF c
  <2> QED
    BY <1>1, OnlyIs
<1> HIDE DEF f
<1> QED
  BY <1>2, <1>3, <1>4

(* Only leaves all when all are in the set, *)
LEMMA OnlyAll ==
  ASSUME NEW X, NEW s \in Seq(X), NEW T, ToSet(s) \subseteq T
  PROVE  Only(s, T) = s
<1> DEFINE f == [x \in X |-> IF x \in T THEN <<x>> ELSE <<>>]
<1>1. Lists(f, X, X)
  BY DEF Lists
<1>2. \A i \in 1..Len(s) : f[s[i]] = Single(s[i])
  BY SeqOverRange DEF Single
<1>3. Only(s, T) = FlatMap(s, f)
  BY OnlyIs
<1> HIDE DEF f
<1> QED
  BY <1>1, <1>2, <1>3, FlatMapEach

(* ... and none when none is. *)
LEMMA OnlyNone ==
  ASSUME NEW X, NEW s \in Seq(X), NEW T, ToSet(s) \cap T = {}
  PROVE  Only(s, T) = <<>>
<1> DEFINE f == [x \in X |-> IF x \in T THEN <<x>> ELSE <<>>]
<1>1. \A i \in DOMAIN s : f[s[i]] = <<>>
  <2> SUFFICES ASSUME NEW i \in DOMAIN s PROVE f[s[i]] = <<>>
    OBVIOUS
  <2>1. s[i] \in ToSet(s) /\ s[i] \in X
    BY SeqOverRange
  <2> QED
    BY <2>1
<1> HIDE DEF f
<1>2. FlatMap(s, f) = <<>>
  BY <1>1, FlatMapNone
<1> QED
  BY <1>2, OnlyIs DEF f

\* ----- a sequence of distinct elements
SplitsAt(s, n, a, b) ==
  /\ s = Append(a, s[n]) \o b
  /\ \A i \in 1..Len(a) : i \in 1..Len(s) /\ i # n /\ a[i] = s[i]
  /\ \A i \in 1..Len(b) : n + i \in 1..Len(s) /\ n + i # n /\ b[i] = s[n + i]

(* A sequence falls apart at a place. *)
LEMMA SplitAt ==
  ASSUME NEW X, NEW s \in Seq(X), NEW n \in 1..Len(s)
  PROVE  \E a, b \in Seq(X) : SplitsAt(s, n, a, b)
<1> DEFINE a == SubSeq(s, 1, n - 1)
           b == SubSeq(s, n + 1, Len(s))
           c == Append(a, s[n])
<1>1. /\ a \in Seq(X) /\ Len(a) = n - 1
      /\ \A i \in 1..Len(a) : i \in 1..Len(s) /\ i # n /\ a[i] = s[i]
  OBVIOUS
<1>2. /\ b \in Seq(X) /\ Len(b) = Len(s) - n
      /\ \A i \in 1..Len(b) : n + i \in 1..Len(s) /\ n + i # n /\ b[i] = s[n + i]
  OBVIOUS
<1> HIDE DEF a, b
<1>3. /\ c \in Seq(X) /\ Len(c) = n /\ c[n] = s[n]
      /\ \A i \in 1..n : i # n => c[i] = s[i]
  BY <1>1
<1> HIDE DEF c
<1>4. c \o b \in Seq(X) /\ Len(c \o b) = Len(s)
  <2>1. c \o b \in Seq(X) /\ Len(c \o b) = Len(c) + Len(b)
    BY <1>2, <1>3, ConcatType
  <2>2. Len(c) + Len(b) = Len(s)
    BY <1>2, <1>3
  <2> QED
    BY <2>1, <2>2
<1>5. \A i \in 1..Len(s) : (c \o b)[i] = s[i]
  <2> SUFFICES ASSUME NEW i \in 1..Len(s) PROVE (c \o b)[i] = s[i]
    OBVIOUS
  <2>1. CASE i <= n
    <3>1. (c \o b)[i] = c[i] /\ c[i] = s[i]
      BY <1>2, <1>3, <2>1
    <3> QED
      BY <3>1
  <2>2. CASE ~(i <= n)
    <3>1. i - n \in 1..Len(b) /\ n + (i - n) = i
      BY <1>2, <2>2
    <3>2. (c \o b)[i] = b[i - n]
      BY <1>2, <1>3, <2>2
    <3>3. b[i - n] = s[n + (i - n)]
      BY <1>2, <3>1
    <3> QED
      BY <3>1, <3>2, <3>3
  <2> QED
    BY <2>1, <2>2
<1>6. s = c \o b
  BY <1>4, <1>5, SeqEqual
<1> QED
  BY <1>1, <1>2, <1>6 DEF c, SplitsAt

(* A function that makes something of one element, which is there once or   *)
(* not at all.                                                              *)
LEMMA FlatMapOne ==
  ASSUME NEW X, NEW V, NEW f, Lists(f, X, V), NEW s \in Seq(X), NEW x \in X,
         \A i, j \in DOMAIN s : i # j => s[i] # s[j],
         \A y \in X \ {x} : f[y] = <<>>
  PROVE  FlatMap(s, f) = IF x \in ToSet(s) THEN f[x] ELSE <<>>
<1>1. CASE x \notin ToSet(s)
  <2>1. \A i \in DOMAIN s : f[s[i]] = <<>>
    BY <1>1, SeqOverRange
  <2> QED
    BY <1>1, <2>1, FlatMapNone
<1>2. CASE x \in ToSet(s)
  <2>1. PICK n \in 1..Len(s) : s[n] = x
    BY <1>2 DEF ToSet
  <2>2. PICK a, b \in Seq(X) : SplitsAt(s, n, a, b)
    BY SplitAt
  <2> DEFINE c == Append(a, x)
  <2>3. \A i \in DOMAIN a : f[a[i]] = <<>>
    <3> SUFFICES ASSUME NEW i \in 1..Len(a) PROVE f[a[i]] = <<>>
      OBVIOUS
    <3>0. a[i] = s[i] /\ i \in 1..Len(s) /\ i # n
      BY <2>2 DEF SplitsAt
    <3> DEFINE m == i
    <3>1. a[i] = s[m] /\ s[m] # x /\ s[m] \in X
      <4>1. m \in DOMAIN s /\ n \in DOMAIN s /\ m # n
        BY <3>0
      <4> HIDE DEF m
      <4>2. s[m] # s[n] /\ s[m] \in X
        BY <4>1
      <4> QED
        BY <2>1, <3>0, <4>2 DEF m
    <3> QED
      BY <3>1
  <2>4. \A i \in DOMAIN b : f[b[i]] = <<>>
    <3> SUFFICES ASSUME NEW i \in 1..Len(b) PROVE f[b[i]] = <<>>
      OBVIOUS
    <3>0. b[i] = s[n + i] /\ n + i \in 1..Len(s) /\ n + i # n
      BY <2>2 DEF SplitsAt
    <3> DEFINE m == n + i
    <3>1. b[i] = s[m] /\ s[m] # x /\ s[m] \in X
      <4>1. m \in DOMAIN s /\ n \in DOMAIN s /\ m # n
        BY <3>0
      <4> HIDE DEF m
      <4>2. s[m] # s[n] /\ s[m] \in X
        BY <4>1
      <4> QED
        BY <2>1, <3>0, <4>2 DEF m
    <3> QED
      BY <3>1
  <2>10. c \in Seq(X) /\ s = c \o b
    BY <2>1, <2>2 DEF SplitsAt
  <2>5. FlatMap(a, f) = <<>> /\ FlatMap(b, f) = <<>>
    BY <2>3, <2>4, FlatMapNone
  <2>0. f[x] \in Seq(V)
    BY DEF Lists
  <2>6. FlatMap(c, f) = FlatMap(a, f) \o f[x]
    BY <2>2, FlatMapAppend
  <2>7. FlatMap(c, f) = f[x]
    BY <2>0, <2>5, <2>6
  <2> HIDE DEF c
  <2>8. FlatMap(c \o b, f) = FlatMap(c, f) \o FlatMap(b, f)
    BY <2>10, FlatMapConcat
  <2>9. f[x] \o <<>> = f[x]
    BY <2>0
  <2> QED
    BY <1>2, <2>10, <2>5, <2>7, <2>8, <2>9
<1> QED
  BY <1>1, <1>2

(***************************************************************************)
(* What metadata is encoded to                                             *)
(***************************************************************************)

MetadataOver(md, V) == \A k \in DOMAIN md : md[k] \in Seq(V)
Permutes(order, K) ==
  /\ order \in Seq(K) /\ ToSet(order) = K
  /\ \A i, j \in DOMAIN order : i # j => order[i] # order[j]

Wire(axis, k, v) == Header(Lower(k), EncodeValue(axis, Lower(k), v))
Wires(axis, K, V) == {Wire(axis, k, v) : k \in {j \in K : Lower(j) \notin Reserved(axis)}, v \in V}

(* An order of iteration lists every key once. *)
LEMMA OrdersPermute ==
  ASSUME NEW K, IsFiniteSet(K), NEW order \in SetToSeqs(K)
  PROVE  Permutes(order, K)
<1> DEFINE n == Cardinality(K)
<1>1. n \in Nat /\ IsFiniteSet(1..n) /\ Cardinality(1..n) = n
  BY FS_CardinalityType, FS_Interval
<1>2. order \in [1..n -> K] /\ \A i, j \in 1..n : i # j => order[i] # order[j]
  BY DEF SetToSeqs
<1>3. order \in Injection(1..n, K)
  BY <1>2 DEF Injection, IsInjective
<1>4. order \in Surjection(1..n, K)
  BY <1>1, <1>3, FS_Injection
<1>5. ToSet(order) = K
  BY <1>2, <1>4 DEF Surjection, ToSet
<1> HIDE DEF n
<1>6. order \in Seq(K)
  BY <1>1, <1>2
<1> QED
  BY <1>2, <1>5, <1>6 DEF Permutes

(* A header that was encoded is decoded under its own key, and to its own   *)
(* value.                                                                   *)
LEMMA WireReads ==
  ASSUME NEW axis, NEW k, NEW v, NEW j, v # Malformed, Lower(k) \notin Reserved(axis)
  PROVE  ValuesOfKey(axis, j, Wire(axis, k, v)) = IF Lower(k) = j THEN <<v>> ELSE <<>>
<1> DEFINE h == Wire(axis, k, v)
<1>1. /\ h.name = Lower(k)
      /\ h.value = IF axis = "grpc" /\ IsBin(Lower(k)) THEN <<v>> ELSE v
  BY DEF Wire, Header, EncodeValue
<1>2. h.name \notin Hidden(axis)
  BY <1>1 DEF Hidden
<1>3. ~IsMalformed(axis, h)
  <2>1. ToSet(<<v>>) = {v}
    BY DEF ToSet
  <2> HIDE DEF h
  <2> QED
    BY <1>1, <2>1 DEF IsMalformed
<1> HIDE DEF h
<1>4. IsKept(axis, h)
  BY <1>2, <1>3 DEF IsKept
<1>5. Lower(k) = j => DecodeValues(axis, j, h.value) = <<v>>
  BY <1>1 DEF DecodeValues
<1> QED
  BY <1>1, <1>4, <1>5 DEF ValuesOfKey, h

(* The headers that metadata is encoded to can be read, and none is         *)
(* reserved.                                                                *)
LEMMA WiresReadable ==
  ASSUME NEW axis, NEW K, NEW V, Malformed \notin V
  PROVE  /\ Readable(axis, Wires(axis, K, V), V)
         /\ \A h \in Wires(axis, K, V) :
              h.name \notin Reserved(axis) /\ ~IsMalformed(axis, h) /\ \E k \in K : h.name = Lower(k)
<1> SUFFICES ASSUME NEW h \in Wires(axis, K, V), NEW j
             PROVE  /\ ValuesOfKey(axis, j, h) \in Seq(V)
                    /\ h.name \notin Reserved(axis) /\ ~IsMalformed(axis, h) /\ \E k \in K : h.name = Lower(k)
  BY DEF Readable
<1>1. PICK k \in K, v \in V : h = Wire(axis, k, v) /\ Lower(k) \notin Reserved(axis)
  BY DEF Wires
<1>2. ValuesOfKey(axis, j, h) = IF Lower(k) = j THEN <<v>> ELSE <<>>
  BY <1>1, WireReads
<1>3. <<v>> \in Seq(V) /\ <<>> \in Seq(V)
  OBVIOUS
<1>4. h.name = Lower(k) /\ h.value = IF axis = "grpc" /\ IsBin(Lower(k)) THEN <<v>> ELSE v
  BY <1>1 DEF Wire, Header, EncodeValue
<1>5. ~IsMalformed(axis, h)
  <2>1. ToSet(<<v>>) = {v}
    BY DEF ToSet
  <2> QED
    BY <1>4, <2>1 DEF IsMalformed
<1> QED
  BY <1>1, <1>2, <1>3, <1>4, <1>5

(* What metadata is encoded to. *)
LEMMA EncodeType ==
  ASSUME NEW axis, NEW md, NEW V, MetadataOver(md, V), NEW order \in Seq(DOMAIN md)
  PROVE  /\ Lists([k \in DOMAIN md |-> HeadersOfKey(axis, md, k)], DOMAIN md, Wires(axis, DOMAIN md, V))
         /\ EncodeMetadata(axis, md, order) \in Seq(Wires(axis, DOMAIN md, V))
<1> DEFINE f == [k \in DOMAIN md |-> HeadersOfKey(axis, md, k)]
           W == Wires(axis, DOMAIN md, V)
<1>1. ASSUME NEW k \in DOMAIN md PROVE f[k] \in Seq(W)
  <2>1. CASE Lower(k) \in Reserved(axis)
    <3>1. f[k] = <<>>
      BY <2>1 DEF HeadersOfKey
    <3> HIDE DEF f, W
    <3> QED
      BY <3>1
  <2>2. CASE Lower(k) \notin Reserved(axis)
    <3>1. f[k] = [i \in DOMAIN md[k] |-> Wire(axis, k, md[k][i])]
      BY <2>2 DEF HeadersOfKey, Wire
    <3>2. md[k] \in Seq(V) /\ DOMAIN md[k] = 1..Len(md[k]) /\ Len(md[k]) \in Nat
      BY DEF MetadataOver
    <3>3. \A i \in DOMAIN md[k] : Wire(axis, k, md[k][i]) \in W
      BY <2>2, <3>2 DEF Wires
    <3> HIDE DEF f, W
    <3>4. f[k] \in [1..Len(md[k]) -> W]
      BY <3>1, <3>2, <3>3
    <3> QED
      BY <3>2, <3>4
  <2> QED
    BY <2>1, <2>2
<1> HIDE DEF f, W
<1>2. Lists(f, DOMAIN md, W)
  BY <1>1 DEF Lists
<1>3. FlatMap(order, f) \in Seq(W)
  BY <1>2, FlatMapType
<1> QED
  BY <1>2, <1>3 DEF f, W, EncodeMetadata

(* What is decoded under a key is what each key that has its letters held,  *)
(* in the order of the iteration.                                           *)
LEMMA GatherEncoded ==
  ASSUME NEW axis, NEW md, NEW V, MetadataOver(md, V), Malformed \notin V,
         NEW order \in Seq(DOMAIN md), NEW j
  PROVE  Gather(axis, EncodeMetadata(axis, md, order), j)
           = FlatMap(order, [k \in DOMAIN md |-> IF Lower(k) = j /\ j \notin Reserved(axis)
                                                 THEN md[k] ELSE <<>>])
<1> DEFINE f == [k \in DOMAIN md |-> HeadersOfKey(axis, md, k)]
           W == Wires(axis, DOMAIN md, V)
           g == [h \in W |-> ValuesOfKey(axis, j, h)]
           c == [k \in DOMAIN md |-> FlatMap(f[k], g)]
           d == [k \in DOMAIN md |-> IF Lower(k) = j /\ j \notin Reserved(axis) THEN md[k] ELSE <<>>]
<1>1. Lists(f, DOMAIN md, W) /\ EncodeMetadata(axis, md, order) \in Seq(W)
  BY EncodeType
<1>2. Readable(axis, W, V)
  BY WiresReadable
<1>3. Lists(g, W, V)
  BY <1>2 DEF Readable, Lists
<1>4. Gather(axis, EncodeMetadata(axis, md, order), j) = FlatMap(FlatMap(order, f), g)
  BY <1>1, <1>2, GatherIs DEF EncodeMetadata
<1>5. FlatMap(FlatMap(order, f), g) = FlatMap(order, c)
  <2> HIDE DEF f, g, W
  <2> QED
    BY <1>1, <1>3, FlatMapTwice
<1>6. ASSUME NEW k \in DOMAIN md PROVE FlatMap(f[k], g) = d[k]
  <2>0. /\ md[k] \in Seq(V) /\ DOMAIN md[k] = 1..Len(md[k]) /\ Len(md[k]) \in Nat
        /\ f[k] \in Seq(W)
    BY <1>1 DEF MetadataOver, Lists
  <2>1. CASE Lower(k) \in Reserved(axis)
    <3>1. f[k] = <<>> /\ d[k] = <<>>
      BY <2>1 DEF HeadersOfKey
    <3> HIDE DEF f, g, d
    <3> QED
      BY <3>1, FlatMapNil
  <2>2. CASE Lower(k) \notin Reserved(axis)
    <3>1. f[k] = [i \in DOMAIN md[k] |-> Wire(axis, k, md[k][i])]
      BY <2>2 DEF HeadersOfKey, Wire
    <3>2. Len(f[k]) = Len(md[k]) /\ \A i \in 1..Len(md[k]) : f[k][i] = Wire(axis, k, md[k][i])
      <4> HIDE DEF f
      <4> QED
        BY <2>0, <3>1
    <3>3. \A i \in 1..Len(f[k]) : g[f[k][i]] = IF Lower(k) = j THEN <<md[k][i]>> ELSE <<>>
      <4> SUFFICES ASSUME NEW i \in 1..Len(f[k])
                   PROVE  g[f[k][i]] = IF Lower(k) = j THEN <<md[k][i]>> ELSE <<>>
        OBVIOUS
      <4> HIDE DEF f, W
      <4>1. i \in 1..Len(md[k]) /\ f[k][i] \in W /\ md[k][i] # Malformed
        BY <2>0, <3>2
      <4>2. g[f[k][i]] = ValuesOfKey(axis, j, f[k][i])
        BY <4>1
      <4> HIDE DEF g
      <4>3. ValuesOfKey(axis, j, Wire(axis, k, md[k][i])) = IF Lower(k) = j THEN <<md[k][i]>> ELSE <<>>
        BY <2>2, <4>1, WireReads
      <4> QED
        BY <3>2, <4>1, <4>2, <4>3
    <3>4. CASE Lower(k) = j
      <4>1. d[k] = md[k]
        BY <2>2, <3>4
      <4>2. \A i \in 1..Len(f[k]) : g[f[k][i]] = Single(md[k][i])
        BY <3>3, <3>4 DEF Single
      <4> HIDE DEF f, g, d, W
      <4> QED
        BY <1>3, <2>0, <3>2, <4>1, <4>2, FlatMapEach
    <3>5. CASE Lower(k) # j
      <4>1. d[k] = <<>>
        BY <3>5
      <4>2. \A i \in DOMAIN f[k] : g[f[k][i]] = <<>>
        <5> HIDE DEF f, g, W
        <5> QED
          BY <2>0, <3>3, <3>5
      <4> HIDE DEF f, g, d, W
      <4> QED
        BY <2>0, <4>1, <4>2, FlatMapNone
    <3> QED
      BY <3>4, <3>5
  <2> QED
    BY <2>1, <2>2
<1>7. \A i \in DOMAIN order : c[order[i]] = d[order[i]]
  <2> SUFFICES ASSUME NEW i \in DOMAIN order PROVE c[order[i]] = d[order[i]]
    OBVIOUS
  <2>1. order[i] \in DOMAIN md
    OBVIOUS
  <2>2. c[order[i]] = FlatMap(f[order[i]], g)
    BY <2>1
  <2> HIDE DEF c, d, f, g
  <2> QED
    BY <1>6, <2>1, <2>2
<1>8. FlatMap(order, c) = FlatMap(order, d)
  <2> HIDE DEF c, d
  <2> QED
    BY <1>7, FlatMapSame
<1> HIDE DEF c, f, g, W
<1> QED
  BY <1>4, <1>5, <1>8

(* The values of a key come back, among those of the keys with its letters, *)
(* in their order.                                                          *)
LEMMA OnlyEncoded ==
  ASSUME NEW axis, NEW md, NEW V, MetadataOver(md, V), Malformed \notin V,
         NEW order, Permutes(order, DOMAIN md), NEW k, NEW T,
         Lower(k) \notin Reserved(axis),
         k \in DOMAIN md => ToSet(md[k]) \subseteq T,
         \A j \in DOMAIN md : j # k /\ Lower(j) = Lower(k) => ToSet(md[j]) \cap T = {}
  PROVE  Only(Gather(axis, EncodeMetadata(axis, md, order), Lower(k)), T) = Values(md, k)
<1> DEFINE K == DOMAIN md
           d == [j \in K |-> IF Lower(j) = Lower(k) /\ Lower(k) \notin Reserved(axis)
                             THEN md[j] ELSE <<>>]
           o == [v \in V |-> IF v \in T THEN <<v>> ELSE <<>>]
           c == [j \in K |-> FlatMap(d[j], o)]
<1>1. order \in Seq(K) /\ ToSet(order) = K /\ \A i, j \in DOMAIN order : i # j => order[i] # order[j]
  BY DEF Permutes
<1>2. Gather(axis, EncodeMetadata(axis, md, order), Lower(k)) = FlatMap(order, d)
  BY <1>1, GatherEncoded
<1>3. Lists(d, K, V)
  BY EmptySeq DEF Lists, MetadataOver
<1>4. Lists(o, V, V)
  BY DEF Lists
<1>5. Only(FlatMap(order, d), T) = FlatMap(FlatMap(order, d), o)
  <2> HIDE DEF d
  <2>1. FlatMap(order, d) \in Seq(V)
    BY <1>1, <1>3, FlatMapType
  <2> QED
    BY <2>1, OnlyIs
<1>6. FlatMap(FlatMap(order, d), o) = FlatMap(order, c)
  <2> HIDE DEF d, o
  <2> QED
    BY <1>1, <1>3, <1>4, FlatMapTwice
<1>7. ASSUME NEW j \in K PROVE FlatMap(d[j], o) = IF j = k THEN md[k] ELSE <<>>
  <2>1. md[j] \in Seq(V) /\ d[j] \in Seq(V)
    BY <1>3 DEF Lists, MetadataOver
  <2>2. FlatMap(d[j], o) = Only(d[j], T)
    <3> HIDE DEF d
    <3> QED
      BY <2>1, OnlyIs
  <2>3. CASE j = k
    <3>1. d[j] = md[k]
      BY <2>3
    <3> HIDE DEF d, o
    <3> QED
      BY <2>1, <2>2, <2>3, <3>1, OnlyAll
  <2>4. CASE j # k
    <3>1. (Lower(j) = Lower(k) /\ d[j] = md[j]) \/ d[j] = <<>>
      OBVIOUS
    <3> HIDE DEF d, o
    <3>2. ToSet(d[j]) \cap T = {}
      BY <2>4, <3>1, EmptyRange
    <3> QED
      BY <2>1, <2>2, <2>4, <3>2, OnlyNone
  <2> QED
    BY <2>3, <2>4
<1>8. \A j \in K : c[j] = IF j = k THEN md[k] ELSE <<>>
  BY <1>7
<1> HIDE DEF c, d, o
<1>9. FlatMap(order, c) = Values(md, k)
  <2>1. Lists(c, K, V)
    BY <1>8, EmptySeq DEF Lists, MetadataOver
  <2>2. CASE k \in K
    <3>1. FlatMap(order, c) = IF k \in ToSet(order) THEN c[k] ELSE <<>>
      BY <1>1, <1>8, <2>1, <2>2, FlatMapOne
    <3> QED
      BY <1>1, <1>8, <2>2, <3>1 DEF Values
  <2>3. CASE k \notin K
    <3>1. \A i \in DOMAIN order : c[order[i]] = <<>>
      BY <1>1, <1>8, <2>3
    <3> QED
      BY <1>1, <2>3, <3>1, FlatMapNone DEF Values
  <2> QED
    BY <2>2, <2>3
<1> QED
  BY <1>2, <1>5, <1>6, <1>9

(***************************************************************************)
(* The last header with a name; prefixes                                   *)
(***************************************************************************)

(* What Max and Min choose. *)
LEMMA MaxIs ==
  ASSUME NEW n \in Nat, NEW S \in SUBSET (1..n), S # {}
  PROVE  Max(S) \in S /\ \A y \in S : y <= Max(S)
<1> DEFINE T == {n - x : x \in S}
<1>0. \A x \in S : x \in Nat /\ n - x \in Nat /\ n - x \in T
  OBVIOUS
<1>1. T \in SUBSET Nat /\ T # {}
  BY <1>0
<1>2. PICK t \in T : \A y \in T : t <= y
  BY <1>1, LeastNatural
<1>3. PICK x \in S : t = n - x
  BY <1>2
<1>4. \A y \in S : t <= n - y
  BY <1>0, <1>2
<1> HIDE DEF T
<1>5. \A y \in S : x >= y
  BY <1>0, <1>3, <1>4
<1> QED
  BY <1>5 DEF Max

(* The least of a set of naturals. *)
LEMMA MinIs ==
  ASSUME NEW S \in SUBSET Nat, S # {}
  PROVE  Min(S) \in S /\ \A y \in S : Min(S) <= y
<1>1. \E x \in S : \A y \in S : x <= y
  BY LeastNatural
<1> QED
  BY <1>1 DEF Min

(* The headers with a name in two lists, one after the other. *)
LEMMA PlacesConcat ==
  ASSUME NEW X, NEW a \in Seq(X), NEW b \in Seq(X), NEW n
  PROVE  /\ \A i \in 1..(Len(a) + Len(b)) :
              i \in Places(a \o b, n) <=> IF i <= Len(a) THEN i \in Places(a, n)
                                          ELSE i - Len(a) \in Places(b, n)
         /\ Places(a \o b, n) \subseteq 1..(Len(a) + Len(b))
         /\ Places(a, n) \subseteq 1..Len(a) /\ Places(b, n) \subseteq 1..Len(b)
BY DEF Places

(* The value of the last header with a name is one of them. *)
LEMMA FieldIs ==
  ASSUME NEW X, NEW a \in Seq(X), NEW n, HasField(a, n)
  PROVE  /\ Max(Places(a, n)) \in 1..Len(a) /\ Field(a, n) = a[Max(Places(a, n))].value
         /\ a[Max(Places(a, n))].name = n
         /\ \E h \in ToSet(a) : h.name = n /\ Field(a, n) = h.value
<1>1. Places(a, n) \in SUBSET (1..Len(a)) /\ Places(a, n) # {} /\ Len(a) \in Nat
  BY DEF Places, HasField
<1>2. Max(Places(a, n)) \in Places(a, n)
  BY <1>1, MaxIs
<1> QED
  BY <1>1, <1>2 DEF Places, Field, ToSet

(* Whether there is a header with a name. *)
LEMMA NoField ==
  ASSUME NEW X, NEW a \in Seq(X), NEW n
  PROVE  HasField(a, n) <=> \E h \in ToSet(a) : h.name = n
BY DEF HasField, Places, ToSet

(* The last header with a name, in two lists one after the other. *)
LEMMA FieldConcat ==
  ASSUME NEW X, NEW a \in Seq(X), NEW b \in Seq(X), NEW n
  PROVE  /\ HasField(a \o b, n) <=> HasField(a, n) \/ HasField(b, n)
         /\ HasField(b, n) => Field(a \o b, n) = Field(b, n)
         /\ HasField(a, n) /\ ~HasField(b, n) => Field(a \o b, n) = Field(a, n)
<1> DEFINE c == a \o b
<1>0. c \in Seq(X) /\ Len(c) = Len(a) + Len(b) /\ Len(a) \in Nat /\ Len(b) \in Nat
  BY ConcatType
<1>1. /\ \A i \in 1..(Len(a) + Len(b)) :
           i \in Places(c, n) <=> IF i <= Len(a) THEN i \in Places(a, n)
                                       ELSE i - Len(a) \in Places(b, n)
      /\ Places(c, n) \subseteq 1..(Len(a) + Len(b))
      /\ Places(a, n) \subseteq 1..Len(a) /\ Places(b, n) \subseteq 1..Len(b)
  BY PlacesConcat
<1>2. /\ \A i \in 1..Len(a) : c[i] = a[i]
      /\ \A i \in 1..Len(b) : c[i + Len(a)] = b[i]
  OBVIOUS
<1> HIDE DEF c
<1>3. \A i \in Places(b, n) : i + Len(a) \in Places(c, n)
  BY <1>0, <1>1
<1>4. HasField(c, n) <=> HasField(a, n) \/ HasField(b, n)
  <2>1. \A i \in Places(a, n) : i \in Places(c, n)
    BY <1>0, <1>1
  <2>2. \A i \in Places(c, n) : i \in Places(a, n) \/ i - Len(a) \in Places(b, n)
    BY <1>0, <1>1
  <2> QED
    BY <1>3, <2>1, <2>2 DEF HasField
<1>5. ASSUME HasField(b, n) PROVE Field(c, n) = Field(b, n)
  <2> DEFINE m == Max(Places(c, n))
             k == Max(Places(b, n))
  <2>1. k \in Places(b, n) /\ \A y \in Places(b, n) : y <= k
    BY <1>0, <1>1, <1>5, MaxIs DEF HasField
  <2>2. m \in Places(c, n) /\ \A y \in Places(c, n) : y <= m
    <3>1. Places(c, n) # {} /\ Places(c, n) \in SUBSET (1..Len(c)) /\ Len(c) \in Nat
      BY <1>0, <1>1, <1>4, <1>5 DEF HasField
    <3> QED
      BY <3>1, MaxIs
  <2> HIDE DEF m, k
  <2>3. m = k + Len(a)
    BY <1>0, <1>1, <1>3, <2>1, <2>2
  <2>4. c[m] = b[k]
    BY <1>1, <1>2, <2>1, <2>3
  <2> QED
    BY <2>4 DEF Field, m, k
<1>6. ASSUME HasField(a, n), ~HasField(b, n) PROVE Field(c, n) = Field(a, n)
  <2> DEFINE m == Max(Places(a, n))
  <2>1. m \in Places(a, n) /\ \A y \in Places(a, n) : y <= m
    BY <1>0, <1>1, <1>6, MaxIs DEF HasField
  <2>2. Places(c, n) = Places(a, n)
    <3>1. \A i \in Places(c, n) : i \in 1..(Len(a) + Len(b)) /\ i <= Len(a) /\ i \in Places(a, n)
      BY <1>0, <1>1, <1>6 DEF HasField
    <3>2. \A i \in Places(a, n) : i \in 1..(Len(a) + Len(b)) /\ i <= Len(a)
      BY <1>0, <1>1
    <3> QED
      BY <1>1, <3>1, <3>2
  <2>3. c[m] = a[m]
    BY <1>1, <1>2, <2>1
  <2> QED
    BY <2>2, <2>3 DEF Field
<1> QED
  BY <1>4, <1>5, <1>6 DEF c

(* A prefix, place by place, and of a longer list. *)
LEMMA PrefixIs ==
  ASSUME NEW X, NEW s \in Seq(X), NEW t \in Seq(X)
  PROVE  IsPrefix(s, t) <=> Len(s) <= Len(t) /\ \A i \in 1..Len(s) : s[i] = t[i]
<1> DEFINE a == SubSeq(s, 1, Len(s))
           b == SubSeq(t, 1, Len(s))
<1>1. CASE Len(s) <= Len(t)
  <2>1. /\ a \in Seq(X) /\ b \in Seq(X) /\ Len(a) = Len(s) /\ Len(b) = Len(s)
        /\ \A i \in 1..Len(s) : a[i] = s[i] /\ b[i] = t[i]
    BY <1>1
  <2> HIDE DEF a, b
  <2>2. a = b <=> \A i \in 1..Len(s) : s[i] = t[i]
    BY <2>1, SeqEqual
  <2> QED
    BY <1>1, <2>2 DEF IsPrefix, a, b
<1>2. CASE ~(Len(s) <= Len(t))
  BY <1>2 DEF IsPrefix
<1> QED
  BY <1>1, <1>2

(* A prefix stays one when more is added. *)
LEMMA PrefixLonger ==
  ASSUME NEW X, NEW s \in Seq(X), NEW t \in Seq(X), NEW u \in Seq(X), IsPrefix(s, t)
  PROVE  IsPrefix(s, t \o u)
<1> DEFINE c == t \o u
<1>1. c \in Seq(X) /\ Len(c) = Len(t) + Len(u) /\ \A i \in 1..Len(t) : c[i] = t[i]
  OBVIOUS
<1>2. Len(s) <= Len(t) /\ \A i \in 1..Len(s) : s[i] = t[i]
  BY PrefixIs
<1> HIDE DEF c
<1>3. IsPrefix(s, c)
  BY <1>1, <1>2, PrefixIs
<1> QED
  BY <1>3 DEF c

(* Nothing, and the whole, are prefixes. *)
LEMMA PrefixOfAny ==
  ASSUME NEW X, NEW t \in Seq(X)
  PROVE  IsPrefix(<<>>, t) /\ IsPrefix(t, t)
<1> DEFINE e == <<>>
<1>1. e \in Seq(X) /\ Len(e) = 0
  OBVIOUS
<1> HIDE DEF e
<1>2. Len(e) <= Len(t) /\ (\A i \in 1..Len(e) : e[i] = t[i]) /\ Len(t) <= Len(t)
  BY <1>1
<1>3. IsPrefix(e, t)
  BY <1>1, <1>2, PrefixIs
<1>4. IsPrefix(t, t)
  BY <1>2, PrefixIs
<1> QED
  BY <1>3, <1>4 DEF e

(***************************************************************************)
(* Request targets                                                         *)
(***************************************************************************)

(* A method survives its path (MethodPath, ParseMethodPath), or is refused. *)
LEMMA MethodPathParses ==
  ASSUME NEW m \in [service : Seq(STRING), name : STRING]
  PROVE  ParseMethodPath(MethodPath(m)) = Nil \/ ParseMethodPath(MethodPath(m)) = m
<1> DEFINE p == Append(m.service, m.name)
<1>1. m.service \in Seq(STRING) /\ m.name \in STRING /\ m = [service |-> m.service, name |-> m.name]
  OBVIOUS
<1>2. p \in Seq(STRING) /\ Len(p) = Len(m.service) + 1 /\ p[Len(p)] = m.name
  BY <1>1
<1>3. SubSeq(p, 1, Len(p) - 1) = m.service
  <2> DEFINE f == SubSeq(p, 1, Len(p) - 1)
  <2>1. f \in Seq(STRING) /\ Len(f) = Len(m.service) /\ \A i \in 1..Len(m.service) : f[i] = m.service[i]
    BY <1>1, <1>2
  <2> HIDE DEF f
  <2>2. f = m.service
    BY <1>1, <2>1, SeqEqual
  <2> QED
    BY <2>2 DEF f
<1>4. MethodPath(m) = p
  BY DEF MethodPath
<1> HIDE DEF p
<1>5. Front(p) = m.service /\ Last(p) = m.name
  BY <1>2, <1>3 DEF Front, Last
<1> QED
  BY <1>1, <1>4, <1>5 DEF ParseMethodPath

(* Two parts that leave each other no room. *)
LEMMA Pinched ==
  ASSUME NEW a \in Nat, NEW b \in Nat, NEW n \in Nat, a + b = n + 1, b >= 1, a >= n
  PROVE  a = n /\ b = 1
OBVIOUS

(* Parts that each have something, joined to no more than there are parts. *)
LEMMA FlattenOnes ==
  ASSUME NEW S, NEW ss \in Seq(Seq(S)), \A i \in 1..Len(ss) : Len(ss[i]) >= 1
  PROVE  /\ Len(FlattenSeq(ss)) >= Len(ss)
         /\ Len(FlattenSeq(ss)) = Len(ss) =>
              \A i \in 1..Len(ss) : Len(ss[i]) = 1 /\ FlattenSeq(ss)[i] = ss[i][1]
<1> DEFINE Some(r) == \A i \in 1..Len(r) : Len(r[i]) >= 1
           Ones(r) == \A i \in 1..Len(r) : Len(r[i]) = 1 /\ FlattenSeq(r)[i] = r[i][1]
           Good(r) == Some(r) => Len(FlattenSeq(r)) >= Len(r)
                                 /\ (Len(FlattenSeq(r)) = Len(r) => Ones(r))
           P == {r \in Seq(Seq(S)) : Good(r)}
<1>1. <<>> \in P
  <2> DEFINE e == <<>>
  <2>1. e \in Seq(Seq(S)) /\ Len(e) = 0 /\ FlattenSeq(e) = e
    BY FlattenNil
  <2> HIDE DEF e
  <2> QED
    BY <2>1 DEF e
<1>2. ASSUME NEW r \in Seq(Seq(S)), NEW x \in Seq(S), r \in P
      PROVE  Append(r, x) \in P
  <2> DEFINE q == Append(r, x)
             n == Len(r)
             f == FlattenSeq(r)
             g == FlattenSeq(q)
  <2>1. q \in Seq(Seq(S)) /\ Len(q) = n + 1 /\ n \in Nat /\ q[n + 1] = x /\ \A i \in 1..n : q[i] = r[i]
    OBVIOUS
  <2>2. f \in Seq(S) /\ g = f \o x
    BY FlattenAppend
  <2>3. Good(r)
    BY <1>2
  <2>4. ASSUME Some(q) PROVE Len(g) >= Len(q) /\ (Len(g) = Len(q) => Ones(q))
    <3>1. Some(r) /\ Len(x) >= 1
      <4> HIDE DEF q
      <4>1. \A i \in 1..Len(q) : Len(q[i]) >= 1
        BY <2>4
      <4>2. \A i \in 1..n : Len(r[i]) >= 1
        BY <2>1, <4>1
      <4>3. Len(x) >= 1
        BY <2>1, <4>1
      <4> QED
        BY <4>2, <4>3
    <3>2. Len(f) >= n /\ (Len(f) = n => Ones(r))
      BY <2>3, <3>1
    <3> DEFINE h == f \o x
    <3>3. h \in Seq(S) /\ Len(h) = Len(f) + Len(x) /\ Len(f) \in Nat /\ Len(x) \in Nat
      BY <2>2, ConcatType
    <3>4. /\ \A i \in 1..Len(f) : h[i] = f[i]
          /\ \A i \in 1..Len(x) : h[i + Len(f)] = x[i]
      BY <2>2
    <3>5. g = h
      BY <2>2
    <3> HIDE DEF h, q, f, g
    <3>6. Len(g) >= Len(q)
      BY <2>1, <3>1, <3>2, <3>3, <3>5
    <3>7. ASSUME Len(g) = Len(q) PROVE Ones(q)
      <4>0. /\ Len(f) + Len(x) = n + 1 /\ Len(x) >= 1 /\ Len(f) >= n
            /\ Len(f) \in Nat /\ Len(x) \in Nat /\ n \in Nat
        BY <2>1, <3>1, <3>2, <3>3, <3>5, <3>7
      <4>1. Len(f) = n /\ Len(x) = 1
        BY <4>0, Pinched
      <4>2. Ones(r)
        BY <3>2, <4>1
      <4>3. ASSUME NEW i \in 1..n PROVE Len(q[i]) = 1 /\ g[i] = q[i][1]
        <5>1. q[i] = r[i] /\ g[i] = f[i]
          BY <2>1, <3>4, <3>5, <4>1
        <5>2. Len(r[i]) = 1 /\ f[i] = r[i][1]
          BY <4>2 DEF f
        <5> QED
          BY <5>1, <5>2
      <4>4. Len(q[n + 1]) = 1 /\ g[n + 1] = q[n + 1][1]
        BY <2>1, <3>4, <3>5, <4>1
      <4>5. \A i \in 1..Len(q) : i \in 1..n \/ i = n + 1
        BY <2>1
      <4> QED
        BY <4>3, <4>4, <4>5 DEF g
    <3> QED
      BY <3>6, <3>7
  <2> QED
    BY <2>1, <2>4
<1> HIDE DEF P
<1>3. \A r \in Seq(Seq(S)) : r \in P
  BY <1>1, <1>2, SeqInduct
<1> QED
  BY <1>3 DEF P

(***************************************************************************)
(* grpc-timeout                                                            *)
(***************************************************************************)

(* A rounded-up number of units is enough, by less than a unit. *)
LEMMA RoundUpBounds ==
  ASSUME NEW d \in Nat, NEW u \in Nat \ {0}
  PROVE  /\ RoundUp(d, u) \in Nat
         /\ d <= u * RoundUp(d, u)
         /\ u * RoundUp(d, u) < d + u
<1>1. /\ d \div u \in Nat /\ d % u \in 0 .. (u - 1) /\ d = u * (d \div u) + (d % u)
  OBVIOUS
<1> DEFINE q == d \div u
           m == d % u
<1>2. u * (q + 1) = u * q + u
  BY <1>1
<1>3. CASE m > 0
  BY <1>1, <1>2, <1>3 DEF RoundUp
<1>4. CASE ~(m > 0)
  BY <1>1, <1>2, <1>4 DEF RoundUp
<1> QED
  BY <1>3, <1>4

(* More of a unit is longer. *)
LEMMA Monotone ==
  ASSUME NEW u \in Nat, NEW a \in Nat, NEW b \in Nat, a <= b
  PROVE  u * a <= u * b /\ u * a \in Nat /\ u * b \in Nat
<1>1. PICK n \in Nat : b = a + n
  <2>1. b - a \in Nat /\ b = a + (b - a)
    OBVIOUS
  <2> QED
    BY <2>1
<1>2. u * b = u * a + u * n /\ u * n \in Nat /\ u * a \in Nat
  BY <1>1
<1> QED
  BY <1>2

(* ... and it is the least number that is enough. *)
LEMMA RoundUpLeast ==
  ASSUME NEW d \in Nat, NEW u \in Nat \ {0}, NEW c \in Nat, d <= u * c
  PROVE  RoundUp(d, u) <= c
<1> DEFINE r == RoundUp(d, u)
<1>1. r \in Nat /\ u * r < d + u
  BY RoundUpBounds
<1> HIDE DEF r
<1> SUFFICES ASSUME c + 1 <= r PROVE FALSE
  BY <1>1 DEF r
<1>2. u * (c + 1) <= u * r
  BY <1>1, Monotone
<1>3. u * (c + 1) = u * c + u /\ u * c \in Nat /\ u * r \in Nat
  BY <1>1
<1> QED
  BY <1>1, <1>2, <1>3

U(i) == Unit[Letters[i]]

(* The units, by number. *)
LEMMA UnitFacts ==
  /\ MaxTimeout \in Nat /\ MaxDuration \in Nat
  /\ \A i \in 1..6 : Letters[i] \in DOMAIN Unit /\ U(i) \in Nat \ {0}
  /\ \A l \in DOMAIN Unit : \E i \in 1..6 : l = Letters[i]
  /\ Letters[6] = "H" /\ Unit["H"] = U(6) /\ \A i \in 1..5 : Letters[i] # "H"
  /\ \A i \in 1..5 : MaxTimeout * U(i) <= MaxDuration
  /\ \A i, j \in 1..6 : i <= j => U(j) % U(i) = 0
  /\ (MaxDuration \div U(6)) + 1 <= MaxTimeout
<1>1. DOMAIN Letters = 1..6 /\ Letters[6] = "H" /\ \A i \in 1..5 : Letters[i] # "H"
  BY DEF Letters
<1>2. ToSet(Letters) = {Letters[i] : i \in 1..6}
  BY <1>1 DEF ToSet
<1> HIDE DEF Letters
<1> QED
  BY <1>1, <1>2, UnitAssumption DEF U

(* EncodeTimeout takes the first unit whose number fits, and hours          *)
(* otherwise.                                                               *)
LEMMA EncodeTimeoutIs ==
  ASSUME NEW d \in 1..MaxDuration
  PROVE  \E i \in 1..6 :
           /\ EncodeTimeout(d) = [count |-> RoundUp(d, U(i)), letter |-> Letters[i]]
           /\ i < 6 => RoundUp(d, U(i)) <= MaxTimeout
           /\ \A j \in 1..5 : j < i => RoundUp(d, U(j)) > MaxTimeout
<1> DEFINE fits == {i \in 1..5 : RoundUp(d, Unit[Letters[i]]) <= MaxTimeout}
           least == CHOOSE i \in fits : \A j \in fits : i <= j
           l == IF fits = {} THEN "H" ELSE Letters[least]
<1>1. ~(d <= 0) /\ d \in Nat
  BY UnitFacts
<1>2. EncodeTimeout(d) = [count |-> RoundUp(d, Unit[l]), letter |-> l]
  BY <1>1 DEF EncodeTimeout
<1>3. \A i \in 1..6 : RoundUp(d, U(i)) \in Nat
  BY <1>1, UnitFacts, RoundUpBounds
<1>4. CASE fits = {}
  <2>1. l = Letters[6]
    BY <1>4, UnitFacts
  <2>2. \A j \in 1..5 : RoundUp(d, U(j)) > MaxTimeout
    BY <1>3, <1>4, UnitFacts DEF U
  <2> HIDE DEF l, fits, least
  <2> QED
    BY <1>2, <2>1, <2>2 DEF U
<1>5. CASE fits # {}
  <2>1. \E i \in fits : \A j \in fits : i <= j
    <3>1. fits \in SUBSET Nat
      OBVIOUS
    <3> HIDE DEF fits
    <3> QED
      BY <1>5, <3>1, LeastNatural
  <2>2. least \in fits /\ \A j \in fits : least <= j
    <3> HIDE DEF fits
    <3> QED
      BY <2>1
  <2>3. l = Letters[least]
    BY <1>5
  <2> HIDE DEF least, l
  <2>4. least \in 1..5 /\ RoundUp(d, U(least)) <= MaxTimeout
    BY <2>2 DEF U
  <2>5. \A j \in 1..5 : j < least => RoundUp(d, U(j)) > MaxTimeout
    BY <1>3, <2>2, <2>4, UnitFacts DEF U
  <2> HIDE DEF fits
  <2> QED
    BY <1>2, <2>3, <2>4, <2>5 DEF U
<1> QED
  BY <1>4, <1>5

(* A Duration does not wrap. *)
LEMMA WrappedFits ==
  ASSUME NEW n \in 0..MaxDuration
  PROVE  Wrapped(n) = n
<1>1. MaxDuration \in Nat
  BY UnitFacts
<1> DEFINE m == 2 * (MaxDuration + 1)
           a == n + MaxDuration + 1
<1>2. m \in Nat \ {0} /\ a \in 0..(m - 1)
  BY <1>1
<1>3. a % m = a
  <2> HIDE DEF a, m
  <2> QED
    BY <1>2
<1> QED
  BY <1>1, <1>3 DEF Wrapped

(* Division as the greatest number that fits. *)
LEMMA DivBound ==
  ASSUME NEW n \in Nat, NEW u \in Nat \ {0}, NEW c \in Nat
  PROVE  c <= n \div u <=> u * c <= n
<1> DEFINE q == n \div u
<1>1. q \in Nat /\ n % u \in 0..(u - 1) /\ n = u * q + (n % u)
  OBVIOUS
<1> HIDE DEF q
<1>2. u * (q + 1) = u * q + u /\ u * q \in Nat /\ u * c \in Nat
  BY <1>1
<1>3. CASE c <= q
  <2>1. u * c <= u * q
    BY <1>1, <1>3, Monotone
  <2> QED
    BY <1>1, <1>2, <1>3, <2>1 DEF q
<1>4. CASE ~(c <= q)
  <2>1. q + 1 <= c /\ q + 1 \in Nat
    BY <1>1, <1>4
  <2>2. u * (q + 1) <= u * c
    BY <2>1, Monotone
  <2> QED
    BY <1>1, <1>2, <1>4, <2>2 DEF q
<1> QED
  BY <1>3, <1>4

SaidBy(c, i) == Wrapped(IF c * U(i) > MaxDuration THEN MaxDuration ELSE c * U(i))

(* The durations that a header can say, by number and unit. *)
LEMMA SayableIs == \A t : t \in Sayable <=> \E c \in 0..MaxTimeout, i \in 1..6 : t = SaidBy(c, i)
<1>1. ASSUME NEW t \in Sayable PROVE \E c \in 0..MaxTimeout, i \in 1..6 : t = SaidBy(c, i)
  <2>1. PICK c \in 0..MaxTimeout, l \in DOMAIN Unit :
               t = Wrapped(IF c * Unit[l] > MaxDuration THEN MaxDuration ELSE c * Unit[l])
    BY DEF Sayable
  <2>2. PICK i \in 1..6 : l = Letters[i]
    BY UnitFacts
  <2>3. t = SaidBy(c, i)
    BY <2>1, <2>2 DEF SaidBy, U
  <2> QED
    BY <2>3
<1>2. ASSUME NEW c \in 0..MaxTimeout, NEW i \in 1..6 PROVE SaidBy(c, i) \in Sayable
  <2>1. Letters[i] \in DOMAIN Unit
    BY UnitFacts
  <2> DEFINE l == Letters[i]
  <2>2. l \in DOMAIN Unit
    BY <2>1
  <2>3. SaidBy(c, i) = Wrapped(IF c * Unit[l] > MaxDuration THEN MaxDuration ELSE c * Unit[l])
    BY DEF SaidBy, U
  <2> HIDE DEF l
  <2> QED
    BY <2>2, <2>3 DEF Sayable
<1> QED
  BY <1>1, <1>2

(* ... in the reals: what is longer than a Duration is cut to the longest. *)
LEMMA SaidByIs ==
  ASSUME NEW c \in Nat, NEW i \in 1..6
  PROVE  /\ U(i) * c \in Nat
         /\ SaidBy(c, i) = IF U(i) * c > MaxDuration THEN MaxDuration ELSE U(i) * c
<1>1. U(i) \in Nat \ {0} /\ MaxDuration \in Nat
  BY UnitFacts
<1>2. c * U(i) = U(i) * c /\ U(i) * c \in Nat
  BY <1>1
<1> DEFINE p == c * U(i)
<1>3. p \in Nat /\ p = U(i) * c
  BY <1>2
<1> HIDE DEF p
<1>4. Wrapped(IF p > MaxDuration THEN MaxDuration ELSE p) = IF p > MaxDuration THEN MaxDuration ELSE p
  <2> DEFINE n == IF p > MaxDuration THEN MaxDuration ELSE p
  <2>1. n \in 0..MaxDuration
    BY <1>1, <1>3
  <2> HIDE DEF n
  <2>2. Wrapped(n) = n
    BY <2>1, WrappedFits
  <2> QED
    BY <2>2 DEF n
<1> QED
  BY <1>2, <1>3, <1>4 DEF SaidBy, p

(* What a unit says, the finer ones say in more digits. *)
LEMMA Coarser ==
  ASSUME NEW i \in 1..6, NEW j \in 1..6, i <= j, NEW c \in Nat
  PROVE  \E m \in Nat : U(j) * c = U(i) * m
<1>1. U(i) \in Nat \ {0} /\ U(j) \in Nat \ {0} /\ U(j) % U(i) = 0
  BY UnitFacts
<1> DEFINE q == U(j) \div U(i)
<1>2. q \in Nat /\ U(j) = U(i) * q
  BY <1>1
<1> HIDE DEF q
<1>3. U(j) * c = U(i) * (q * c) /\ q * c \in Nat
  BY <1>1, <1>2
<1> QED
  BY <1>3

\* The deadline that arrives is the nearest the digits can say.
LEMMA TimeoutNearest ==
  ASSUME NEW d \in 1..MaxDuration
  PROVE  /\ DecodeTimeout(EncodeTimeout(d)) \in {t \in Sayable : t >= d}
         /\ \A t \in {s \in Sayable : s >= d} : DecodeTimeout(EncodeTimeout(d)) <= t
<1>0. d \in Nat \ {0} /\ MaxDuration \in Nat /\ MaxTimeout \in Nat /\ d <= MaxDuration
  BY UnitFacts
<1>1. PICK i \in 1..6 :
        /\ EncodeTimeout(d) = [count |-> RoundUp(d, U(i)), letter |-> Letters[i]]
        /\ i < 6 => RoundUp(d, U(i)) <= MaxTimeout
        /\ \A j \in 1..5 : j < i => RoundUp(d, U(j)) > MaxTimeout
  BY EncodeTimeoutIs
<1> DEFINE r == RoundUp(d, U(i))
           t0 == DecodeTimeout(EncodeTimeout(d))
<1>2. U(i) \in Nat \ {0} /\ Letters[i] \in DOMAIN Unit
  BY UnitFacts
<1>3. r \in Nat /\ d <= U(i) * r /\ U(i) * r < d + U(i) /\ U(i) * r \in Nat
  <2> DEFINE v == U(i)
  <2>1. v \in Nat \ {0} /\ d \in Nat
    BY <1>0, <1>2
  <2> HIDE DEF v
  <2>2. /\ RoundUp(d, v) \in Nat /\ d <= v * RoundUp(d, v) /\ v * RoundUp(d, v) < d + v
    BY <2>1, RoundUpBounds
  <2>3. v * RoundUp(d, v) \in Nat
    BY <2>1, <2>2
  <2> QED
    BY <2>2, <2>3 DEF v
<1>4. r <= MaxTimeout
  <2>1. CASE i < 6
    BY <1>1, <2>1
  <2>2. CASE i = 6
    <3> DEFINE q == MaxDuration \div U(6)
    <3>1. q \in Nat /\ q + 1 <= MaxTimeout
      BY <1>0, <1>2, <2>2, UnitFacts
    <3>2. ~(q + 1 <= q)
      BY <3>1
    <3>3. ~(U(6) * (q + 1) <= MaxDuration) /\ U(6) * (q + 1) \in Nat
      BY <1>0, <1>2, <2>2, <3>1, <3>2, DivBound
    <3> HIDE DEF q
    <3>4. d <= U(6) * (q + 1)
      BY <1>0, <3>3
    <3>5. r <= q + 1
      BY <1>0, <1>2, <2>2, <3>1, <3>4, RoundUpLeast
    <3> QED
      BY <1>0, <1>3, <3>1, <3>5
  <2> QED
    BY <2>1, <2>2
<1>5. i < 6 => U(i) * r <= MaxDuration
  <2> SUFFICES ASSUME i < 6 PROVE U(i) * r <= MaxDuration
    OBVIOUS
  <2>1. MaxTimeout * U(i) <= MaxDuration /\ MaxTimeout * U(i) = U(i) * MaxTimeout
    BY <1>0, <1>2, UnitFacts
  <2>2. U(i) * r <= U(i) * MaxTimeout /\ U(i) * MaxTimeout \in Nat
    BY <1>0, <1>2, <1>3, <1>4, Monotone
  <2> HIDE DEF r
  <2> QED
    BY <1>0, <1>3, <2>1, <2>2
<1>6. t0 = SaidBy(r, i)
  <2>1. t0 = IF Letters[i] = "H" /\ r > MaxDuration \div U(6) THEN MaxDuration
             ELSE Wrapped(U(i) * r)
    BY <1>1, UnitFacts DEF DecodeTimeout, U
  <2>2. SaidBy(r, i) = IF U(i) * r > MaxDuration THEN MaxDuration ELSE U(i) * r
    BY <1>3, SaidByIs
  <2>3. CASE U(i) * r > MaxDuration
    <3>1. i = 6 /\ Letters[i] = "H"
      BY <1>0, <1>3, <1>5, <2>3, UnitFacts
    <3>2. ~(r <= MaxDuration \div U(6))
      BY <1>0, <1>2, <1>3, <2>3, <3>1, DivBound
    <3>3. MaxDuration \div U(6) \in Nat
      BY <1>0, <1>2, <3>1
    <3>4. r > MaxDuration \div U(6)
      <4> HIDE DEF r
      <4> QED
        BY <1>3, <3>2, <3>3
    <3> QED
      BY <2>1, <2>2, <2>3, <3>1, <3>4
  <2>4. CASE ~(U(i) * r > MaxDuration)
    <3>1. U(i) * r \in 0..MaxDuration
      BY <1>0, <1>3, <2>4
    <3>2. Wrapped(U(i) * r) = U(i) * r
      BY <3>1, WrappedFits
    <3>3. ~(Letters[i] = "H" /\ r > MaxDuration \div U(6))
      <4> SUFFICES ASSUME Letters[i] = "H" PROVE ~(r > MaxDuration \div U(6))
        OBVIOUS
      <4>1. i = 6
        BY UnitFacts
      <4>2. r <= MaxDuration \div U(6) /\ MaxDuration \div U(6) \in Nat
        BY <1>0, <1>2, <1>3, <3>1, <4>1, DivBound
      <4> HIDE DEF r
      <4> QED
        BY <1>3, <4>2
    <3> QED
      BY <2>1, <2>2, <2>4, <3>2, <3>3
  <2> QED
    BY <2>3, <2>4
<1>7. t0 = IF U(i) * r > MaxDuration THEN MaxDuration ELSE U(i) * r
  BY <1>3, <1>6, SaidByIs
<1>8. t0 \in Sayable
  BY <1>0, <1>3, <1>4, <1>6, SayableIs
<1>9. t0 >= d /\ t0 <= MaxDuration /\ t0 \in Nat
  BY <1>0, <1>3, <1>7
<1>10. ASSUME NEW t \in Sayable, t >= d PROVE t0 <= t
  <2>1. PICK c \in 0..MaxTimeout, j \in 1..6 : t = SaidBy(c, j)
    BY SayableIs
  <2>2. /\ c \in Nat /\ U(j) * c \in Nat /\ U(j) \in Nat \ {0}
        /\ t = IF U(j) * c > MaxDuration THEN MaxDuration ELSE U(j) * c
    <3>1. c \in Nat /\ U(j) \in Nat \ {0}
      BY <1>0, UnitFacts
    <3>2. /\ U(j) * c \in Nat
          /\ SaidBy(c, j) = IF U(j) * c > MaxDuration THEN MaxDuration ELSE U(j) * c
      BY <3>1, SaidByIs
    <3> QED
      BY <2>1, <3>1, <3>2
  <2> HIDE DEF t0, r
  <2>3. CASE U(j) * c > MaxDuration
    BY <1>0, <1>9, <2>2, <2>3
  <2>4. CASE ~(U(j) * c > MaxDuration)
    <3>1. t = U(j) * c
      BY <2>2, <2>4
    <3>2. CASE i <= j
      <4>1. PICK m \in Nat : U(j) * c = U(i) * m
        BY <2>2, <3>2, Coarser
      <4>2. r <= m
        BY <1>0, <1>2, <1>10, <3>1, <4>1, RoundUpLeast DEF r
      <4>3. U(i) * r <= U(i) * m
        BY <1>2, <1>3, <4>1, <4>2, Monotone
      <4> QED
        BY <1>0, <1>3, <1>7, <2>2, <2>4, <3>1, <4>1, <4>3
    <3>3. CASE ~(i <= j)
      <4>1. j \in 1..5 /\ j < i
        BY <3>3
      <4>2. RoundUp(d, U(j)) > MaxTimeout
        BY <1>1, <4>1
      <4>3. RoundUp(d, U(j)) <= c
        BY <1>0, <1>10, <2>2, <3>1, RoundUpLeast
      <4>4. RoundUp(d, U(j)) \in Nat
        BY <1>0, <2>2, RoundUpBounds
      <4> QED
        BY <1>0, <4>2, <4>3, <4>4
    <3> QED
      BY <3>2, <3>3
  <2> QED
    BY <2>3, <2>4
<1> HIDE DEF t0
<1>11. \A t \in Sayable : t >= d => t0 <= t
  BY <1>10
<1> QED
  BY <1>8, <1>9, <1>11 DEF t0

(* ... so that it is the least of those that are no shorter. *)
LEMMA NearestIsMin ==
  ASSUME NEW d \in 1..MaxDuration
  PROVE  DecodeTimeout(EncodeTimeout(d)) = Min({t \in Sayable : t >= d})
<1> DEFINE S == {t \in Sayable : t >= d}
           t0 == DecodeTimeout(EncodeTimeout(d))
<1>1. t0 \in S /\ \A t \in S : t0 <= t
  BY TimeoutNearest
<1>2. S \subseteq Int
  <2> SUFFICES ASSUME NEW t \in Sayable PROVE t \in Int
    OBVIOUS
  <2>1. PICK c \in 0..MaxTimeout, j \in 1..6 : t = SaidBy(c, j)
    BY SayableIs
  <2>2. c \in Nat /\ MaxDuration \in Nat
    BY UnitFacts
  <2> QED
    <3>1. /\ U(j) * c \in Nat
          /\ SaidBy(c, j) = IF U(j) * c > MaxDuration THEN MaxDuration ELSE U(j) * c
      BY <2>2, SaidByIs
    <3> QED
      BY <2>1, <2>2, <3>1
<1> HIDE DEF S, t0
<1>3. Min(S) \in S /\ \A t \in S : Min(S) <= t
  BY <1>1 DEF Min
<1>4. t0 <= Min(S) /\ Min(S) <= t0 /\ t0 \in Int /\ Min(S) \in Int
  BY <1>1, <1>2, <1>3
<1> QED
  BY <1>4 DEF S, t0

(***************************************************************************)
(* The status                                                              *)
(***************************************************************************)

WithMessage(e) == [e EXCEPT !.msg = StatusMessage(e)]

(* An error is a record, whose code is not the mark of no protobuf.         *)
LEMMA ErrorIs ==
  ASSUME NEW e \in Errors, e # Nil
  PROVE  /\ e = [code |-> e.code, msg |-> e.msg, details |-> e.details]
         /\ e.code # NoProto /\ CodeOf(e) = e.code
         /\ WithMessage(e) = [code |-> e.code, msg |-> StatusMessage(e), details |-> e.details]
<1>1. e = [code |-> e.code, msg |-> e.msg, details |-> e.details]
  BY ErrorAssumption
<1>2. e.code # NoProto /\ CodeOf(e) = e.code
  <2>1. e.code \in {x.code : x \in Errors \ {Nil}}
    OBVIOUS
  <2>2. NoProto \notin Relayed \cup {x.code : x \in Errors \ {Nil}}
    BY ErrorAssumption
  <2> QED
    BY <2>1, <2>2 DEF CodeOf
<1>3. WithMessage(e) = [code |-> e.code, msg |-> StatusMessage(e), details |-> e.details]
  BY <1>1 DEF WithMessage
<1> QED
  BY <1>1, <1>2, <1>3

(* The status headers, one by one. *)
LEMMA StatusHeadersAre ==
  ASSUME NEW e \in Errors
  PROVE  LET S == StatusHeaders(e) IN
         /\ S \in Seq(ToSet(S))
         /\ Len(S) = IF e = Nil THEN 1 ELSE IF HasDetails(e) THEN 3 ELSE 2
         /\ S[1].name = "grpc-status" /\ S[1].value = CodeOf(e)
         /\ e # Nil => S[2].name = "grpc-message" /\ S[2].value = OverWire(StatusMessage(e))
         /\ HasDetails(e) => S[3].name = DetailsKey /\ S[3].value = Single(WithMessage(e))
<1> DEFINE h1 == Header("grpc-status", CodeOf(e))
           h2 == Header("grpc-message", OverWire(StatusMessage(e)))
           h3 == Header(DetailsKey, Single(WithMessage(e)))
           S == StatusHeaders(e)
<1>0. /\ h1.name = "grpc-status" /\ h1.value = CodeOf(e)
      /\ h2.name = "grpc-message" /\ h2.value = OverWire(StatusMessage(e))
      /\ h3.name = DetailsKey /\ h3.value = Single(WithMessage(e))
  BY DEF Header
<1>2. HasDetails(e) => e # Nil
  BY DEF HasDetails, CodeOf
<1>3. S = IF e = Nil THEN <<h1>> ELSE IF HasDetails(e) THEN <<h1, h2, h3>> ELSE <<h1, h2>>
  <2>1. CASE e = Nil
    BY <2>1 DEF StatusHeaders, CodeOf
  <2>2. CASE e # Nil /\ HasDetails(e)
    BY <2>2 DEF StatusHeaders, CodeOf, WithMessage, Single
  <2>3. CASE e # Nil /\ ~HasDetails(e)
    BY <2>3 DEF StatusHeaders, CodeOf
  <2> QED
    BY <2>1, <2>2, <2>3
<1> HIDE DEF h1, h2, h3, S
<1>4. S \in Seq({h1, h2, h3})
  <2>1. /\ <<h1>> \in Seq({h1, h2, h3}) /\ <<h1, h2>> \in Seq({h1, h2, h3})
        /\ <<h1, h2, h3>> \in Seq({h1, h2, h3})
    OBVIOUS
  <2> QED
    BY <1>3, <2>1
<1>5. S \in Seq(ToSet(S))
  BY <1>4, SeqOverRange
<1> QED
  BY <1>0, <1>2, <1>3, <1>5 DEF S

(* What the status headers say, by name. *)
LEMMA StatusFieldsAre ==
  ASSUME NEW e \in Errors
  PROVE  LET S == StatusHeaders(e) IN
         /\ HasField(S, "grpc-status") /\ Field(S, "grpc-status") = CodeOf(e)
         /\ HasField(S, "grpc-message") <=> e # Nil
         /\ e # Nil => Field(S, "grpc-message") = OverWire(StatusMessage(e))
         /\ Places(S, DetailsKey) = IF HasDetails(e) THEN {3} ELSE {}
         /\ HasDetails(e) => Field(S, DetailsKey) = Single(WithMessage(e))
<1> DEFINE S == StatusHeaders(e)
<1>1. /\ S \in Seq(ToSet(S))
      /\ Len(S) = IF e = Nil THEN 1 ELSE IF HasDetails(e) THEN 3 ELSE 2
      /\ S[1].name = "grpc-status" /\ S[1].value = CodeOf(e)
      /\ e # Nil => S[2].name = "grpc-message" /\ S[2].value = OverWire(StatusMessage(e))
      /\ HasDetails(e) => S[3].name = DetailsKey /\ S[3].value = Single(WithMessage(e))
  BY StatusHeadersAre
<1>2. HasDetails(e) => e # Nil
  BY DEF HasDetails, CodeOf
<1> HIDE DEF S
<1>3. DOMAIN S = 1..Len(S)
  <2>1. S \in Seq(ToSet(S))
    BY <1>1
  <2> HIDE <1>1
  <2> DEFINE R == ToSet(S)
  <2> HIDE DEF R
  <2> QED
    BY <2>1 DEF R
<1>4. /\ Places(S, "grpc-status") = {1}
      /\ Places(S, "grpc-message") = IF e = Nil THEN {} ELSE {2}
      /\ Places(S, DetailsKey) = IF HasDetails(e) THEN {3} ELSE {}
  BY <1>1, <1>2, <1>3 DEF Places, DetailsKey
<1>5. \A i \in {1, 2, 3} : Max({i}) = i
  BY DEF Max
<1> QED
  BY <1>1, <1>2, <1>4, <1>5 DEF Field, HasField, S

NoStatusIn(hs) == \A h \in ToSet(hs) : h.name \notin {"grpc-status", "grpc-message"}
NoDetailsIn(hs) == \A h \in ToSet(hs) : h.name # DetailsKey
GivenIn(hs, G) == \A h \in ToSet(hs) : h.name = DetailsKey => \E v \in G : h.value = Single(v)
MessageOf(e) == IF e = Nil THEN "" ELSE OverWire(StatusMessage(e))

(* A status that may be taken for the error e among the details in G. *)
Loosely(s, e, G) ==
  \/ s = Expected(e)
  \/ /\ G # {}
     /\ \/ s = Fallback(CodeOf(e), MessageOf(e))
        \/ s = Mismatch /\ \E v \in G : v.code \notin {NoProto, CodeOf(e)}
        \/ \E v \in G : v.code = CodeOf(e) /\ s = [code |-> v.code, msg |-> v.msg, details |-> v.details]

LEMMA LooselyMore ==
  ASSUME NEW s, NEW e, NEW G, NEW H, G \subseteq H, Loosely(s, e, G)
  PROVE  Loosely(s, e, H)
BY DEF Loosely

(* Behind headers without a status the status of StatusHeaders is the one   *)
(* found: exactly, or, when an application header took the name of the      *)
(* details, up to them.                                                     *)
LEMMA StatusExact ==
  ASSUME NEW X, NEW a \in Seq(X), NEW e \in Errors, NoStatusIn(a)
  PROVE  LET hs == a \o StatusHeaders(e) IN
         /\ HasStatus(hs)
         /\ NoDetailsIn(a) => StatusFrom(hs) = Expected(e)
         /\ \A G : GivenIn(a, G) => Loosely(StatusFrom(hs), e, G)
<1> DEFINE S == StatusHeaders(e)
           hs == a \o S
           Y == X \cup ToSet(S)
           code == CodeOf(e)
           msg == MessageOf(e)
<1>1. /\ HasField(S, "grpc-status") /\ Field(S, "grpc-status") = code
      /\ HasField(S, "grpc-message") <=> e # Nil
      /\ e # Nil => Field(S, "grpc-message") = OverWire(StatusMessage(e))
      /\ Places(S, DetailsKey) = IF HasDetails(e) THEN {3} ELSE {}
      /\ HasDetails(e) => Field(S, DetailsKey) = Single(WithMessage(e))
  BY StatusFieldsAre
<1>2. S \in Seq(ToSet(S)) /\ (HasDetails(e) => Len(S) = 3)
  BY StatusHeadersAre DEF HasDetails, CodeOf
<1>3. a \in Seq(Y) /\ S \in Seq(Y)
  <2> HIDE DEF S
  <2> QED
    BY <1>2
<1> HIDE DEF S
<1>4. ~HasField(a, "grpc-status") /\ ~HasField(a, "grpc-message")
  BY NoField DEF NoStatusIn
<1>5. /\ HasField(hs, "grpc-status") /\ Field(hs, "grpc-status") = code
      /\ HasField(hs, "grpc-message") <=> e # Nil
      /\ e # Nil => Field(hs, "grpc-message") = msg
  <2> HIDE DEF code, Y
  <2> QED
    BY <1>1, <1>3, <1>4, FieldConcat DEF MessageOf
<1>6. HasStatus(hs) /\ StatusFrom(hs) = DecodeStatusDetailsBin(code, msg, hs)
  BY <1>5 DEF HasStatus, StatusFrom, MessageOf
<1>7. /\ \A i \in 1..(Len(a) + Len(S)) :
           i \in Places(hs, DetailsKey) <=> IF i <= Len(a) THEN i \in Places(a, DetailsKey)
                                            ELSE i - Len(a) \in Places(S, DetailsKey)
      /\ Places(hs, DetailsKey) \subseteq 1..(Len(a) + Len(S))
      /\ Places(a, DetailsKey) \subseteq 1..Len(a)
      /\ DOMAIN hs = 1..(Len(a) + Len(S)) /\ Len(a) \in Nat /\ Len(S) \in Nat
  <2>1. DOMAIN hs = 1..(Len(a) + Len(S)) /\ Len(a) \in Nat /\ Len(S) \in Nat
    BY <1>3
  <2> HIDE DEF Y
  <2> QED
    BY <1>3, <2>1, PlacesConcat
<1>8. hs \in Seq(Y)
  BY <1>3, ConcatType
<1> HIDE DEF hs, Y
<1>9. ASSUME NoDetailsIn(a) PROVE StatusFrom(hs) = Expected(e)
  <2>1. ~HasField(a, DetailsKey) /\ Places(a, DetailsKey) = {}
    BY <1>9, NoField DEF NoDetailsIn, HasField
  <2>2. CASE HasDetails(e)
    <3>1. Places(hs, DetailsKey) = {Len(a) + 3} /\ Len(a) + 3 \in DOMAIN hs
      <4>1. Len(S) = 3 /\ Places(S, DetailsKey) = {3}
        BY <1>1, <1>2, <2>2
      <4>2. Len(a) + 3 \in 1..(Len(a) + Len(S)) /\ ~(Len(a) + 3 <= Len(a)) /\ Len(a) + 3 - Len(a) = 3
        BY <1>7, <4>1
      <4>3. Len(a) + 3 \in Places(hs, DetailsKey)
        BY <1>7, <4>1, <4>2
      <4>4. \A i \in Places(hs, DetailsKey) : i \in 1..(Len(a) + Len(S)) /\ i - Len(a) = 3
        BY <1>7, <2>1, <4>1
      <4>5. \A i \in Places(hs, DetailsKey) : i = Len(a) + 3
        BY <1>7, <4>4
      <4> QED
        BY <1>7, <4>2, <4>3, <4>5
    <3>2. Field(hs, DetailsKey) = Single(WithMessage(e))
      <4>1. HasField(S, DetailsKey)
        BY <1>1, <2>2 DEF HasField
      <4>2. Field(hs, DetailsKey) = Field(S, DetailsKey)
        BY <1>3, <4>1, FieldConcat DEF hs
      <4> QED
        BY <1>1, <2>2, <4>2
    <3>3. e # Nil /\ e \in Errors /\ StatusMessage(e) # "not utf-8"
      BY <2>2 DEF HasDetails, CodeOf
    <3>4. /\ WithMessage(e) = [code |-> e.code, msg |-> StatusMessage(e), details |-> e.details]
          /\ e.code # NoProto
      BY <3>3, ErrorIs
    <3>5. Len(Field(hs, DetailsKey)) = 1 /\ Field(hs, DetailsKey)[1] = WithMessage(e)
      BY <3>2 DEF Single
    <3>6. code = e.code
      BY <3>3, ErrorIs
    <3>7. ~(\A i \in DOMAIN hs : Places(hs, DetailsKey) # {i})
      BY <3>1
    <3>8. StatusFrom(hs) = [code |-> e.code, msg |-> StatusMessage(e), details |-> e.details]
      <4> DEFINE st == Field(hs, DetailsKey)[1]
      <4>1. st.code = e.code /\ st.msg = StatusMessage(e) /\ st.details = e.details
        BY <3>4, <3>5
      <4> HIDE DEF code
      <4> QED
        BY <1>6, <3>4, <3>5, <3>6, <3>7, <4>1 DEF DecodeStatusDetailsBin
    <3>9. /\ OverWire(StatusMessage(e)) = StatusMessage(e) /\ e.msg # "not utf-8"
          /\ CodeOf(e) # "OK"
      BY <2>2, <3>3 DEF OverWire, StatusMessage, HasDetails
    <3> QED
      BY <3>8, <3>9 DEF Expected
  <2>3. CASE ~HasDetails(e)
    <3>1. Places(hs, DetailsKey) = {}
      BY <1>1, <1>7, <2>1, <2>3
    <3>2. StatusFrom(hs) = Fallback(code, msg)
      BY <1>6, <3>1 DEF DecodeStatusDetailsBin
    <3>3. CASE CodeOf(e) = "OK"
      BY <3>2, <3>3 DEF Fallback, Expected
    <3>4. CASE CodeOf(e) # "OK"
      <4>1. e # Nil /\ code = e.code /\ msg = OverWire(StatusMessage(e))
        BY <3>4, ErrorIs DEF CodeOf, MessageOf
      <4>2. e.msg = "not utf-8" \/ e.details = {}
        BY <2>3, <3>4 DEF HasDetails, StatusMessage
      <4> QED
        BY <3>2, <3>4, <4>1, <4>2 DEF Fallback, Expected
    <3> QED
      BY <3>3, <3>4
  <2> QED
    BY <2>2, <2>3
<1>10. ASSUME NEW G, GivenIn(a, G) PROVE Loosely(StatusFrom(hs), e, G)
  <2> DEFINE w == Field(hs, DetailsKey)
  <2>1. CASE ~HasField(a, DetailsKey)
    <3>1. NoDetailsIn(a)
      BY <1>3, <2>1, NoField DEF NoDetailsIn
    <3> QED
      BY <1>9, <3>1 DEF Loosely
  <2>2. CASE HasField(a, DetailsKey) /\ StatusFrom(hs) = Fallback(code, msg)
    <3>1. G # {}
      BY <1>10, <2>2, FieldIs DEF GivenIn
    <3> QED
      BY <2>2, <3>1 DEF Loosely
  <2>3. CASE HasField(a, DetailsKey) /\ StatusFrom(hs) # Fallback(code, msg)
    <3>1. /\ HasField(hs, DetailsKey) /\ Len(w) = 1 /\ w[1].code # NoProto
          /\ StatusFrom(hs) = IF w[1].code # code THEN Mismatch
                             ELSE [code |-> code, msg |-> w[1].msg, details |-> w[1].details]
      BY <1>6, <2>3 DEF DecodeStatusDetailsBin, HasField
    <3>2. CASE HasField(S, DetailsKey)
      <4>1. HasDetails(e) /\ w = Single(WithMessage(e))
        BY <1>1, <1>3, <3>2, FieldConcat DEF hs, HasField
      <4>2. e # Nil /\ CodeOf(e) # "OK" /\ StatusMessage(e) # "not utf-8"
        BY <4>1 DEF HasDetails, CodeOf
      <4>3. /\ WithMessage(e) = [code |-> e.code, msg |-> StatusMessage(e), details |-> e.details]
            /\ code = e.code
        BY <4>2, ErrorIs
      <4>4. w[1].code = code /\ w[1].msg = StatusMessage(e) /\ w[1].details = e.details
        BY <4>1, <4>3 DEF Single
      <4>5. StatusFrom(hs) = [code |-> e.code, msg |-> StatusMessage(e), details |-> e.details]
        BY <3>1, <4>3, <4>4
      <4>6. OverWire(StatusMessage(e)) = StatusMessage(e) /\ e.msg # "not utf-8"
        BY <4>2 DEF OverWire, StatusMessage
      <4>7. StatusFrom(hs) = Expected(e)
        BY <4>2, <4>5, <4>6 DEF Expected
      <4> QED
        BY <4>7 DEF Loosely
    <3>3. CASE ~HasField(S, DetailsKey)
      <4>1. HasField(a, DetailsKey) /\ w = Field(a, DetailsKey)
        BY <1>3, <3>1, <3>3, FieldConcat DEF hs
      <4>2. PICK v \in G : w = Single(v)
        BY <1>10, <4>1, FieldIs DEF GivenIn
      <4>3. w[1] = v
        BY <4>2 DEF Single
      <4>4. CASE v.code # code
        BY <3>1, <4>2, <4>3, <4>4 DEF Loosely
      <4>5. CASE v.code = code
        BY <3>1, <4>2, <4>3, <4>5 DEF Loosely
      <4> QED
        BY <4>4, <4>5
    <3> QED
      BY <3>2, <3>3
  <2> QED
    BY <2>1, <2>2, <2>3
<1> QED
  BY <1>6, <1>9, <1>10 DEF hs, S

(***************************************************************************)
(* What a list of headers carries of an application's metadata             *)
(***************************************************************************)

KindValues(kind) == {v \in OwnValues : v.kind = kind}

(* A list of headers whose values are lists over V. *)
Reads(axis, hs, V) == hs \in Seq(ToSet(hs)) /\ Readable(axis, ToSet(hs), V)

(* Metadata that says of the application's keys what sn says, as far as the *)
(* values of a kind go.                                                     *)
Carries(axis, landed, sn, kind) ==
  \A k \in AppKeys : Lower(k) \notin Reserved(axis) =>
    \A T \in SUBSET KindValues(kind) :
      /\ k \in DOMAIN sn => ToSet(sn[k]) \subseteq T
      /\ \A j \in DOMAIN sn : j # k /\ Lower(j) = Lower(k) => ToSet(sn[j]) \cap T = {}
      => Only(Values(landed, Lower(k)), T) = Values(sn, k)

(* The same, apart from the keys in taken. *)
CarriesBut(axis, landed, sn, kind, taken) ==
  \A k \in AppKeys : Lower(k) \notin Reserved(axis) \cup taken =>
    \A T \in SUBSET KindValues(kind) :
      /\ k \in DOMAIN sn => ToSet(sn[k]) \subseteq T
      /\ \A j \in DOMAIN sn : j # k /\ Lower(j) = Lower(k) => ToSet(sn[j]) \cap T = {}
      => Only(Values(landed, Lower(k)), T) = Values(sn, k)

LEMMA CarriesMore ==
  ASSUME NEW axis, NEW landed, NEW sn, NEW kind, NEW taken, Carries(axis, landed, sn, kind)
  PROVE  CarriesBut(axis, landed, sn, kind, taken)
BY DEF Carries, CarriesBut

(* Headers that say nothing of that kind. *)
Quiet(axis, hs, kind) ==
  \A k \in AppKeys : Lower(k) \notin Reserved(axis) =>
    ToSet(Gather(axis, hs, Lower(k))) \cap KindValues(kind) = {}

(* The elements of a prefix. *)
LEMMA PrefixRange ==
  ASSUME NEW X, NEW s \in Seq(X), NEW t \in Seq(X), IsPrefix(s, t)
  PROVE  ToSet(s) \subseteq ToSet(t)
<1>1. Len(s) <= Len(t) /\ \A i \in 1..Len(s) : s[i] = t[i]
  BY PrefixIs
<1> QED
  BY <1>1 DEF ToSet

(* Two readable lists, one after the other, can be read. *)
LEMMA ReadsConcat ==
  ASSUME NEW axis, NEW V, NEW a, NEW b, Reads(axis, a, V), Reads(axis, b, V)
  PROVE  Reads(axis, a \o b, V)
<1> DEFINE X == ToSet(a) \cup ToSet(b)
           c == a \o b
<1>1. a \in Seq(X) /\ b \in Seq(X)
  BY DEF Reads
<1>2. Readable(axis, X, V)
  BY DEF Reads, Readable
<1> HIDE DEF X
<1>3. c \in Seq(X) /\ ToSet(c) = ToSet(a) \cup ToSet(b)
  BY <1>1, ConcatRange, ConcatType
<1> HIDE DEF c
<1>6. c \in Seq(ToSet(c))
  BY <1>3, SeqOverRange
<1>7. Readable(axis, ToSet(c), V)
  BY <1>2, <1>3 DEF X, Readable
<1> QED
  BY <1>6, <1>7 DEF c, Reads

(* ... and the values of a key follow each other. *)
LEMMA GatherJoins ==
  ASSUME NEW axis, NEW V, NEW a, NEW b, Reads(axis, a, V), Reads(axis, b, V), NEW k
  PROVE  /\ Gather(axis, a \o b, k) = Gather(axis, a, k) \o Gather(axis, b, k)
         /\ Gather(axis, a, k) \in Seq(V) /\ Gather(axis, b, k) \in Seq(V)
<1> DEFINE X == ToSet(a) \cup ToSet(b)
<1>1. a \in Seq(X) /\ b \in Seq(X)
  BY DEF Reads
<1>2. Readable(axis, X, V)
  BY DEF Reads, Readable
<1> HIDE DEF X
<1>4. Gather(axis, a \o b, k) = Gather(axis, a, k) \o Gather(axis, b, k)
  BY <1>1, <1>2, GatherConcat
<1>5. Gather(axis, a, k) \in Seq(V) /\ Gather(axis, b, k) \in Seq(V)
  BY <1>1, <1>2, GatherIs
<1> QED
  BY <1>4, <1>5

(* No headers are readable and say nothing. *)
LEMMA ReadsNothing ==
  ASSUME NEW axis, NEW V, NEW kind
  PROVE  Reads(axis, <<>>, V) /\ Quiet(axis, <<>>, kind)
<1> DEFINE e == <<>>
<1>1. e \in Seq({}) /\ ToSet(e) = {}
  BY EmptyRange
<1>2. Reads(axis, e, V)
  <2> HIDE DEF e
  <2> QED
    BY <1>1 DEF Reads, Readable
<1>3. \A k : Gather(axis, e, k) = e
  BY <1>1 DEF Gather, Values, DecodeMetadata
<1>4. Quiet(axis, e, kind)
  <2> HIDE DEF e
  <2> QED
    BY <1>1, <1>3 DEF Quiet
<1> QED
  BY <1>2, <1>4

(* Headers of which each says nothing of a kind say nothing of it. *)
LEMMA QuietIs ==
  ASSUME NEW axis, NEW V, NEW hs, NEW kind, Reads(axis, hs, V),
         \A h \in ToSet(hs), k \in AppKeys : Lower(k) \notin Reserved(axis) =>
            ToSet(ValuesOfKey(axis, Lower(k), h)) \cap KindValues(kind) = {}
  PROVE  Quiet(axis, hs, kind)
<1> SUFFICES ASSUME NEW k \in AppKeys, Lower(k) \notin Reserved(axis),
                    NEW v \in ToSet(Gather(axis, hs, Lower(k)))
             PROVE  v \notin KindValues(kind)
  BY DEF Quiet
<1> DEFINE X == ToSet(hs)
           f == [h \in X |-> ValuesOfKey(axis, Lower(k), h)]
<1>1. hs \in Seq(X) /\ Readable(axis, X, V)
  BY DEF Reads
<1>2. Gather(axis, hs, Lower(k)) = FlatMap(hs, f)
  <2> HIDE DEF X
  <2> QED
    BY <1>1, GatherIs
<1>3. Lists(f, X, V)
  BY <1>1 DEF Lists, Readable
<1>4. v \in ToSet(FlatMap(hs, f))
  BY <1>2
<1>5. \A h \in X : f[h] = ValuesOfKey(axis, Lower(k), h)
  OBVIOUS
<1>6. \E h \in ToSet(hs) : v \in ToSet(f[h])
  <2> HIDE DEF f, X
  <2> QED
    BY <1>1, <1>3, <1>4, FlatMapRange
<1> QED
  BY <1>5, <1>6

(* Two lists that say nothing of a kind, one after the other. *)
LEMMA QuietConcat ==
  ASSUME NEW axis, NEW V, NEW a, NEW b, NEW kind, Reads(axis, a, V), Reads(axis, b, V),
         Quiet(axis, a, kind), Quiet(axis, b, kind)
  PROVE  Quiet(axis, a \o b, kind)
<1>2. ASSUME NEW k
      PROVE  ToSet(Gather(axis, a \o b, k)) = ToSet(Gather(axis, a, k)) \cup ToSet(Gather(axis, b, k))
  <2>1. /\ Gather(axis, a \o b, k) = Gather(axis, a, k) \o Gather(axis, b, k)
        /\ Gather(axis, a, k) \in Seq(V) /\ Gather(axis, b, k) \in Seq(V)
    BY GatherJoins
  <2> QED
    BY <2>1, ConcatRange
<1> QED
  BY <1>2 DEF Quiet

(* Headers in front that say nothing do not change what arrives, *)
LEMMA CarriesAfter ==
  ASSUME NEW axis, NEW V, NEW a, NEW b, NEW sn, NEW kind, Reads(axis, a, V), Reads(axis, b, V),
         Quiet(axis, a, kind), Carries(axis, DecodeMetadata(axis, b), sn, kind)
  PROVE  Carries(axis, DecodeMetadata(axis, a \o b), sn, kind)
<1> SUFFICES ASSUME NEW k \in AppKeys, Lower(k) \notin Reserved(axis),
                    NEW T \in SUBSET KindValues(kind),
                    k \in DOMAIN sn => ToSet(sn[k]) \subseteq T,
                    \A j \in DOMAIN sn : j # k /\ Lower(j) = Lower(k) => ToSet(sn[j]) \cap T = {}
             PROVE  Only(Values(DecodeMetadata(axis, a \o b), Lower(k)), T) = Values(sn, k)
  BY DEF Carries
<1> DEFINE p == Gather(axis, a, Lower(k))
           q == Gather(axis, b, Lower(k))
<1>1. p \in Seq(V) /\ q \in Seq(V) /\ Values(DecodeMetadata(axis, a \o b), Lower(k)) = p \o q
  <2>1. p \in Seq(V) /\ q \in Seq(V) /\ Gather(axis, a \o b, Lower(k)) = p \o q
    BY GatherJoins
  <2> QED
    BY <2>1 DEF Gather
<1>2. ToSet(p) \cap T = {}
  BY DEF Quiet
<1>3. Only(q, T) = Values(sn, k)
  BY DEF Carries, Gather
<1> HIDE DEF p, q
<1>4. Only(p \o q, T) = Only(p, T) \o Only(q, T) /\ Only(p, T) = <<>> /\ Only(q, T) \in Seq(V)
  <2>1. Only(p \o q, T) = Only(p, T) \o Only(q, T)
    BY <1>1, OnlyConcat
  <2>2. Only(p, T) = <<>>
    BY <1>1, <1>2, OnlyNone
  <2>3. Only(q, T) \in Seq(V)
    BY <1>1, OnlyIs
  <2> QED
    BY <2>1, <2>2, <2>3
<1>5. Only(p \o q, T) = Only(q, T)
  BY <1>4, ConcatType
<1> QED
  BY <1>1, <1>3, <1>5

(* ... nor do headers behind. *)
LEMMA CarriesBefore ==
  ASSUME NEW axis, NEW V, NEW a, NEW b, NEW sn, NEW kind, Reads(axis, a, V), Reads(axis, b, V),
         Quiet(axis, b, kind), Carries(axis, DecodeMetadata(axis, a), sn, kind)
  PROVE  Carries(axis, DecodeMetadata(axis, a \o b), sn, kind)
<1> SUFFICES ASSUME NEW k \in AppKeys, Lower(k) \notin Reserved(axis),
                    NEW T \in SUBSET KindValues(kind),
                    k \in DOMAIN sn => ToSet(sn[k]) \subseteq T,
                    \A j \in DOMAIN sn : j # k /\ Lower(j) = Lower(k) => ToSet(sn[j]) \cap T = {}
             PROVE  Only(Values(DecodeMetadata(axis, a \o b), Lower(k)), T) = Values(sn, k)
  BY DEF Carries
<1> DEFINE p == Gather(axis, a, Lower(k))
           q == Gather(axis, b, Lower(k))
<1>1. p \in Seq(V) /\ q \in Seq(V) /\ Values(DecodeMetadata(axis, a \o b), Lower(k)) = p \o q
  <2>1. p \in Seq(V) /\ q \in Seq(V) /\ Gather(axis, a \o b, Lower(k)) = p \o q
    BY GatherJoins
  <2> QED
    BY <2>1 DEF Gather
<1>2. ToSet(q) \cap T = {}
  BY DEF Quiet
<1>3. Only(p, T) = Values(sn, k)
  BY DEF Carries, Gather
<1> HIDE DEF p, q
<1>4. Only(p \o q, T) = Only(p, T) \o Only(q, T) /\ Only(q, T) = <<>> /\ Only(p, T) \in Seq(V)
  <2>1. Only(p \o q, T) = Only(p, T) \o Only(q, T)
    BY <1>1, OnlyConcat
  <2>2. Only(q, T) = <<>>
    BY <1>1, <1>2, OnlyNone
  <2>3. Only(p, T) \in Seq(V)
    BY <1>1, OnlyIs
  <2> QED
    BY <2>1, <2>2, <2>3
<1>5. Only(p \o q, T) = Only(p, T)
  BY <1>4, ConcatType
<1> QED
  BY <1>1, <1>3, <1>5

(* What the encoder writes carries what it was given. *)
LEMMA EncodedCarries ==
  ASSUME NEW axis, NEW md, NEW V, MetadataOver(md, V), Malformed \notin V,
         NEW order, Permutes(order, DOMAIN md), NEW kind
  PROVE  /\ Reads(axis, EncodeMetadata(axis, md, order), V)
         /\ Carries(axis, DecodeMetadata(axis, EncodeMetadata(axis, md, order)), md, kind)
<1> DEFINE hs == EncodeMetadata(axis, md, order)
           W == Wires(axis, DOMAIN md, V)
<1>1. order \in Seq(DOMAIN md)
  BY DEF Permutes
<1>2. hs \in Seq(W)
  BY <1>1, EncodeType
<1>3. Readable(axis, W, V)
  BY WiresReadable
<1>4. Reads(axis, hs, V)
  <2> HIDE DEF W, hs
  <2>1. hs \in Seq(ToSet(hs)) /\ ToSet(hs) \subseteq W
    BY <1>2, SeqOverRange
  <2> QED
    BY <1>3, <2>1 DEF Reads, Readable
<1>5. Carries(axis, DecodeMetadata(axis, hs), md, kind)
  BY OnlyEncoded DEF Carries, Gather
<1> QED
  BY <1>4, <1>5

(***************************************************************************)
(* What a handle holds, and a snapshot of it                               *)
(***************************************************************************)

(* A handle that the goroutines ps of one side add to: the application's    *)
(* keys hold what they added, each value once, and no other key is one of   *)
(* those in other letters.                                                  *)
Holds(md, V, ps, kind, ad) ==
  /\ IsFiniteSet(DOMAIN md) /\ MetadataOver(md, V)
  /\ \A k \in DOMAIN md \ AppKeys : \A j \in AppKeys : Lower(j) # Lower(k)
  /\ \A k \in DOMAIN md \cap AppKeys : \A v \in ToSet(md[k]) :
        v \in KindValues(kind) /\ v.by \in ps /\ kind \in ad[v.by]
  /\ \A j \in DOMAIN md \cap AppKeys : \A k \in DOMAIN md \cap AppKeys :
        j # k => ToSet(md[j]) \cap ToSet(md[k]) = {}

(* What a getter has returned, as far as the handle has not changed since;  *)
(* what has been added since is among the late values lt.                   *)
Snapshot(sn, md, V, lt) ==
  /\ DOMAIN sn \subseteq DOMAIN md /\ MetadataOver(sn, V)
  /\ \A k \in DOMAIN md : IsPrefix(Values(sn, k), md[k])
  /\ \A k \in DOMAIN md \ AppKeys : Values(sn, k) = md[k]
  /\ \A k \in DOMAIN md \cap AppKeys : \A v \in ToSet(md[k]) \ ToSet(Values(sn, k)) :
        <<v.kind, v.by>> \in lt

KeptBy(axis, md, landed, taken, lt) ==
  \A k \in DOMAIN md \cap AppKeys : Lower(k) \notin Reserved(axis) \cup taken =>
    /\ IsPrefix(Only(Values(landed, Lower(k)), ToSet(md[k])), md[k])
    /\ \A v \in ToSet(md[k]) \ ToSet(Only(Values(landed, Lower(k)), ToSet(md[k]))) :
         <<v.kind, v.by>> \in lt

(* The values of a key. *)
LEMMA ValuesOver ==
  ASSUME NEW md, NEW V, MetadataOver(md, V), NEW k
  PROVE  Values(md, k) \in Seq(V)
BY EmptySeq DEF MetadataOver, Values

(* Metadata that carries a snapshot of a handle keeps what the handle       *)
(* holds, up to what is late.                                               *)
LEMMA KeptFrom ==
  ASSUME NEW axis, NEW md, NEW sn, NEW landed, NEW V, NEW ps, NEW kind, NEW ad, NEW lt,
         NEW taken, Holds(md, V, ps, kind, ad), Snapshot(sn, md, V, lt),
         CarriesBut(axis, landed, sn, kind, taken)
  PROVE  KeptBy(axis, md, landed, taken, lt)
<1> SUFFICES ASSUME NEW k \in DOMAIN md \cap AppKeys, Lower(k) \notin Reserved(axis) \cup taken
             PROVE  /\ IsPrefix(Only(Values(landed, Lower(k)), ToSet(md[k])), md[k])
                    /\ \A v \in ToSet(md[k]) \ ToSet(Only(Values(landed, Lower(k)), ToSet(md[k]))) :
                         <<v.kind, v.by>> \in lt
  BY DEF KeptBy
<1> DEFINE T == ToSet(md[k])
<1>1. T \in SUBSET KindValues(kind)
  BY DEF Holds
<1>2. ASSUME NEW j \in DOMAIN sn PROVE ToSet(sn[j]) \subseteq ToSet(md[j])
  <2>1. sn[j] \in Seq(V) /\ md[j] \in Seq(V) /\ IsPrefix(sn[j], md[j])
    BY DEF Holds, Snapshot, MetadataOver, Values
  <2> QED
    BY <2>1, PrefixRange
<1>3. ASSUME NEW j \in DOMAIN sn, j # k, Lower(j) = Lower(k) PROVE ToSet(sn[j]) \cap T = {}
  <2>1. j \in DOMAIN md \cap AppKeys
    BY <1>3 DEF Holds, Snapshot
  <2>2. ToSet(md[j]) \cap ToSet(md[k]) = {}
    BY <1>3, <2>1 DEF Holds
  <2> QED
    BY <1>2, <2>2
<1>4. Only(Values(landed, Lower(k)), T) = Values(sn, k)
  <2>1. k \in DOMAIN sn => ToSet(sn[k]) \subseteq T
    BY <1>2
  <2> HIDE DEF T
  <2> QED
    BY <1>1, <1>3, <2>1 DEF CarriesBut
<1>5. IsPrefix(Values(sn, k), md[k])
  BY DEF Snapshot
<1>6. \A v \in ToSet(md[k]) \ ToSet(Values(sn, k)) : <<v.kind, v.by>> \in lt
  BY DEF Snapshot
<1> QED
  BY <1>4, <1>5, <1>6

(* What a getter has just returned is a snapshot, *)
LEMMA SnapshotSelf ==
  ASSUME NEW md, NEW V, NEW lt, MetadataOver(md, V)
  PROVE  Snapshot(md, md, V, lt)
<1>1. ASSUME NEW k \in DOMAIN md PROVE Values(md, k) = md[k] /\ IsPrefix(md[k], md[k])
  <2>1. md[k] \in Seq(V)
    BY DEF MetadataOver
  <2> QED
    BY <2>1, PrefixOfAny DEF Values
<1> QED
  BY <1>1 DEF Snapshot

(* ... and stays one as more is late. *)
LEMMA SnapshotLater ==
  ASSUME NEW sn, NEW md, NEW V, NEW lt, NEW mt, Snapshot(sn, md, V, lt), lt \subseteq mt
  PROVE  Snapshot(sn, md, V, mt)
BY DEF Snapshot

(* A handle holds what it held as the goroutines add more. *)
LEMMA HoldsLater ==
  ASSUME NEW md, NEW V, NEW ps, NEW kind, NEW ad, NEW bd, Holds(md, V, ps, kind, ad),
         \A p \in ps : ad[p] \subseteq bd[p]
  PROVE  Holds(md, V, ps, kind, bd)
BY DEF Holds

(* A new handle. *)
LEMMA HoldsNothing ==
  ASSUME NEW V, NEW ps, NEW kind, NEW ad
  PROVE  Holds(NoMetadata, V, ps, kind, ad)
BY FS_EmptySet DEF Holds, NoMetadata, MetadataOver

(* A goroutine adds to a handle a value it has not added before. *)
LEMMA HoldsMore ==
  ASSUME NEW md, NEW V, NEW ps, NEW kind, NEW ad, NEW bd, NEW v, NEW k \in AppKeys,
         Holds(md, V, ps, kind, ad), v \in V, v \in KindValues(kind), v.by \in ps,
         kind \notin ad[v.by], kind \in bd[v.by], \A p \in ps : ad[p] \subseteq bd[p]
  PROVE  Holds(With(md, k, Single(v)), V, ps, kind, bd)
<1> DEFINE m == With(md, k, Single(v))
<1>1. /\ DOMAIN m = DOMAIN md \cup {k}
      /\ m[k] = Values(md, k) \o Single(v)
      /\ \A j \in DOMAIN md \ {k} : m[j] = md[j]
  BY DEF With
<1> HIDE DEF m
<1>2. Single(v) \in Seq(V) /\ ToSet(Single(v)) = {v} /\ Values(md, k) \in Seq(V)
  <2>1. Single(v) \in Seq(V) /\ ToSet(Single(v)) = {v}
    BY DEF Single, ToSet
  <2> QED
    BY <2>1, ValuesOver DEF Holds
<1>3. m[k] \in Seq(V) /\ ToSet(m[k]) = ToSet(Values(md, k)) \cup {v}
  BY <1>1, <1>2, ConcatType, ConcatRange
<1>4. ToSet(Values(md, k)) = IF k \in DOMAIN md THEN ToSet(md[k]) ELSE {}
  BY EmptyRange DEF Values
<1>5. \A j \in DOMAIN md \cap AppKeys : v \notin ToSet(md[j])
  BY DEF Holds
<1>6. IsFiniteSet(DOMAIN m)
  BY <1>1, FS_AddElement DEF Holds
<1>7. MetadataOver(m, V)
  BY <1>1, <1>3 DEF Holds, MetadataOver
<1>8. \A j \in DOMAIN m \ AppKeys : \A i \in AppKeys : Lower(i) # Lower(j)
  BY <1>1 DEF Holds
<1>9. ASSUME NEW j \in DOMAIN m \cap AppKeys, NEW w \in ToSet(m[j])
      PROVE  w \in KindValues(kind) /\ w.by \in ps /\ kind \in bd[w.by]
  <2>1. CASE j = k /\ w = v
    BY <2>1
  <2>2. CASE ~(j = k /\ w = v)
    <3>1. j \in DOMAIN md \cap AppKeys /\ w \in ToSet(md[j])
      BY <1>1, <1>3, <1>4, <1>9, <2>2
    <3>2. w \in KindValues(kind) /\ w.by \in ps /\ kind \in ad[w.by]
      BY <3>1 DEF Holds
    <3> QED
      BY <3>2
  <2> QED
    BY <2>1, <2>2
<1>10. ASSUME NEW i \in DOMAIN m \cap AppKeys, NEW j \in DOMAIN m \cap AppKeys, i # j
       PROVE  ToSet(m[i]) \cap ToSet(m[j]) = {}
  <2>1. \A x \in DOMAIN md \cap AppKeys : \A y \in DOMAIN md \cap AppKeys :
          x # y => ToSet(md[x]) \cap ToSet(md[y]) = {}
    BY DEF Holds
  <2>0. ASSUME NEW x \in DOMAIN m \cap AppKeys, x # k
        PROVE  ToSet(m[k]) \cap ToSet(m[x]) = {}
    <3>1. x \in DOMAIN md \cap AppKeys /\ m[x] = md[x] /\ v \notin ToSet(md[x])
      BY <1>1, <1>5, <2>0
    <3>2. ToSet(Values(md, k)) \cap ToSet(md[x]) = {}
      BY <1>4, <2>0, <2>1, <3>1
    <3> QED
      BY <1>3, <3>1, <3>2
  <2>2. CASE i = k
    BY <1>10, <2>0, <2>2
  <2>3. CASE j = k
    BY <1>10, <2>0, <2>3
  <2>4. CASE i # k /\ j # k
    BY <1>1, <1>10, <2>1, <2>4
  <2> QED
    BY <2>2, <2>3, <2>4
<1>11. Holds(m, V, ps, kind, bd)
  BY <1>6, <1>7, <1>8, <1>9, <1>10 DEF Holds
<1> QED
  BY <1>11 DEF m

(* A snapshot that is out while a value is added: the value is late. *)
LEMMA SnapshotOlder ==
  ASSUME NEW sn, NEW md, NEW V, NEW lt, NEW mt, NEW v \in V, NEW k \in AppKeys,
         Snapshot(sn, md, V, lt), MetadataOver(md, V), lt \subseteq mt, <<v.kind, v.by>> \in mt
  PROVE  Snapshot(sn, With(md, k, Single(v)), V, mt)
<1> DEFINE m == With(md, k, Single(v))
<1>1. /\ DOMAIN m = DOMAIN md \cup {k}
      /\ m[k] = Values(md, k) \o Single(v)
      /\ \A j \in DOMAIN md \ {k} : m[j] = md[j]
  BY DEF With
<1> HIDE DEF m
<1>2. Single(v) \in Seq(V) /\ ToSet(Single(v)) = {v} /\ Values(md, k) \in Seq(V)
  <2>1. Single(v) \in Seq(V) /\ ToSet(Single(v)) = {v}
    BY DEF Single, ToSet
  <2> QED
    BY <2>1, ValuesOver
<1>3. m[k] \in Seq(V) /\ ToSet(m[k]) = ToSet(Values(md, k)) \cup {v}
  BY <1>1, <1>2, ConcatType, ConcatRange
<1>4. DOMAIN sn \subseteq DOMAIN m /\ MetadataOver(sn, V)
  BY <1>1 DEF Snapshot
<1>5. ASSUME NEW j \in DOMAIN m PROVE IsPrefix(Values(sn, j), m[j])
  <2>1. CASE j \in DOMAIN md
    <3>1. IsPrefix(Values(sn, j), md[j]) /\ md[j] \in Seq(V) /\ Values(sn, j) \in Seq(V)
      BY <1>4, <2>1, ValuesOver DEF Snapshot, MetadataOver
    <3>2. CASE j = k
      <4>1. m[j] = md[j] \o Single(v)
        BY <1>1, <2>1, <3>2 DEF Values
      <4> QED
        BY <1>2, <3>1, <4>1, PrefixLonger
    <3> QED
      BY <1>1, <2>1, <3>1, <3>2
  <2>2. CASE j \notin DOMAIN md
    <3>1. j = k /\ Values(sn, j) = <<>>
      BY <1>1, <2>2 DEF Snapshot, Values
    <3> QED
      BY <1>3, <3>1, PrefixOfAny
  <2> QED
    BY <2>1, <2>2
<1>6. \A j \in DOMAIN m \ AppKeys : Values(sn, j) = m[j]
  BY <1>1 DEF Snapshot
<1>7. ASSUME NEW j \in DOMAIN m \cap AppKeys, NEW w \in ToSet(m[j]) \ ToSet(Values(sn, j))
      PROVE  <<w.kind, w.by>> \in mt
  <2>1. CASE j = k /\ w = v
    BY <2>1
  <2>2. CASE ~(j = k /\ w = v)
    <3>1. ToSet(Values(md, k)) = IF k \in DOMAIN md THEN ToSet(md[k]) ELSE {}
      BY EmptyRange DEF Values
    <3>2. j \in DOMAIN md \cap AppKeys /\ w \in ToSet(md[j])
      BY <1>1, <1>3, <1>7, <2>2, <3>1
    <3>3. <<w.kind, w.by>> \in lt
      BY <1>7, <3>2 DEF Snapshot
    <3> QED
      BY <3>3
  <2> QED
    BY <2>1, <2>2
<1>8. Snapshot(sn, m, V, mt)
  BY <1>4, <1>5, <1>6, <1>7 DEF Snapshot
<1> QED
  BY <1>8 DEF m

(***************************************************************************)
(* The request: the headers that are not the application's                 *)
(***************************************************************************)

(* FieldConcat for lists over their own elements. *)
LEMMA FieldJoins ==
  ASSUME NEW a, NEW b, a \in Seq(ToSet(a)), b \in Seq(ToSet(b)), NEW n
  PROVE  /\ a \o b \in Seq(ToSet(a \o b)) /\ ToSet(a \o b) = ToSet(a) \cup ToSet(b)
         /\ HasField(a \o b, n) <=> HasField(a, n) \/ HasField(b, n)
         /\ HasField(b, n) => Field(a \o b, n) = Field(b, n)
         /\ HasField(a, n) /\ ~HasField(b, n) => Field(a \o b, n) = Field(a, n)
<1> DEFINE X == ToSet(a) \cup ToSet(b)
<1>1. a \in Seq(X) /\ b \in Seq(X)
  OBVIOUS
<1> HIDE DEF X
<1>2. a \o b \in Seq(X) /\ ToSet(a \o b) = ToSet(a) \cup ToSet(b)
  BY <1>1, ConcatType, ConcatRange
<1>3. a \o b \in Seq(ToSet(a \o b))
  BY <1>2, SeqOverRange
<1> QED
  BY <1>1, <1>2, <1>3, FieldConcat

(* A list of one. *)
LEMMA SingleIs ==
  ASSUME NEW h
  PROVE  Single(h) \in Seq(ToSet(Single(h))) /\ ToSet(Single(h)) = {h}
BY DEF Single, ToSet

(* FlatMap of a list of one. *)
LEMMA FlatMapSingle ==
  ASSUME NEW X, NEW V, NEW f, Lists(f, X, V), NEW x \in X
  PROVE  FlatMap(Single(x), f) = f[x]
<1> DEFINE e == <<>>
<1>1. e \in Seq(X)
  BY EmptySeq
<1>5. Append(e, x) = Single(x)
  BY DEF Single
<1>2. FlatMap(e, f) = e
  BY FlatMapNil
<1>3. f[x] \in Seq(V) /\ e \o f[x] = f[x]
  <2>1. f[x] \in Seq(V)
    BY DEF Lists
  <2> QED
    BY <2>1
<1> HIDE DEF e
<1>4. FlatMap(Append(e, x), f) = FlatMap(e, f) \o f[x]
  BY <1>1, FlatMapAppend
<1> QED
  BY <1>2, <1>3, <1>4, <1>5

(* The last header with a name in a list of one. *)
LEMMA FieldOne ==
  ASSUME NEW h, NEW n
  PROVE  /\ Single(h) \in Seq(ToSet(Single(h))) /\ ToSet(Single(h)) = {h}
         /\ HasField(Single(h), n) <=> h.name = n
         /\ h.name = n => Field(Single(h), n) = h.value
<1>1. Single(h) \in Seq(ToSet(Single(h))) /\ ToSet(Single(h)) = {h} /\ DOMAIN Single(h) = {1}
      /\ Single(h)[1] = h
  BY DEF Single, ToSet
<1>2. Places(Single(h), n) = IF h.name = n THEN {1} ELSE {}
  BY <1>1 DEF Places
<1>3. Max({1}) = 1
  BY DEF Max
<1> QED
  BY <1>1, <1>2, <1>3 DEF HasField, Field

(* ... and in an empty list. *)
LEMMA FieldNone ==
  ASSUME NEW n
  PROVE  /\ <<>> \in Seq(ToSet(<<>>)) /\ ToSet(<<>>) = {} /\ ~HasField(<<>>, n)
<1> DEFINE e == <<>>
<1>1. e \in Seq({}) /\ ToSet(e) = {}
  BY EmptyRange
<1> HIDE DEF e
<1>2. ~HasField(e, n)
  BY <1>1, NoField
<1> QED
  BY <1>1, <1>2 DEF e

(* A list of one readable header can be read. *)
LEMMA ReadsOne ==
  ASSUME NEW axis, NEW V, NEW h, \A k : ValuesOfKey(axis, k, h) \in Seq(V)
  PROVE  Reads(axis, Single(h), V)
BY SingleIs DEF Reads, Readable

(* Reserved headers, apart from the whitelisted ones, say nothing. *)
LEMMA HiddenIsQuiet ==
  ASSUME NEW axis, NEW V, NEW h, NEW kind, h.name \in Hidden(axis)
  PROVE  Reads(axis, Single(h), V) /\ Quiet(axis, Single(h), kind)
<1>1. \A k : ValuesOfKey(axis, k, h) = <<>>
  BY DEF ValuesOfKey, IsKept
<1>2. Reads(axis, Single(h), V)
  BY <1>1, EmptySeq, ReadsOne
<1>3. \A k : ToSet(ValuesOfKey(axis, k, h)) = {}
  BY <1>1, EmptyRange
<1> QED
  BY <1>2, <1>3, SingleIs, QuietIs

(* A header that is no application's says nothing of the application's keys. *)
LEMMA OtherIsQuiet ==
  ASSUME NEW axis, NEW V, NEW h, NEW kind, \A k : ValuesOfKey(axis, k, h) \in Seq(V),
         \A k \in AppKeys : Lower(k) # h.name
  PROVE  Reads(axis, Single(h), V) /\ Quiet(axis, Single(h), kind)
<1>1. Reads(axis, Single(h), V)
  BY ReadsOne
<1>2. \A k \in AppKeys : ToSet(ValuesOfKey(axis, Lower(k), h)) = {}
  BY EmptyRange DEF ValuesOfKey
<1> QED
  BY <1>1, <1>2, SingleIs, QuietIs

(* What is read of a key that is not left out is what was there. *)
LEMMA OnlyUnread ==
  ASSUME NEW axis, NEW V, NEW hs, Reads(axis, hs, V), NEW T, NEW k,
         \A h \in ToSet(hs) \ T : ValuesOfKey(axis, k, h) = <<>>
  PROVE  Gather(axis, Only(hs, T), k) = Gather(axis, hs, k)
<1> DEFINE X == ToSet(hs)
           f == [h \in X |-> ValuesOfKey(axis, k, h)]
           o == [h \in X |-> IF h \in T THEN <<h>> ELSE <<>>]
           g == [h \in X |-> FlatMap(o[h], f)]
           some == Only(hs, T)
<1>1. hs \in Seq(X) /\ Readable(axis, X, V)
  BY DEF Reads
<1>2. Lists(f, X, V) /\ Lists(o, X, X)
  BY <1>1, EmptySeq DEF Lists, Readable
<1> HIDE DEF X
<1>3. some = FlatMap(hs, o) /\ some \in Seq(X)
  BY <1>1, OnlyIs
<1> HIDE DEF some
<1>4. Gather(axis, some, k) = FlatMap(some, f) /\ Gather(axis, hs, k) = FlatMap(hs, f)
  BY <1>1, <1>3, GatherIs
<1>5. FlatMap(FlatMap(hs, o), f) = FlatMap(hs, g)
  <2> HIDE DEF f, o
  <2> QED
    BY <1>1, <1>2, FlatMapTwice
<1>6. ASSUME NEW h \in X PROVE FlatMap(o[h], f) = f[h]
  <2>1. CASE h \in T
    <3>1. o[h] = Single(h)
      BY <2>1 DEF Single
    <3> HIDE DEF f, o
    <3>2. FlatMap(Single(h), f) = f[h]
      BY <1>2, FlatMapSingle
    <3> QED
      BY <3>1, <3>2
  <2>2. CASE h \notin T
    BY <2>2, FlatMapNil DEF X
  <2> QED
    BY <2>1, <2>2
<1>7. FlatMap(hs, g) = FlatMap(hs, f)
  <2>1. \A i \in DOMAIN hs : g[hs[i]] = f[hs[i]]
    <3>1. \A h \in X : g[h] = f[h]
      BY <1>6
    <3> HIDE DEF f, g
    <3> QED
      BY <1>1, <3>1
  <2> HIDE DEF f, g
  <2> QED
    BY <2>1, FlatMapSame
<1> QED
  BY <1>3, <1>4, <1>5, <1>7 DEF some

(* The timeout and the headers of the axis.                                 *)
ClientValues(r) == OwnValues \cup PresetValues(r)
OwnList(r) == [lists |-> r.client.list]
WireValues(r) ==
  ClientValues(r) \cup ForeignValues(r) \cup {OwnList(r)} \cup {WithMessage(e) : e \in Errors}

(* What another kind of client adds says nothing of the application, and    *)
(* has none of the headers that this client writes.                         *)
LEMMA ForeignQuiet ==
  ASSUME NEW r \in Requests, NEW kind
  PROVE  /\ Reads(r.axis, r.foreign, WireValues(r)) /\ Quiet(r.axis, r.foreign, kind)
         /\ \A n \in {"grpc-timeout", "grpc-encoding", AcceptKey} : ~HasField(r.foreign, n)
<1> DEFINE X == ToSet(r.foreign)
           F == ForeignValues(r)
<1>1. /\ r.foreign \in Seq(X) /\ F \cap OwnValues = {}
      /\ \A h \in X : /\ h.name \notin {"grpc-timeout", "grpc-encoding", AcceptKey}
                      /\ ValuesOfKey(r.axis, h.name, h) \in Seq(F)
  BY RequestAssumption DEF IsRequest
<1>2. \A h \in X : \A k : ValuesOfKey(r.axis, k, h) \in Seq(F) /\ ToSet(ValuesOfKey(r.axis, k, h)) \subseteq F
  <2> SUFFICES ASSUME NEW h \in X, NEW k
               PROVE  ValuesOfKey(r.axis, k, h) \in Seq(F) /\ ToSet(ValuesOfKey(r.axis, k, h)) \subseteq F
    OBVIOUS
  <2> HIDE DEF F
  <2>1. CASE k = h.name
    <3>1. ValuesOfKey(r.axis, k, h) \in Seq(F)
      BY <1>1, <2>1
    <3> QED
      BY <3>1, SeqOverRange
  <2>2. CASE k # h.name
    BY <2>2, EmptySeq, EmptyRange DEF ValuesOfKey
  <2> QED
    BY <2>1, <2>2
<1>3. Reads(r.axis, r.foreign, WireValues(r))
  <2>1. F \subseteq WireValues(r)
    BY DEF WireValues
  <2>2. \A h \in X : \A k : ValuesOfKey(r.axis, k, h) \in Seq(WireValues(r))
    <3> HIDE DEF F, X
    <3> QED
      BY <1>2, <2>1
  <2> QED
    BY <1>1, <2>2 DEF Reads, Readable
<1>4. Quiet(r.axis, r.foreign, kind)
  <2>1. \A h \in X, k \in AppKeys : ToSet(ValuesOfKey(r.axis, Lower(k), h)) \cap KindValues(kind) = {}
    <3> HIDE DEF F, X
    <3> QED
      BY <1>1, <1>2 DEF KindValues
  <2> QED
    BY <1>3, <2>1, QuietIs
<1>5. \A n \in {"grpc-timeout", "grpc-encoding", AcceptKey} : ~HasField(r.foreign, n)
  <2> HIDE DEF X, F
  <2> QED
    BY <1>1, NoField DEF X
<1> QED
  BY <1>3, <1>4, <1>5

Timed(r) == ~(r.timeout = Nil \/ r.timeout <= 0)

(* No value of a caller is malformed. *)
LEMMA NotMalformed == ASSUME NEW r \in Requests PROVE Malformed \notin ClientValues(r)
BY RequestAssumption, ErrorAssumption DEF IsRequest, ClientValues

(* The headers of BuildRequestPreface that are not the application's. *)
GrpcOwn(r) ==
  LET send == ResolveSendCompressor(r.client.list, r.client.send, {}, FALSE)
  IN  (IF r.timeout = Nil \/ r.timeout <= 0 THEN <<>>
       ELSE <<Header("grpc-timeout", EncodeTimeout(r.timeout))>>)
      \o (IF send = "identity" THEN <<>> ELSE <<Header("grpc-encoding", send)>>)
      \o <<Header(AcceptKey, OwnList(r))>>

(* The headers that the grpc axis puts in front say nothing of the          *)
(* application, and say the timeout and the compressors.                    *)
LEMMA GrpcOwnSays ==
  ASSUME NEW r \in Requests, r.axis = "grpc", NEW kind
  PROVE  /\ Reads(r.axis, GrpcOwn(r), WireValues(r)) /\ Quiet(r.axis, GrpcOwn(r), kind)
         /\ HasField(GrpcOwn(r), "grpc-timeout") <=> Timed(r)
         /\ Timed(r) => Field(GrpcOwn(r), "grpc-timeout") = EncodeTimeout(r.timeout)
         /\ HasField(GrpcOwn(r), AcceptKey)
         /\ Field(GrpcOwn(r), AcceptKey) = OwnList(r)
<1> DEFINE send == ResolveSendCompressor(r.client.list, r.client.send, {}, FALSE)
           t == Header("grpc-timeout", EncodeTimeout(r.timeout))
           e == Header("grpc-encoding", send)
           l == Header(AcceptKey, OwnList(r))
           A == IF Timed(r) THEN Single(t) ELSE <<>>
           B == IF send = "identity" THEN <<>> ELSE Single(e)
           C == Single(l)
           V == WireValues(r)
<1>1. GrpcOwn(r) = (A \o B) \o C
  BY DEF GrpcOwn, Single, Timed
<1>2. /\ t.name = "grpc-timeout" /\ t.value = EncodeTimeout(r.timeout)
      /\ e.name = "grpc-encoding"
      /\ l.name = AcceptKey /\ l.value = OwnList(r)
  BY DEF Header
<1> HIDE DEF send, t, e, l, V
<1>3. t.name \in Hidden(r.axis) /\ e.name \in Hidden(r.axis)
  BY <1>2 DEF Hidden, Reserved, GrpcReserved, Whitelisted
<1>4. Reads(r.axis, A, V) /\ Quiet(r.axis, A, kind)
  BY <1>3, HiddenIsQuiet, ReadsNothing
<1>5. Reads(r.axis, B, V) /\ Quiet(r.axis, B, kind)
  BY <1>3, HiddenIsQuiet, ReadsNothing
<1>6. Reads(r.axis, C, V) /\ Quiet(r.axis, C, kind)
  <2>1. OwnList(r) \in V /\ OwnList(r) \notin OwnValues
    <3>1. DOMAIN OwnList(r) = {"lists"}
      BY DEF OwnList
    <3>2. ASSUME NEW v \in OwnValues PROVE "by" \in DOMAIN v
      BY DEF OwnValues, Value
    <3> QED
      BY <3>1, <3>2 DEF V, WireValues
  <2>2. ASSUME NEW k
        PROVE  ValuesOfKey(r.axis, k, l) = <<>> \/ ValuesOfKey(r.axis, k, l) = Single(OwnList(r))
    BY <1>2 DEF ValuesOfKey, DecodeValues, IsBin, Single, AcceptKey
  <2>3. Single(OwnList(r)) \in Seq(V) /\ <<>> \in Seq(V) /\ ToSet(Single(OwnList(r))) = {OwnList(r)}
    BY <2>1, EmptySeq, SingleIs DEF Single
  <2>4. Reads(r.axis, C, V)
    BY <2>2, <2>3, ReadsOne
  <2>5. \A k : ToSet(ValuesOfKey(r.axis, k, l)) \cap KindValues(kind) = {}
    BY <2>1, <2>2, <2>3, EmptyRange DEF KindValues
  <2>6. ToSet(C) = {l}
    BY SingleIs
  <2> QED
    BY <2>4, <2>5, <2>6, QuietIs
<1>7. \A n : /\ HasField(A, n) <=> Timed(r) /\ n = t.name
             /\ HasField(B, n) => n = e.name
             /\ HasField(C, n) <=> n = l.name
  BY FieldOne, FieldNone
<1>8. (Timed(r) => Field(A, t.name) = t.value) /\ Field(C, l.name) = l.value
  BY FieldOne
<1> HIDE DEF A, B, C
<1>9. /\ A \in Seq(ToSet(A)) /\ B \in Seq(ToSet(B)) /\ C \in Seq(ToSet(C))
  BY <1>4, <1>5, <1>6 DEF Reads
<1>10. Reads(r.axis, A \o B, V) /\ Quiet(r.axis, A \o B, kind)
  BY <1>4, <1>5, ReadsConcat, QuietConcat
<1>11. Reads(r.axis, (A \o B) \o C, V) /\ Quiet(r.axis, (A \o B) \o C, kind)
  BY <1>6, <1>10, ReadsConcat, QuietConcat
<1>12. /\ HasField(A \o B, "grpc-timeout") <=> Timed(r)
       /\ Timed(r) => Field(A \o B, "grpc-timeout") = EncodeTimeout(r.timeout)
       /\ A \o B \in Seq(ToSet(A \o B))
  <2>1. ~HasField(B, "grpc-timeout") /\ (HasField(A, "grpc-timeout") <=> Timed(r))
    BY <1>2, <1>7
  <2> QED
    BY <1>2, <1>8, <1>9, <2>1, FieldJoins
<1> DEFINE D == A \o B
<1> HIDE DEF D
<1>13. /\ HasField(D \o C, "grpc-timeout") <=> HasField(D, "grpc-timeout")
       /\ HasField(D, "grpc-timeout") => Field(D \o C, "grpc-timeout") = Field(D, "grpc-timeout")
  <2>1. ~HasField(C, "grpc-timeout")
    BY <1>2, <1>7 DEF AcceptKey
  <2> QED
    BY <1>9, <1>12, <2>1, FieldJoins DEF D
<1>14. /\ HasField(D \o C, AcceptKey)
       /\ Field(D \o C, AcceptKey) = OwnList(r)
  <2>1. HasField(C, AcceptKey) /\ Field(C, AcceptKey) = OwnList(r)
    BY <1>2, <1>7, <1>8
  <2> QED
    BY <1>9, <1>12, <2>1, FieldJoins DEF D
<1> QED
  BY <1>1, <1>11, <1>12, <1>13, <1>14 DEF D, V

(* Headers that are metadata. *)
Written(axis, hs, md, V) ==
  \A h \in ToSet(hs) : \E k \in DOMAIN md : \E v \in V :
    v \in ToSet(md[k]) /\ Lower(k) \notin Reserved(axis) /\ h = Wire(axis, k, v)

LEMMA EncodedIsWritten ==
  ASSUME NEW axis, NEW md, NEW V, MetadataOver(md, V), NEW order \in Seq(DOMAIN md)
  PROVE  Written(axis, EncodeMetadata(axis, md, order), md, V)
<1> DEFINE f == [k \in DOMAIN md |-> HeadersOfKey(axis, md, k)]
           hs == EncodeMetadata(axis, md, order)
           Written1(k, h) == \E v \in V : v \in ToSet(md[k]) /\ Lower(k) \notin Reserved(axis) /\ h = Wire(axis, k, v)
           W == {h \in Wires(axis, DOMAIN md, V) : \E k \in DOMAIN md : Written1(k, h)}
<1>1. ASSUME NEW k \in DOMAIN md PROVE f[k] \in Seq(W)
  <2>1. CASE Lower(k) \in Reserved(axis)
    <3>1. f[k] = <<>>
      BY <2>1 DEF HeadersOfKey
    <3> HIDE DEF f, W
    <3> QED
      BY <3>1
  <2>2. CASE Lower(k) \notin Reserved(axis)
    <3>1. f[k] = [i \in DOMAIN md[k] |-> Wire(axis, k, md[k][i])]
      BY <2>2 DEF HeadersOfKey, Wire
    <3>2. md[k] \in Seq(V) /\ DOMAIN md[k] = 1..Len(md[k]) /\ Len(md[k]) \in Nat
      BY DEF MetadataOver
    <3>3. ASSUME NEW i \in DOMAIN md[k] PROVE Wire(axis, k, md[k][i]) \in W
      <4>1. md[k][i] \in V /\ md[k][i] \in ToSet(md[k])
        BY <3>2 DEF ToSet
      <4>2. Wire(axis, k, md[k][i]) \in Wires(axis, DOMAIN md, V)
        BY <2>2, <4>1 DEF Wires
      <4> QED
        BY <2>2, <4>1, <4>2
    <3> HIDE DEF f, W
    <3>4. f[k] \in [1..Len(md[k]) -> W]
      BY <3>1, <3>2, <3>3
    <3> QED
      BY <3>2, <3>4
  <2> QED
    BY <2>1, <2>2
<1> HIDE DEF f, W
<1>2. Lists(f, DOMAIN md, W)
  BY <1>1 DEF Lists
<1>3. hs \in Seq(W)
  BY <1>2, FlatMapType DEF f, EncodeMetadata
<1> HIDE DEF hs
<1>4. ToSet(hs) \subseteq W
  BY <1>3, SeqOverRange
<1> QED
  BY <1>4 DEF W, hs, Written

(* What an axis wrote of the application's metadata. *)
LEMMA EncodedSays ==
  ASSUME NEW axis, NEW md, NEW V, NEW W, NEW order, NEW kind, MetadataOver(md, V), Malformed \notin V,
         V \subseteq W, IsFiniteSet(DOMAIN md), order \in Orders(md)
  PROVE  /\ Reads(axis, EncodeMetadata(axis, md, order), W)
         /\ Carries(axis, DecodeMetadata(axis, EncodeMetadata(axis, md, order)), md, kind)
         /\ Written(axis, EncodeMetadata(axis, md, order), md, V)
<1> DEFINE hs == EncodeMetadata(axis, md, order)
<1>1. Permutes(order, DOMAIN md)
  BY OrdersPermute DEF Orders
<1>2. Reads(axis, hs, V) /\ Carries(axis, DecodeMetadata(axis, hs), md, kind)
  BY <1>1, EncodedCarries
<1>6. Written(axis, hs, md, V)
  BY <1>1, EncodedIsWritten DEF Permutes
<1> HIDE DEF hs
<1>5. Reads(axis, hs, W)
  <2>1. \A h, k : ValuesOfKey(axis, k, h) \in Seq(V) => ValuesOfKey(axis, k, h) \in Seq(W)
    OBVIOUS
  <2> QED
    BY <1>2, <2>1 DEF Reads, Readable
<1> QED
  BY <1>2, <1>5, <1>6 DEF hs

(* The application's metadata behind the axis's own headers and before what *)
(* another client adds.                                                     *)
CarriesRequest(r, q, md) ==
  /\ Reads(r.axis, q.headers, WireValues(r))
  /\ Carries(r.axis, DecodeMetadata(r.axis, q.headers), md, "h")

(* The headers that the server's axis reads; in the place of its list of    *)
(* compressors it may find what md has under that key.                      *)
SaidIn(md) == UNION {ToSet(md[k]) : k \in {j \in DOMAIN md : Lower(j) = AcceptKey}}
SaysFields(r, q, md) ==
  /\ HasField(q.headers, "grpc-timeout") <=> Timed(r)
  /\ Timed(r) => Field(q.headers, "grpc-timeout") = EncodeTimeout(r.timeout)
  /\ HasField(q.headers, AcceptKey)
  /\ Field(q.headers, AcceptKey) \in {OwnList(r)} \cup SaidIn(md)

(* The headers of grpc's BuildRequestPreface carry the metadata and say the *)
(* timeout and the compressors.                                             *)
LEMMA GrpcRequest ==
  ASSUME rq \in Requests, IsGrpc, NEW md, MetadataOver(md, ClientValues(rq)), IsFiniteSet(DOMAIN md),
         NEW order \in Orders(md), NEW q, q.headers = GrpcPreface(md, order).headers \o rq.foreign
  PROVE  CarriesRequest(rq, q, md) /\ SaysFields(rq, q, md)
<1> DEFINE own == GrpcOwn(rq)
           enc == EncodeMetadata("grpc", md, order)
           V == WireValues(rq)
<1>0. rq.axis = "grpc"
  BY DEF IsGrpc
<1>1. q.headers = (own \o enc) \o rq.foreign
  BY DEF GrpcPreface, Preface, GrpcOwn, OwnList
<1>2. /\ Reads("grpc", own, V) /\ Quiet("grpc", own, "h")
      /\ HasField(own, "grpc-timeout") <=> Timed(rq)
      /\ Timed(rq) => Field(own, "grpc-timeout") = EncodeTimeout(rq.timeout)
      /\ HasField(own, AcceptKey)
      /\ Field(own, AcceptKey) = OwnList(rq)
  BY <1>0, GrpcOwnSays
<1>3. /\ Reads("grpc", rq.foreign, V) /\ Quiet("grpc", rq.foreign, "h")
      /\ \A n \in {"grpc-timeout", "grpc-encoding", AcceptKey} : ~HasField(rq.foreign, n)
  BY <1>0, ForeignQuiet
<1>4. /\ Reads("grpc", enc, V) /\ Carries("grpc", DecodeMetadata("grpc", enc), md, "h")
      /\ Written("grpc", enc, md, ClientValues(rq))
  <2>1. ClientValues(rq) \subseteq V
    BY DEF WireValues
  <2>2. Malformed \notin ClientValues(rq)
    BY NotMalformed
  <2> HIDE DEF V
  <2> QED
    BY <2>1, <2>2, EncodedSays
<1> HIDE DEF own, enc, V
<1>5. enc \in Seq(ToSet(enc)) /\ own \in Seq(ToSet(own)) /\ rq.foreign \in Seq(ToSet(rq.foreign))
  BY <1>2, <1>3, <1>4 DEF Reads
<1>6. ~HasField(enc, "grpc-timeout")
      /\ (HasField(enc, AcceptKey) => Field(enc, AcceptKey) \in SaidIn(md))
  <2>1. \A h \in ToSet(enc) : h.name # "grpc-timeout"
    BY <1>4 DEF Written, Wire, Header, Reserved, GrpcReserved
  <2>2. ASSUME NEW h \in ToSet(enc), h.name = AcceptKey PROVE h.value \in SaidIn(md)
    <3>1. PICK k \in DOMAIN md : \E v \in ClientValues(rq) : v \in ToSet(md[k]) /\ h = Wire("grpc", k, v)
      BY <1>4 DEF Written
    <3>2. PICK v : v \in ToSet(md[k]) /\ h = Wire("grpc", k, v)
      BY <3>1
    <3>3. h.name = Lower(k) /\ h.value = EncodeValue("grpc", Lower(k), v)
      BY <3>2 DEF Wire, Header
    <3>4. h.value = v /\ Lower(k) = AcceptKey
      BY <2>2, <3>3 DEF EncodeValue, IsBin, AcceptKey
    <3> QED
      BY <3>2, <3>4 DEF SaidIn
  <2>3. ~HasField(enc, "grpc-timeout")
    BY <1>5, <2>1, NoField
  <2>4. ASSUME HasField(enc, AcceptKey) PROVE Field(enc, AcceptKey) \in SaidIn(md)
    <3>1. PICK h \in ToSet(enc) : h.name = AcceptKey /\ Field(enc, AcceptKey) = h.value
      BY <1>5, <2>4, FieldIs
    <3> QED
      BY <2>2, <3>1
  <2> QED
    BY <2>3, <2>4
<1> DEFINE front == own \o enc
<1>7. Reads("grpc", front, V) /\ Carries("grpc", DecodeMetadata("grpc", front), md, "h")
  BY <1>2, <1>4, ReadsConcat, CarriesAfter
<1>8. /\ HasField(front, "grpc-timeout") <=> Timed(rq)
      /\ Timed(rq) => Field(front, "grpc-timeout") = EncodeTimeout(rq.timeout)
      /\ HasField(front, AcceptKey)
      /\ Field(front, AcceptKey) \in {OwnList(rq)} \cup SaidIn(md)
      /\ front \in Seq(ToSet(front))
  BY <1>2, <1>5, <1>6, FieldJoins
<1> HIDE DEF front
<1> DEFINE all == front \o rq.foreign
<1>9. Reads("grpc", all, V) /\ Carries("grpc", DecodeMetadata("grpc", all), md, "h")
  BY <1>3, <1>7, ReadsConcat, CarriesBefore
<1>10. /\ HasField(all, "grpc-timeout") <=> Timed(rq)
       /\ Timed(rq) => Field(all, "grpc-timeout") = EncodeTimeout(rq.timeout)
       /\ HasField(all, AcceptKey)
       /\ Field(all, AcceptKey) \in {OwnList(rq)} \cup SaidIn(md)
  BY <1>3, <1>5, <1>8, FieldJoins
<1>11. q.headers = all
  BY <1>1 DEF front
<1> HIDE DEF all
<1> QED
  BY <1>0, <1>9, <1>10, <1>11 DEF V, CarriesRequest, SaysFields

(* The headers of httpunary's requests carry the metadata. *)
LEMMA UnaryRequest ==
  ASSUME rq \in Requests, NEW md, MetadataOver(md, ClientValues(rq)), IsFiniteSet(DOMAIN md),
         NEW order \in Orders(md), NEW q, q.headers = UnaryHeaders(md, order) \o rq.foreign
  PROVE  CarriesRequest(rq, q, md)
<1> DEFINE enc == EncodeMetadata(rq.axis, md, order)
           V == WireValues(rq)
<1>1. q.headers = enc \o rq.foreign
  BY DEF UnaryHeaders
<1>2. Reads(rq.axis, rq.foreign, V) /\ Quiet(rq.axis, rq.foreign, "h")
  BY ForeignQuiet
<1>3. Reads(rq.axis, enc, V) /\ Carries(rq.axis, DecodeMetadata(rq.axis, enc), md, "h")
  <2>1. ClientValues(rq) \subseteq V
    BY DEF WireValues
  <2>2. Malformed \notin ClientValues(rq)
    BY NotMalformed
  <2> HIDE DEF V
  <2> QED
    BY <2>1, <2>2, EncodedSays
<1> HIDE DEF enc, V
<1> DEFINE all == enc \o rq.foreign
<1>4. Reads(rq.axis, all, V) /\ Carries(rq.axis, DecodeMetadata(rq.axis, all), md, "h")
  BY <1>2, <1>3, ReadsConcat, CarriesBefore
<1> QED
  BY <1>1, <1>4 DEF V, CarriesRequest

(***************************************************************************)
(* The response                                                            *)
(***************************************************************************)

(* The values that a response may carry. *)
ResponseValues == OwnValues \cup {WithMessage(e) : e \in Errors}

(* No status is a value that a goroutine added. *)
LEMMA ErrorIsNoValue ==
  ASSUME NEW e \in Errors, e # Nil
  PROVE  WithMessage(e) \notin OwnValues
<1>1. WithMessage(e) = [code |-> e.code, msg |-> StatusMessage(e), details |-> e.details]
  BY ErrorIs
<1>2. DOMAIN WithMessage(e) = {"code", "msg", "details"}
  BY <1>1
<1>3. ASSUME NEW v \in OwnValues PROVE "by" \in DOMAIN v
  BY DEF OwnValues, Value
<1> QED
  BY <1>2, <1>3

(* Headers and trailers have values of their own. *)
LEMMA KindsApart == KindValues("h") \cap KindValues("t") = {}
BY DEF KindValues

(* Metadata with values of one kind says nothing of the other kind. *)
LEMMA WrittenIsQuiet ==
  ASSUME NEW axis, NEW md, NEW V, NEW W, NEW hs, NEW kind, Written(axis, hs, md, V), Malformed \notin V,
         Reads(axis, hs, W), V \cap KindValues(kind) = {}
  PROVE  Quiet(axis, hs, kind)
<1>1. ASSUME NEW h \in ToSet(hs), NEW k
      PROVE  ToSet(ValuesOfKey(axis, k, h)) \cap KindValues(kind) = {}
  <2>1. PICK j \in DOMAIN md, v \in V : Lower(j) \notin Reserved(axis) /\ h = Wire(axis, j, v)
    BY DEF Written
  <2>2. ValuesOfKey(axis, k, h) = IF Lower(j) = k THEN Single(v) ELSE <<>>
    BY <2>1, WireReads DEF Single
  <2>3. ToSet(Single(v)) = {v}
    BY SingleIs
  <2> QED
    BY <2>2, <2>3, EmptyRange
<1> QED
  BY <1>1, QuietIs

(* The headers of an error's status are no metadata of the application. *)
LEMMA StatusSays ==
  ASSUME NEW e \in Errors, NEW kind
  PROVE  /\ Reads("grpc", StatusHeaders(e), ResponseValues)
         /\ Quiet("grpc", StatusHeaders(e), kind)
<1> DEFINE S == StatusHeaders(e)
           V == ResponseValues
<1>1. /\ S \in Seq(ToSet(S))
      /\ Len(S) = IF e = Nil THEN 1 ELSE IF HasDetails(e) THEN 3 ELSE 2
      /\ S[1].name = "grpc-status"
      /\ e # Nil => S[2].name = "grpc-message"
      /\ HasDetails(e) => S[3].name = DetailsKey /\ S[3].value = Single(WithMessage(e))
  BY StatusHeadersAre
<1>2. HasDetails(e) => e # Nil
  BY DEF HasDetails, CodeOf
<1> HIDE DEF S
<1>3. ASSUME NEW h \in ToSet(S)
      PROVE  \/ h.name \in {"grpc-status", "grpc-message"}
             \/ e # Nil /\ h.name = DetailsKey /\ h.value = Single(WithMessage(e))
  <2>1. PICK i \in 1..Len(S) : h = S[i]
    BY <1>1 DEF ToSet
  <2>2. i = 1 \/ (i = 2 /\ e # Nil) \/ (i = 3 /\ HasDetails(e))
    BY <1>1, <1>2, <2>1
  <2> QED
    BY <1>1, <1>2, <2>1, <2>2
<1>4. ASSUME NEW h \in ToSet(S), NEW k
      PROVE  ValuesOfKey("grpc", k, h) = <<>> \/ (e # Nil /\ ValuesOfKey("grpc", k, h) = Single(WithMessage(e)))
  <2>1. CASE h.name \in {"grpc-status", "grpc-message"}
    <3>1. h.name \in Hidden("grpc")
      BY <2>1 DEF Hidden, Reserved, GrpcReserved, Whitelisted
    <3> QED
      BY <3>1 DEF ValuesOfKey, IsKept
  <2>2. CASE e # Nil /\ h.name = DetailsKey /\ h.value = Single(WithMessage(e))
    <3>1. CASE h.name = k
      <4>1. DecodeValues("grpc", k, h.value) = Single(WithMessage(e))
        BY <2>2, <3>1 DEF DecodeValues, IsBin, DetailsKey
      <4> QED
        BY <2>2, <4>1 DEF ValuesOfKey
    <3>2. CASE h.name # k
      BY <3>2 DEF ValuesOfKey
    <3> QED
      BY <3>1, <3>2
  <2> QED
    BY <1>3, <2>1, <2>2
<1>5. e # Nil => Single(WithMessage(e)) \in Seq(V) /\ ToSet(Single(WithMessage(e))) \cap OwnValues = {}
  <2> DEFINE w == WithMessage(e)
  <2>1. ASSUME e # Nil PROVE w \in V /\ w \notin OwnValues
    BY <2>1, ErrorIsNoValue DEF V, ResponseValues
  <2>2. ToSet(Single(w)) = {w}
    BY SingleIs
  <2> HIDE DEF w, V
  <2>3. w \in V => Single(w) \in Seq(V)
    BY DEF Single
  <2> QED
    BY <2>1, <2>2, <2>3 DEF w
<1>6. Reads("grpc", S, V)
  BY <1>1, <1>4, <1>5, EmptySeq DEF Reads, Readable
<1>7. ASSUME NEW h \in ToSet(S), NEW k \in AppKeys
      PROVE  ToSet(ValuesOfKey("grpc", Lower(k), h)) \cap KindValues(kind) = {}
  BY <1>4, <1>5, EmptyRange DEF KindValues
<1>8. Quiet("grpc", S, kind)
  BY <1>6, <1>7, QuietIs
<1> QED
  BY <1>6, <1>8 DEF S, V

(* What is written of metadata whose values are the goroutines' own. *)
LEMMA WrittenStatus ==
  ASSUME NEW hs, NEW md, NEW V, Written("grpc", hs, md, V)
  PROVE  /\ NoStatusIn(hs)
         /\ GivenIn(hs, ToSet(Values(md, DetailsKey)))
<1>1. ASSUME NEW h \in ToSet(hs)
      PROVE  /\ h.name \notin {"grpc-status", "grpc-message"}
             /\ h.name = DetailsKey => \E v \in ToSet(Values(md, DetailsKey)) : h.value = Single(v)
  <2>1. PICK k \in DOMAIN md, v \in V : v \in ToSet(md[k]) /\ Lower(k) \notin Reserved("grpc") /\ h = Wire("grpc", k, v)
    BY DEF Written
  <2>2. h.name = Lower(k) /\ h.value = EncodeValue("grpc", Lower(k), v)
    BY <2>1 DEF Wire, Header
  <2>3. h.name = DetailsKey => h.value = Single(v) /\ k = DetailsKey
    BY <2>2 DEF EncodeValue, IsBin, DetailsKey, Single, Lower
  <2>4. h.name = DetailsKey => v \in ToSet(Values(md, DetailsKey))
    BY <2>1, <2>3 DEF Values
  <2> QED
    BY <2>1, <2>2, <2>3, <2>4 DEF Reserved, GrpcReserved
<1> QED
  BY <1>1 DEF NoStatusIn, GivenIn

(* Headers without a status, of the metadata md or of none. *)
Bare(hs, md) ==
  NoStatusIn(hs) /\ GivenIn(hs, ToSet(Values(md, DetailsKey)))

(* What SendHeaders writes. *)
LEMMA ResponseSays ==
  ASSUME NEW md, MetadataOver(md, KindValues("h")), IsFiniteSet(DOMAIN md), NEW order \in Orders(md),
         NEW hs, hs = ResponseHeaders(md, order)
  PROVE  /\ Reads("grpc", hs, ResponseValues) /\ Quiet("grpc", hs, "t")
         /\ Carries("grpc", DecodeMetadata("grpc", hs), md, "h")
         /\ Bare(hs, md)
<1> DEFINE enc == EncodeMetadata("grpc", md, order)
           g == Header("grpc-encoding", acc.send)
           own == IF acc.send = "identity" THEN <<>> ELSE Single(g)
           V == KindValues("h")
           W == ResponseValues
<1>1. hs = own \o enc
  BY DEF ResponseHeaders, Single
<1>2. V \subseteq OwnValues /\ V \subseteq W /\ Malformed \notin V /\ V \cap KindValues("t") = {}
  BY ErrorAssumption, KindsApart DEF V, W, KindValues, ResponseValues
<1>3. g.name = "grpc-encoding" /\ g.name \in Hidden("grpc")
  BY DEF Header, Hidden, Reserved, GrpcReserved, Whitelisted
<1> HIDE DEF V, W, g
<1>4. MetadataOver(md, V)
  BY DEF V
<1>5. /\ Reads("grpc", enc, W) /\ Carries("grpc", DecodeMetadata("grpc", enc), md, "h")
      /\ Written("grpc", enc, md, V)
  BY <1>2, <1>4, EncodedSays
<1> HIDE DEF enc
<1>6. Quiet("grpc", enc, "t")
  BY <1>2, <1>5, WrittenIsQuiet
<1>7. /\ Reads("grpc", own, W) /\ Quiet("grpc", own, "h") /\ Quiet("grpc", own, "t")
  BY <1>3, HiddenIsQuiet, ReadsNothing
<1>8. \A h \in ToSet(own) : h.name = "grpc-encoding"
  BY <1>3, SingleIs, EmptyRange
<1> HIDE DEF own
<1> DEFINE all == own \o enc
<1>9. /\ Reads("grpc", all, W) /\ Quiet("grpc", all, "t")
      /\ Carries("grpc", DecodeMetadata("grpc", all), md, "h")
  BY <1>5, <1>6, <1>7, ReadsConcat, QuietConcat, CarriesAfter
<1>10. ToSet(all) = ToSet(own) \cup ToSet(enc)
  BY <1>5, <1>7, FieldJoins DEF Reads
<1>11. NoStatusIn(enc) /\ GivenIn(enc, ToSet(Values(md, DetailsKey)))
  BY <1>5, WrittenStatus
<1>12. Bare(all, md)
  BY <1>8, <1>10, <1>11 DEF Bare, NoStatusIn, GivenIn, DetailsKey
<1>13. hs = all
  BY <1>1
<1> HIDE DEF all
<1> QED
  BY <1>9, <1>12, <1>13 DEF W

(* Metadata md and after it the status of e. *)
Ends(ts, md, e) ==
  \E enc : enc \in Seq(ToSet(enc)) /\ Bare(enc, md) /\ ts = enc \o StatusHeaders(e)

(* What Finish writes after them. *)
LEMMA TrailersSay ==
  ASSUME NEW md, MetadataOver(md, KindValues("t")), IsFiniteSet(DOMAIN md), NEW order \in Orders(md),
         NEW e \in Errors, NEW ts, ts = EncodeStatusTrailers(e, md, order)
  PROVE  /\ Reads("grpc", ts, ResponseValues) /\ Quiet("grpc", ts, "h")
         /\ Carries("grpc", DecodeMetadata("grpc", ts), md, "t")
         /\ Ends(ts, md, e)
<1> DEFINE enc == EncodeMetadata("grpc", md, order)
           V == KindValues("t")
           W == ResponseValues
           S == StatusHeaders(e)
<1>1. ts = enc \o S
  BY DEF EncodeStatusTrailers
<1>2. V \subseteq OwnValues /\ V \subseteq W /\ Malformed \notin V /\ V \cap KindValues("h") = {}
  BY ErrorAssumption, KindsApart DEF V, W, KindValues, ResponseValues
<1>3. Reads("grpc", S, W) /\ Quiet("grpc", S, "h") /\ Quiet("grpc", S, "t")
  BY StatusSays
<1> HIDE DEF V, W, S
<1>4. MetadataOver(md, V)
  BY DEF V
<1>5. /\ Reads("grpc", enc, W) /\ Carries("grpc", DecodeMetadata("grpc", enc), md, "t")
      /\ Written("grpc", enc, md, V)
  BY <1>2, <1>4, EncodedSays
<1> HIDE DEF enc
<1>6. Quiet("grpc", enc, "h")
  BY <1>2, <1>5, WrittenIsQuiet
<1> DEFINE all == enc \o S
<1>9. /\ Reads("grpc", all, W) /\ Quiet("grpc", all, "h")
      /\ Carries("grpc", DecodeMetadata("grpc", all), md, "t")
  BY <1>3, <1>5, <1>6, ReadsConcat, QuietConcat, CarriesBefore
<1>11. Bare(enc, md) /\ enc \in Seq(ToSet(enc))
  BY <1>5, WrittenStatus DEF Bare, Reads
<1>13. ts = all
  BY <1>1
<1>14. Ends(ts, md, e)
  BY <1>1, <1>11 DEF S, Ends
<1> HIDE DEF all
<1> QED
  BY <1>9, <1>13, <1>14 DEF W

(* The trailers that the client's handle has: those, and what only the      *)
(* headers say.                                                             *)
LEMMA MergedCarries ==
  ASSUME NEW V, NEW hs, NEW ts, NEW sn, NEW kind, Reads("grpc", hs, V), Quiet("grpc", hs, kind),
         Carries("grpc", DecodeMetadata("grpc", ts), sn, kind)
  PROVE  Carries("grpc", Merged(DecodeMetadata("grpc", ts), DecodeMetadata("grpc", hs)), sn, kind)
<1> DEFINE dt == DecodeMetadata("grpc", ts)
           dh == DecodeMetadata("grpc", hs)
           m == Merged(dt, dh)
           e == <<>>
<1> SUFFICES ASSUME NEW k \in AppKeys, Lower(k) \notin Reserved("grpc"),
                    NEW T \in SUBSET KindValues(kind),
                    k \in DOMAIN sn => ToSet(sn[k]) \subseteq T,
                    \A j \in DOMAIN sn : j # k /\ Lower(j) = Lower(k) => ToSet(sn[j]) \cap T = {}
             PROVE  Only(Values(m, Lower(k)), T) = Values(sn, k)
  BY DEF Carries
<1>1. Only(Values(dt, Lower(k)), T) = Values(sn, k)
  BY DEF Carries
<1>2. Values(dh, Lower(k)) \in Seq(V) /\ ToSet(Values(dh, Lower(k))) \cap T = {}
  <2>1. Gather("grpc", hs, Lower(k)) \in Seq(V)
    BY GatherIs DEF Reads
  <2>2. ToSet(Gather("grpc", hs, Lower(k))) \cap KindValues(kind) = {}
    BY DEF Quiet
  <2> QED
    BY <2>1, <2>2 DEF Gather
<1>3. Only(Values(dh, Lower(k)), T) = e
  BY <1>2, OnlyNone
<1>4. Only(e, T) = e
  BY EmptySeq, EmptyRange, OnlyNone
<1>5. Values(m, Lower(k)) = IF Lower(k) \in DOMAIN dt THEN Values(dt, Lower(k)) ELSE Values(dh, Lower(k))
  BY DEF Merged, Values
<1>6. Lower(k) \notin DOMAIN dt => Values(dt, Lower(k)) = e
  BY DEF Values
<1> HIDE DEF dt, dh, m, e
<1> QED
  BY <1>1, <1>3, <1>4, <1>5, <1>6

(* Trailers that are missing leave the headers. *)
LEMMA MergedNone ==
  ASSUME NEW hs, NEW sn, NEW kind, Carries("grpc", DecodeMetadata("grpc", hs), sn, kind)
  PROVE  Carries("grpc", Merged(DecodeMetadata("grpc", <<>>), DecodeMetadata("grpc", hs)), sn, kind)
<1> DEFINE dt == DecodeMetadata("grpc", <<>>)
           dh == DecodeMetadata("grpc", hs)
           m == Merged(dt, dh)
<1>1. DOMAIN dt = {}
  BY EmptyRange DEF DecodeMetadata
<1>2. \A k : Values(m, k) = Values(dh, k)
  BY <1>1 DEF Merged, Values
<1> HIDE DEF m
<1> QED
  BY <1>2 DEF Carries, m

(* The status that the client resolves. *)
GivenOf(md) == ToSet(Values(md, DetailsKey))
StatusIs(hs, ts, hm, tm, e) == Loosely(ResolveCallStatus(hs, ts), e, GivenOf(hm) \cup GivenOf(tm))

(* The status is found in the trailers behind the application's, *)
LEMMA StatusAfterHeaders ==
  ASSUME NEW e \in Errors, NEW hs, NEW hm, NEW tm, NEW tn, GivenOf(tn) \subseteq GivenOf(tm),
         NEW enc, enc \in Seq(ToSet(enc)), Bare(enc, tn), NEW ts, ts = enc \o StatusHeaders(e)
  PROVE  StatusIs(hs, ts, hm, tm, e)
<1>1. HasStatus(ts) /\ Loosely(StatusFrom(ts), e, GivenOf(tn))
  BY StatusExact DEF Bare, GivenOf
<1>2. ResolveCallStatus(hs, ts) = StatusFrom(ts)
  BY <1>1 DEF ResolveCallStatus
<1>3. Loosely(StatusFrom(ts), e, GivenOf(hm) \cup GivenOf(tm))
  BY <1>1, LooselyMore
<1> QED
  BY <1>2, <1>3 DEF StatusIs

(* ... and in the headers, when the response is trailers only. *)
LEMMA StatusInHeaders ==
  ASSUME NEW e \in Errors, NEW hm, NEW hn, GivenOf(hn) \subseteq GivenOf(hm),
         NEW tm, NEW tn, GivenOf(tn) \subseteq GivenOf(tm),
         NEW own, own \in Seq(ToSet(own)), Bare(own, hn),
         NEW enc, enc \in Seq(ToSet(enc)), Bare(enc, tn),
         NEW hs, hs = own \o (enc \o StatusHeaders(e))
  PROVE  StatusIs(hs, <<>>, hm, tm, e)
<1> DEFINE a == own \o enc
           S == StatusHeaders(e)
           G == GivenOf(hm) \cup GivenOf(tm)
<1>1. a \in Seq(ToSet(a)) /\ ToSet(a) = ToSet(own) \cup ToSet(enc)
  BY FieldJoins
<1>2. NoStatusIn(a) /\ GivenIn(a, G)
  BY <1>1 DEF Bare, NoStatusIn, GivenIn, GivenOf
<1> HIDE DEF G
<1>3. hs = a \o S
  <2> DEFINE X == ToSet(own) \cup ToSet(enc) \cup ToSet(S)
  <2>1. S \in Seq(ToSet(S))
    BY StatusHeadersAre
  <2> HIDE DEF S, a
  <2>2. own \in Seq(X) /\ enc \in Seq(X) /\ S \in Seq(X)
    BY <2>1
  <2> HIDE DEF X
  <2>3. (own \o enc) \o S = own \o (enc \o S)
    BY <2>2, ConcatAssociative
  <2> QED
    BY <2>3 DEF a, S
<1> HIDE DEF a
<1>4. HasStatus(hs) /\ Loosely(StatusFrom(hs), e, G)
  BY <1>1, <1>2, <1>3, StatusExact
<1>5. ~HasStatus(<<>>)
  BY FieldNone DEF HasStatus
<1>6. ResolveCallStatus(hs, <<>>) = StatusFrom(hs)
  BY <1>4, <1>5 DEF ResolveCallStatus
<1> QED
  BY <1>4, <1>6 DEF StatusIs, G

(***************************************************************************)
(* The invariant of the state: shape                                       *)
(***************************************************************************)

(* The records are what they are declared to be, and a goroutine has one    *)
(* place, one snapshot and one list of what it added.                       *)
CmdShape == cmd = [headers |-> cmd.headers, trailers |-> cmd.trailers,
                   headersFrozen |-> cmd.headersFrozen, headersSent |-> cmd.headersSent,
                   trailersFrozen |-> cmd.trailersFrozen, inHeaders |-> cmd.inHeaders,
                   inTrailers |-> cmd.inTrailers, read |-> cmd.read, status |-> cmd.status]

SmdShape == smd = [headers |-> smd.headers, trailers |-> smd.trailers,
                   headersFrozen |-> smd.headersFrozen, headersSent |-> smd.headersSent,
                   trailersFrozen |-> smd.trailersFrozen, inHeaders |-> smd.inHeaders,
                   inTrailers |-> smd.inTrailers]

ScallShape == scall = [headersSent |-> scall.headersSent, finished |-> scall.finished,
                       sendErr |-> scall.sendErr, error |-> scall.error, once |-> scall.once,
                       headersErr |-> scall.headersErr, initial |-> scall.initial]

RespShape == resp = [sent |-> resp.sent, headers |-> resp.headers, trailers |-> resp.trailers,
                     ended |-> resp.ended]

Shape ==
  /\ CmdShape /\ SmdShape /\ ScallShape /\ RespShape
  /\ DOMAIN pc = Procs /\ DOMAIN snap = Procs /\ DOMAIN added = Procs
  /\ rq \in Requests
  /\ smd.headersFrozen \in BOOLEAN /\ smd.trailersFrozen \in BOOLEAN /\ cmd.headersFrozen \in BOOLEAN
  /\ scall.headersSent \in BOOLEAN /\ scall.initial \in BOOLEAN
  /\ resp.sent \in BOOLEAN /\ resp.ended \in BOOLEAN

(* Shape holds at the start. *)
LEMMA ShapeInit == MetadataInit => Shape
<1> SUFFICES ASSUME MetadataInit PROVE Shape
  OBVIOUS
<1>1. CmdShape
  BY DEF MetadataInit, CmdShape
<1>2. SmdShape
  BY DEF MetadataInit, SmdShape, NewHandle
<1>3. ScallShape
  BY DEF MetadataInit, ScallShape
<1>4. RespShape
  BY DEF MetadataInit, RespShape
<1> QED
  BY <1>1, <1>2, <1>3, <1>4 DEF MetadataInit, Shape, NewHandle

(* Every step preserves Shape. *)
LEMMA ShapeStep == Shape /\ [MetadataNext]_metadataVars => Shape'
<1> SUFFICES ASSUME Shape, [MetadataNext]_metadataVars PROVE Shape'
  OBVIOUS
<1>0. CmdShape /\ SmdShape /\ ScallShape /\ RespShape
  BY DEF Shape
<1> DEFINE Rest == UNCHANGED <<cmd, smd, scall, resp>>
           Dom == DOMAIN pc' = Procs /\ DOMAIN snap' = Procs /\ DOMAIN added' = Procs
<1>a. ASSUME NEW p \in ClientProcs, NEW k \in Keys.request, ClientAdds(p, k) PROVE Shape'
  <2>1. cmd' = [headers |-> cmd'.headers, trailers |-> cmd.trailers,
                   headersFrozen |-> cmd.headersFrozen, headersSent |-> cmd.headersSent,
                   trailersFrozen |-> cmd.trailersFrozen, inHeaders |-> cmd.inHeaders,
                   inTrailers |-> cmd.inTrailers, read |-> cmd.read, status |-> cmd.status]
    BY <1>0, <1>a DEF ClientAdds, CmdShape
  <2> QED
    BY <2>1, <1>a DEF Shape, ClientAdds, CmdShape, SmdShape, ScallShape, RespShape
<1>b. ASSUME NEW p \in ServerProcs, NEW k \in Keys.header, ServerAdds(p, k) PROVE Shape'
  <2>1. smd' = [headers |-> smd'.headers, trailers |-> smd.trailers,
                   headersFrozen |-> smd.headersFrozen, headersSent |-> smd.headersSent,
                   trailersFrozen |-> smd.trailersFrozen, inHeaders |-> smd.inHeaders,
                   inTrailers |-> smd.inTrailers]
    BY <1>0, <1>b DEF ServerAdds, SmdShape
  <2> QED
    BY <2>1, <1>b DEF Shape, ServerAdds, CmdShape, SmdShape, ScallShape, RespShape
<1>c. ASSUME NEW p \in ServerProcs, NEW k \in Keys.trailer, NEW code, ServerAddsTrailer(p, k, code)
      PROVE Shape'
  <2>1. smd' = [headers |-> smd.headers, trailers |-> smd'.trailers,
                   headersFrozen |-> smd.headersFrozen, headersSent |-> smd.headersSent,
                   trailersFrozen |-> smd.trailersFrozen, inHeaders |-> smd.inHeaders,
                   inTrailers |-> smd.inTrailers]
    BY <1>0, <1>c DEF ServerAddsTrailer, SmdShape
  <2> QED
    BY <2>1, <1>c DEF Shape, ServerAddsTrailer, CmdShape, SmdShape, ScallShape, RespShape
<1>d. CASE OpenSnapshots
  BY <1>d DEF Shape, OpenSnapshots, Goto, CmdShape, SmdShape, ScallShape, RespShape
<1>e. CASE OpenFreezes
  BY <1>e DEF Shape, OpenFreezes, FrozenHeaders, Goto, CmdShape, SmdShape, ScallShape, RespShape
<1>f. ASSUME NEW o, OpenBuilds(o) PROVE Shape'
  BY <1>f DEF Shape, OpenBuilds, Goto, CmdShape, SmdShape, ScallShape, RespShape
<1>g. ASSUME NEW o, AcceptCall(o) PROVE Shape'
  <2>1. smd' = smd \/ \E md : smd' = [smd EXCEPT !.inHeaders = md]
    BY <1>g DEF AcceptCall, GrpcAccepts, UnaryAccepts
  <2>2. UNCHANGED <<rq, cmd, pc, snap, req, scall, resp, late, added>>
    BY <1>g DEF AcceptCall
  <2>3. smd' = [headers |-> smd.headers, trailers |-> smd.trailers,
                   headersFrozen |-> smd.headersFrozen, headersSent |-> smd.headersSent,
                   trailersFrozen |-> smd.trailersFrozen, inHeaders |-> smd'.inHeaders,
                   inTrailers |-> smd.inTrailers]
    BY <1>0, <2>1 DEF SmdShape
  <2> QED
    BY <2>2, <2>3 DEF Shape, CmdShape, SmdShape, ScallShape, RespShape
<1>h. ASSUME NEW p \in ServerProcs, MdSendHeaders(p) \/ SendWantsHeaders(p) \/ CallSendHeaders(p) PROVE Shape'
  BY <1>h DEF Shape, MdSendHeaders, SendWantsHeaders, CallSendHeaders, Goto, CmdShape, SmdShape, ScallShape, RespShape
<1>i. ASSUME NEW p \in ServerProcs, OnceSnapshots(p) \/ OnceMarks(p) \/ OnceWaited(p) PROVE Shape'
  BY <1>i DEF Shape, OnceSnapshots, OnceMarks, OnceWaited, Goto, CmdShape, SmdShape, ScallShape, RespShape
<1>j. ASSUME NEW p \in ServerProcs, OnceFreezes(p) PROVE Shape'
  BY <1>j DEF Shape, OnceFreezes, FrozenHeaders, Goto, CmdShape, SmdShape, ScallShape, RespShape
<1>k. ASSUME NEW p \in ServerProcs, MdCommits(p) PROVE Shape'
  BY <1>k DEF Shape, MdCommits, Goto, CmdShape, SmdShape, ScallShape, RespShape
<1>l. ASSUME NEW p \in ServerProcs, NEW o, OnceWrites(p, o) PROVE Shape'
  BY <1>l DEF Shape, OnceWrites, Goto, CmdShape, SmdShape, ScallShape, RespShape
<1>m. ASSUME NEW e, FinishStarts(e) PROVE Shape'
  BY <1>m DEF Shape, FinishStarts, Goto, CmdShape, SmdShape, ScallShape, RespShape
<1>n. CASE FinishSnapshots \/ UnarySnapshots
  BY <1>n DEF Shape, FinishSnapshots, UnarySnapshots, Goto, CmdShape, SmdShape, ScallShape, RespShape
<1>o. CASE FinishFreezesTrailers \/ FinishFreezesHeaders \/ UnaryFreezes
  BY <1>o DEF Shape, FinishFreezesTrailers, FinishFreezesHeaders, UnaryFreezes, FrozenHeaders, FrozenTrailers,
              Goto, CmdShape, SmdShape, ScallShape, RespShape
<1>p. ASSUME NEW ho, NEW to, FinishWrites(ho, to) PROVE Shape'
  BY <1>p DEF Shape, FinishWrites, Goto, CmdShape, SmdShape, ScallShape, RespShape
<1>q. ASSUME NEW o, UnaryWrites(o) PROVE Shape'
  BY <1>q DEF Shape, UnaryWrites, FrozenTrailers, Goto, CmdShape, SmdShape, ScallShape, RespShape
<1>r. CASE FinishMarks
  BY <1>r DEF Shape, FinishMarks, Goto, CmdShape, SmdShape, ScallShape, RespShape
<1>s. CASE RecvHeaders \/ RecvFinish
  <2>1. \/ \E x : cmd' = [cmd EXCEPT !.read = x]
        \/ \E x : cmd' = [cmd EXCEPT !.inHeaders = x]
        \/ \E x, y, z : cmd' = [cmd EXCEPT !.read = x, !.inTrailers = y, !.status = z]
    BY <1>s DEF RecvHeaders, RecvFinish
  <2>2. UNCHANGED <<rq, smd, pc, snap, req, acc, scall, resp, late, added>>
    BY <1>s DEF RecvHeaders, RecvFinish
  <2>3. cmd' = [headers |-> cmd.headers, trailers |-> cmd.trailers,
                   headersFrozen |-> cmd.headersFrozen, headersSent |-> cmd.headersSent,
                   trailersFrozen |-> cmd.trailersFrozen, inHeaders |-> cmd'.inHeaders,
                   inTrailers |-> cmd'.inTrailers, read |-> cmd'.read, status |-> cmd'.status]
    BY <1>0, <2>1 DEF CmdShape
  <2> QED
    BY <2>2, <2>3 DEF Shape, CmdShape, SmdShape, ScallShape, RespShape
<1>t. CASE UNCHANGED metadataVars
  BY <1>t DEF Shape, metadataVars, CmdShape, SmdShape, ScallShape, RespShape
<1> QED
  BY <1>a, <1>b, <1>c, <1>d, <1>e, <1>f, <1>g, <1>h, <1>i, <1>j, <1>k, <1>l, <1>m, <1>n, <1>o, <1>p, <1>q, <1>r,
     <1>s, <1>t DEF MetadataNext

(***************************************************************************)
(* ... the order of the response's steps                                   *)
(***************************************************************************)

(* Where the server's goroutines can be, and what that says of the flags.   *)
SendPlaces == {"md check", "send check", "md once", "send once", "write", "mark", "freeze", "commit"}
Marking == \E p \in ServerProcs : pc[p] \in {"mark", "freeze"}
Order ==
  /\ \A p \in ServerProcs : pc[p] \in SendPlaces => IsGrpc
  /\ Marking => resp.sent
  /\ pc[Handler] \in {"finish 1", "finish 2", "finish 3", "finish 4"} =>
        IsGrpc /\ scall.error \in Errors /\ (~scall.initial => resp.sent)
  /\ pc[Handler] \in {"unary 1", "unary 2", "unary 3"} => ~IsGrpc
  /\ pc[Handler] \in {"finish 3", "finish 4"} => smd.trailersFrozen
  /\ pc[Handler] \in {"finish 4", "unary 3"} => smd.headersFrozen
  /\ pc[Handler] = "finish 5" => resp.ended
  /\ scall.headersSent => resp.sent
  /\ resp.sent /\ ~resp.ended => IsGrpc
  /\ resp.sent => smd.headersFrozen \/ Marking
  /\ resp.ended => resp.sent /\ smd.headersFrozen /\ smd.trailersFrozen
                   /\ pc[Handler] \in {"finish 5", "left"}

(* Order holds at the start. *)
LEMMA OrderInit == MetadataInit => Order
<1> SUFFICES ASSUME MetadataInit PROVE Order
  OBVIOUS
<1>1. \A p \in Procs : pc[p] = "idle"
  BY DEF MetadataInit
<1>2. ServerProcs \subseteq Procs /\ Handler \in Procs
  BY DEF Procs, ServerProcs
<1>3. ~scall.headersSent /\ ~resp.sent /\ ~resp.ended
  BY DEF MetadataInit
<1> QED
  BY <1>1, <1>2, <1>3 DEF Order, SendPlaces, Marking

(* Every step preserves Order. *)
LEMMA OrderStep == Shape /\ Order /\ [MetadataNext]_metadataVars => Order'
<1> SUFFICES ASSUME Shape, Order, [MetadataNext]_metadataVars PROVE Order'
  OBVIOUS
<1>0. /\ CmdShape /\ SmdShape /\ ScallShape /\ RespShape
      /\ Handler \in ServerProcs /\ Helper \in ServerProcs /\ ServerProcs \subseteq Procs /\ ClientProcs \subseteq Procs
      /\ Opener \in ClientProcs /\ ClientProcs \cap ServerProcs = {}
  BY DEF Shape, ServerProcs, ClientProcs, Procs, Handler, Helper, Opener, Filter
<1>1. /\ DOMAIN pc = Procs
      /\ smd.headersFrozen \in BOOLEAN /\ smd.trailersFrozen \in BOOLEAN
      /\ scall.headersSent \in BOOLEAN /\ scall.initial \in BOOLEAN
      /\ resp.sent \in BOOLEAN /\ resp.ended \in BOOLEAN
  BY DEF Shape
<1>2. ASSUME UNCHANGED <<rq, pc, scall, resp>>, smd'.headersFrozen = smd.headersFrozen,
             smd'.trailersFrozen = smd.trailersFrozen
      PROVE  Order'
  BY <1>2 DEF Order, IsGrpc, Marking
<1>a. ASSUME NEW p \in ClientProcs, NEW k \in Keys.request, ClientAdds(p, k) PROVE Order'
  BY <1>2, <1>a DEF ClientAdds
<1>b. ASSUME NEW p \in ServerProcs, NEW k \in Keys.header, ServerAdds(p, k) PROVE Order'
  BY <1>0, <1>2, <1>b DEF ServerAdds, SmdShape
<1>c. ASSUME NEW p \in ServerProcs, NEW k \in Keys.trailer, NEW code, ServerAddsTrailer(p, k, code)
      PROVE Order'
  BY <1>0, <1>2, <1>c DEF ServerAddsTrailer, SmdShape
<1>3. ASSUME NEW x, Goto(Opener, x), UNCHANGED <<rq, smd, scall, resp>> PROVE Order'
  <2>1. \A p \in ServerProcs : pc'[p] = pc[p]
    BY <1>0, <1>1, <1>3 DEF Goto
  <2> QED
    BY <1>0, <1>3, <2>1 DEF Order, IsGrpc, Marking
<1>d. CASE OpenSnapshots
  BY <1>3, <1>d DEF OpenSnapshots
<1>e. CASE OpenFreezes
  BY <1>3, <1>e DEF OpenFreezes
<1>f. ASSUME NEW o, OpenBuilds(o) PROVE Order'
  BY <1>3, <1>f DEF OpenBuilds
<1>g. ASSUME NEW o, AcceptCall(o) PROVE Order'
  <2>1. smd' = smd \/ \E md : smd' = [smd EXCEPT !.inHeaders = md]
    BY <1>g DEF AcceptCall, GrpcAccepts, UnaryAccepts
  <2>2. smd'.headersFrozen = smd.headersFrozen /\ smd'.trailersFrozen = smd.trailersFrozen
    BY <1>0, <2>1 DEF SmdShape
  <2> QED
    BY <1>2, <1>g, <2>2 DEF AcceptCall

(* One of the server's goroutines moves and the rest stays. *)
<1>h. ASSUME NEW p \in ServerProcs, MdSendHeaders(p) \/ SendWantsHeaders(p) \/ CallSendHeaders(p) PROVE Order'
  <2>1. IsGrpc /\ pc[p] \in {"idle", "md check", "send check"}
    BY <1>h DEF MdSendHeaders, SendWantsHeaders, CallSendHeaders, Order, SendPlaces, At
  <2>2. \E x \in {"idle", "md check", "send check", "md once", "send once"} : Goto(p, x)
    BY <1>h DEF MdSendHeaders, SendWantsHeaders, CallSendHeaders
  <2>3. UNCHANGED <<rq, smd, scall, resp>>
    BY <1>h DEF MdSendHeaders, SendWantsHeaders, CallSendHeaders
  <2>4. /\ \A q \in ServerProcs \ {p} : pc'[q] = pc[q]
        /\ pc'[p] \in {"idle", "md check", "send check", "md once", "send once"}
    BY <1>0, <1>1, <2>2 DEF Goto
  <2> QED
    BY <1>0, <2>1, <2>3, <2>4 DEF Order, IsGrpc, Marking
<1>i. ASSUME NEW p \in ServerProcs, OnceSnapshots(p) PROVE Order'
  <2>1. IsGrpc /\ pc[p] \in {"md once", "send once"}
    BY <1>i DEF OnceSnapshots, Order, SendPlaces
  <2>2. /\ \A q \in ServerProcs \ {p} : pc'[q] = pc[q]
        /\ pc'[p] = "write"
    BY <1>0, <1>1, <1>i DEF OnceSnapshots, Goto
  <2>3. /\ UNCHANGED <<rq, smd, resp>> /\ scall'.headersSent = scall.headersSent
        /\ scall'.error = scall.error /\ scall'.initial = scall.initial
    BY <1>0, <1>i DEF OnceSnapshots, ScallShape
  <2> QED
    BY <1>0, <2>1, <2>2, <2>3 DEF Order, IsGrpc, Marking
<1>i1. ASSUME NEW p \in ServerProcs, OnceMarks(p) PROVE Order'
  <2>1. IsGrpc /\ pc[p] = "mark" /\ resp.sent
    BY <1>i1 DEF OnceMarks, Marking, Order, SendPlaces, At
  <2>2. /\ \A q \in ServerProcs \ {p} : pc'[q] = pc[q]
        /\ pc'[p] = "freeze"
    BY <1>0, <1>1, <1>i1 DEF OnceMarks, Goto
  <2>3. /\ UNCHANGED <<rq, smd, resp>>
        /\ scall'.error = scall.error /\ scall'.initial = scall.initial
    BY <1>0, <1>i1 DEF OnceMarks, ScallShape
  <2> QED
    BY <1>0, <2>1, <2>2, <2>3 DEF Order, IsGrpc, Marking
<1>i2. ASSUME NEW p \in ServerProcs, OnceWaited(p) PROVE Order'
  <2>1. IsGrpc /\ pc[p] \in {"md once", "send once"}
    BY <1>i2 DEF OnceWaited, Order, SendPlaces
  <2>2. /\ \A q \in ServerProcs \ {p} : pc'[q] = pc[q]
        /\ pc'[p] \in {"commit", "idle"}
    BY <1>0, <1>1, <1>i2 DEF OnceWaited, Goto
  <2>3. /\ UNCHANGED <<rq, smd, resp>> /\ scall'.headersSent = scall.headersSent
        /\ scall'.error = scall.error /\ scall'.initial = scall.initial
    BY <1>0, <1>i2 DEF OnceWaited, ScallShape
  <2> QED
    BY <1>0, <2>1, <2>2, <2>3 DEF Order, IsGrpc, Marking
<1>j. ASSUME NEW p \in ServerProcs, OnceFreezes(p) PROVE Order'
  <2>1. IsGrpc /\ pc[p] = "freeze"
    BY <1>j DEF OnceFreezes, Order, SendPlaces, At
  <2>2. /\ \A q \in ServerProcs \ {p} : pc'[q] = pc[q]
        /\ pc'[p] \in {"commit", "idle"}
    BY <1>0, <1>1, <1>j DEF OnceFreezes, Goto
  <2>3. /\ UNCHANGED <<rq, resp>> /\ scall'.headersSent = scall.headersSent
        /\ scall'.error = scall.error /\ scall'.initial = scall.initial
    BY <1>0, <1>j DEF OnceFreezes, ScallShape
  <2>4. smd'.headersFrozen = TRUE /\ smd'.trailersFrozen = smd.trailersFrozen
    BY <1>0, <1>j DEF OnceFreezes, FrozenHeaders, SmdShape
  <2> QED
    BY <1>0, <2>1, <2>2, <2>3, <2>4 DEF Order, IsGrpc, Marking
<1>k. ASSUME NEW p \in ServerProcs, MdCommits(p) PROVE Order'
  <2>1. IsGrpc /\ pc[p] = "commit"
    BY <1>k DEF MdCommits, Order, SendPlaces, At
  <2>2. /\ \A q \in ServerProcs \ {p} : pc'[q] = pc[q]
        /\ pc'[p] = "idle"
    BY <1>0, <1>1, <1>k DEF MdCommits, Goto
  <2>3. UNCHANGED <<rq, resp, scall>>
    BY <1>k DEF MdCommits
  <2>4. smd'.headersFrozen \in {TRUE, smd.headersFrozen} /\ smd'.trailersFrozen = smd.trailersFrozen
    BY <1>0, <1>k DEF MdCommits, SmdShape
  <2> QED
    BY <1>0, <2>1, <2>2, <2>3, <2>4 DEF Order, IsGrpc, Marking
<1>l. ASSUME NEW p \in ServerProcs, NEW o, OnceWrites(p, o) PROVE Order'
  <2>1. IsGrpc /\ pc[p] = "write"
    BY <1>l DEF OnceWrites, Order, SendPlaces, At
  <2>2. UNCHANGED <<rq, smd>> /\ scall'.headersSent = scall.headersSent
        /\ scall'.error = scall.error /\ scall'.initial = scall.initial
    BY <1>0, <1>l DEF OnceWrites, ScallShape
  <2>3. CASE resp.sent
    <3>1. /\ \A q \in ServerProcs \ {p} : pc'[q] = pc[q]
          /\ pc'[p] = "idle" /\ resp' = resp
      BY <1>0, <1>1, <1>l, <2>3 DEF OnceWrites, Goto
    <3> QED
      BY <1>0, <2>1, <2>2, <3>1 DEF Order, IsGrpc, Marking
  <2>4. CASE ~resp.sent
    <3>1. /\ \A q \in ServerProcs \ {p} : pc'[q] = pc[q]
          /\ pc'[p] = "mark" /\ resp'.sent /\ resp'.ended = resp.ended
      BY <1>0, <1>1, <1>l, <2>4 DEF OnceWrites, Goto, RespShape
    <3> QED
      BY <1>0, <2>1, <2>2, <2>4, <3>1 DEF Order, IsGrpc, Marking
  <2> QED
    BY <2>3, <2>4
<1>4. ASSUME NEW x, Goto(Handler, x)
      PROVE  (\A q \in ServerProcs \ {Handler} : pc'[q] = pc[q]) /\ pc'[Handler] = x
  BY <1>0, <1>1, <1>4 DEF Goto
<1>5. ASSUME NEW x, Goto(Handler, x), x \notin SendPlaces, pc[Handler] \notin {"mark", "freeze"}, rq' = rq
      PROVE  /\ \A p \in ServerProcs : pc'[p] \in SendPlaces => IsGrpc'
             /\ Marking' <=> Marking
             /\ pc'[Handler] = x /\ IsGrpc' = IsGrpc
  <2>1. (\A q \in ServerProcs \ {Handler} : pc'[q] = pc[q]) /\ pc'[Handler] = x
    BY <1>4, <1>5
  <2>2. \A p \in ServerProcs : pc[p] \in SendPlaces => IsGrpc
    BY DEF Order
  <2>3. {"mark", "freeze"} \subseteq SendPlaces
    BY DEF SendPlaces
  <2>4. IsGrpc' = IsGrpc
    BY <1>5 DEF IsGrpc
  <2>5. \A p \in ServerProcs : pc'[p] \in {"mark", "freeze"} <=> pc[p] \in {"mark", "freeze"}
    BY <1>5, <2>1, <2>3
  <2>6. Marking' <=> Marking
    BY <2>5 DEF Marking
  <2>7. ASSUME NEW p \in ServerProcs, pc'[p] \in SendPlaces PROVE IsGrpc'
    BY <1>5, <2>1, <2>2, <2>4, <2>7
  <2> QED
    BY <2>1, <2>4, <2>6, <2>7
<1>m. ASSUME NEW e \in Errors, FinishStarts(e) PROVE Order'
  <2> DEFINE x == IF scall.sendErr THEN "left" ELSE IF IsGrpc THEN "finish 1" ELSE "unary 1"
  <2>1. Goto(Handler, x) /\ pc[Handler] = "idle"
    BY <1>m DEF FinishStarts, At
  <2>2. x = "left" \/ (IsGrpc /\ x = "finish 1") \/ (~IsGrpc /\ x = "unary 1")
    OBVIOUS
  <2> HIDE DEF x
  <2>3. /\ UNCHANGED <<rq, smd, resp>> /\ scall'.headersSent = scall.headersSent
        /\ scall'.error = e /\ scall'.initial = ~scall.headersSent
    BY <1>0, <1>m DEF FinishStarts, ScallShape
  <2>4. ~scall'.initial => resp.sent
    BY <1>1, <2>3 DEF Order
  <2>5. x \notin SendPlaces
    BY <2>2 DEF SendPlaces
  <2>6. /\ \A p \in ServerProcs : pc'[p] \in SendPlaces => IsGrpc'
        /\ Marking' <=> Marking
        /\ pc'[Handler] = x /\ IsGrpc' = IsGrpc
    BY <1>5, <2>1, <2>3, <2>5
  <2> QED
    BY <2>1, <2>2, <2>3, <2>4, <2>6 DEF Order
<1>n. CASE FinishSnapshots
  <2>1. Goto(Handler, "finish 2") /\ pc[Handler] = "finish 1" /\ UNCHANGED <<rq, smd, resp, scall>>
    BY <1>n DEF FinishSnapshots, At
  <2>2. "finish 2" \notin SendPlaces
    BY DEF SendPlaces
  <2>3. /\ \A p \in ServerProcs : pc'[p] \in SendPlaces => IsGrpc'
        /\ Marking' <=> Marking
        /\ pc'[Handler] = "finish 2" /\ IsGrpc' = IsGrpc
    BY <1>5, <2>1, <2>2
  <2> QED
    BY <2>1, <2>3 DEF Order
<1>n1. CASE UnarySnapshots
  <2>1. Goto(Handler, "unary 2") /\ pc[Handler] = "unary 1" /\ UNCHANGED <<rq, smd, resp, scall>>
    BY <1>n1 DEF UnarySnapshots, At
  <2>2. "unary 2" \notin SendPlaces
    BY DEF SendPlaces
  <2>3. /\ \A p \in ServerProcs : pc'[p] \in SendPlaces => IsGrpc'
        /\ Marking' <=> Marking
        /\ pc'[Handler] = "unary 2" /\ IsGrpc' = IsGrpc
    BY <1>5, <2>1, <2>2
  <2> QED
    BY <2>1, <2>3 DEF Order
<1>o. CASE FinishFreezesTrailers
  <2>1. Goto(Handler, "finish 3") /\ pc[Handler] = "finish 2" /\ UNCHANGED <<rq, resp, scall>>
    BY <1>o DEF FinishFreezesTrailers, At
  <2>2. "finish 3" \notin SendPlaces
    BY DEF SendPlaces
  <2>3. /\ \A p \in ServerProcs : pc'[p] \in SendPlaces => IsGrpc'
        /\ Marking' <=> Marking
        /\ pc'[Handler] = "finish 3" /\ IsGrpc' = IsGrpc
    BY <1>5, <2>1, <2>2
  <2>4. smd'.headersFrozen = smd.headersFrozen /\ smd'.trailersFrozen = TRUE
    BY <1>0, <1>o DEF FinishFreezesTrailers, FrozenTrailers, SmdShape
  <2> QED
    BY <2>1, <2>3, <2>4 DEF Order
<1>o1. CASE FinishFreezesHeaders
  <2>1. Goto(Handler, "finish 4") /\ pc[Handler] = "finish 3" /\ UNCHANGED <<rq, resp, scall>>
    BY <1>o1 DEF FinishFreezesHeaders, At
  <2>2. "finish 4" \notin SendPlaces
    BY DEF SendPlaces
  <2>3. /\ \A p \in ServerProcs : pc'[p] \in SendPlaces => IsGrpc'
        /\ Marking' <=> Marking
        /\ pc'[Handler] = "finish 4" /\ IsGrpc' = IsGrpc
    BY <1>5, <2>1, <2>2
  <2>4. smd'.headersFrozen = TRUE /\ smd'.trailersFrozen = smd.trailersFrozen
    BY <1>0, <1>o1 DEF FinishFreezesHeaders, FrozenHeaders, SmdShape
  <2> QED
    BY <2>1, <2>3, <2>4 DEF Order
<1>o2. CASE UnaryFreezes
  <2>1. Goto(Handler, "unary 3") /\ pc[Handler] = "unary 2" /\ UNCHANGED <<rq, resp, scall>>
    BY <1>o2 DEF UnaryFreezes, At
  <2>2. "unary 3" \notin SendPlaces
    BY DEF SendPlaces
  <2>3. /\ \A p \in ServerProcs : pc'[p] \in SendPlaces => IsGrpc'
        /\ Marking' <=> Marking
        /\ pc'[Handler] = "unary 3" /\ IsGrpc' = IsGrpc
    BY <1>5, <2>1, <2>2
  <2>4. smd'.headersFrozen = TRUE /\ smd'.trailersFrozen = smd.trailersFrozen
    BY <1>0, <1>o2 DEF UnaryFreezes, FrozenHeaders, SmdShape
  <2> QED
    BY <2>1, <2>3, <2>4 DEF Order
<1>p. ASSUME NEW ho, NEW to, FinishWrites(ho, to) PROVE Order'
  <2>1. Goto(Handler, "finish 5") /\ pc[Handler] = "finish 4" /\ UNCHANGED <<rq, smd, scall>>
    BY <1>p DEF FinishWrites, At
  <2>2. "finish 5" \notin SendPlaces
    BY DEF SendPlaces
  <2>3. /\ \A p \in ServerProcs : pc'[p] \in SendPlaces => IsGrpc'
        /\ Marking' <=> Marking
        /\ pc'[Handler] = "finish 5" /\ IsGrpc' = IsGrpc
    BY <1>5, <2>1, <2>2
  <2>4. resp'.sent /\ resp'.ended
    BY <1>0, <1>1, <1>p DEF FinishWrites, RespShape
  <2> QED
    BY <2>1, <2>3, <2>4 DEF Order
<1>q. ASSUME NEW o, UnaryWrites(o) PROVE Order'
  <2>1. Goto(Handler, "finish 5") /\ pc[Handler] = "unary 3" /\ UNCHANGED <<rq, scall>>
    BY <1>q DEF UnaryWrites, At
  <2>2. "finish 5" \notin SendPlaces
    BY DEF SendPlaces
  <2>3. /\ \A p \in ServerProcs : pc'[p] \in SendPlaces => IsGrpc'
        /\ Marking' <=> Marking
        /\ pc'[Handler] = "finish 5" /\ IsGrpc' = IsGrpc
    BY <1>5, <2>1, <2>2
  <2>4. resp'.sent /\ resp'.ended
    BY <1>q DEF UnaryWrites
  <2>5. smd'.headersFrozen = smd.headersFrozen /\ smd'.trailersFrozen = TRUE
    BY <1>0, <1>q DEF UnaryWrites, FrozenTrailers, SmdShape
  <2> QED
    BY <2>1, <2>3, <2>4, <2>5 DEF Order
<1>r. CASE FinishMarks
  <2>1. Goto(Handler, "left") /\ pc[Handler] = "finish 5" /\ UNCHANGED <<rq, smd, resp>>
    BY <1>r DEF FinishMarks, At
  <2>2. "left" \notin SendPlaces
    BY DEF SendPlaces
  <2>3. /\ \A p \in ServerProcs : pc'[p] \in SendPlaces => IsGrpc'
        /\ Marking' <=> Marking
        /\ pc'[Handler] = "left" /\ IsGrpc' = IsGrpc
    BY <1>5, <2>1, <2>2
  <2>4. resp.sent
    BY <2>1 DEF Order
  <2> QED
    BY <2>1, <2>3, <2>4 DEF Order
<1>s. CASE RecvHeaders \/ RecvFinish
  BY <1>2, <1>s DEF RecvHeaders, RecvFinish
<1>t. CASE UNCHANGED metadataVars
  BY <1>2, <1>t DEF metadataVars
<1> QED
  BY <1>a, <1>b, <1>c, <1>d, <1>e, <1>f, <1>g, <1>h, <1>i, <1>i1, <1>i2, <1>j, <1>k, <1>l, <1>m, <1>n, <1>n1, <1>o,
     <1>o1, <1>o2, <1>p, <1>q, <1>r, <1>s, <1>t DEF MetadataNext

(***************************************************************************)
(* ... what the handles hold                                               *)
(***************************************************************************)

(* What each handle holds was added to it, each value once.                 *)
Handles ==
  /\ Holds(cmd.headers, ClientValues(rq), ClientProcs, "h", added)
  /\ Holds(smd.headers, KindValues("h"), ServerProcs, "h", added)
  /\ Holds(smd.trailers, KindValues("t"), ServerProcs, "t", added)

(* No step undoes what was added, or which of it was late.                  *)
Grows ==
  /\ \A p \in Procs : added[p] \subseteq added'[p]
  /\ late \subseteq late' /\ rq' = rq

(* Every step is so. *)
LEMMA GrowsStep == Shape /\ [MetadataNext]_metadataVars => Grows
<1> SUFFICES ASSUME Shape, [MetadataNext]_metadataVars PROVE Grows
  OBVIOUS
<1>0. DOMAIN added = Procs /\ ServerProcs \subseteq Procs /\ ClientProcs \subseteq Procs
  BY DEF Shape, Procs
<1>1. ASSUME UNCHANGED <<rq, late, added>> PROVE Grows
  BY <1>1 DEF Grows
<1>a. ASSUME NEW p \in ClientProcs, NEW k \in Keys.request, ClientAdds(p, k) PROVE Grows
  BY <1>0, <1>a DEF ClientAdds, Grows
<1>b. ASSUME NEW p \in ServerProcs, NEW k \in Keys.header, ServerAdds(p, k) PROVE Grows
  BY <1>0, <1>b DEF ServerAdds, Grows
<1>c. ASSUME NEW p \in ServerProcs, NEW k \in Keys.trailer, NEW code, ServerAddsTrailer(p, k, code)
      PROVE Grows
  BY <1>0, <1>c DEF ServerAddsTrailer, Grows
<1>d. CASE OpenSnapshots \/ OpenFreezes \/ \E o : OpenBuilds(o)
  BY <1>1, <1>d DEF OpenSnapshots, OpenFreezes, OpenBuilds
<1>g. ASSUME NEW o, AcceptCall(o) PROVE Grows
  BY <1>1, <1>g DEF AcceptCall
<1>h. ASSUME NEW p \in ServerProcs, MdSendHeaders(p) \/ SendWantsHeaders(p) PROVE Grows
  BY <1>0, <1>h DEF MdSendHeaders, SendWantsHeaders, Grows
<1>i. ASSUME NEW p \in ServerProcs, CallSendHeaders(p) \/ OnceSnapshots(p) \/ OnceMarks(p) \/ OnceFreezes(p)
                                    \/ OnceWaited(p) \/ MdCommits(p) PROVE Grows
  BY <1>1, <1>i DEF CallSendHeaders, OnceSnapshots, OnceMarks, OnceFreezes, OnceWaited, MdCommits
<1>l. ASSUME NEW p \in ServerProcs, NEW o, OnceWrites(p, o) PROVE Grows
  BY <1>1, <1>l DEF OnceWrites
<1>m. ASSUME NEW e, FinishStarts(e) PROVE Grows
  BY <1>1, <1>m DEF FinishStarts
<1>n. CASE FinishSnapshots \/ FinishFreezesTrailers \/ FinishFreezesHeaders \/ UnarySnapshots \/ UnaryFreezes
           \/ FinishMarks
  BY <1>1, <1>n DEF FinishSnapshots, FinishFreezesTrailers, FinishFreezesHeaders, UnarySnapshots, UnaryFreezes,
                    FinishMarks
<1>p. ASSUME NEW ho, NEW to, FinishWrites(ho, to) PROVE Grows
  BY <1>1, <1>p DEF FinishWrites
<1>q. ASSUME NEW o, UnaryWrites(o) PROVE Grows
  BY <1>1, <1>q DEF UnaryWrites
<1>s. CASE RecvHeaders \/ RecvFinish
  BY <1>1, <1>s DEF RecvHeaders, RecvFinish
<1>t. CASE UNCHANGED metadataVars
  BY <1>1, <1>t DEF metadataVars
<1> QED
  BY <1>a, <1>b, <1>c, <1>d, <1>g, <1>h, <1>i, <1>l, <1>m, <1>n, <1>p, <1>q, <1>s, <1>t DEF MetadataNext

(* Only the three ways to add change what a handle holds.                   *)
SameMetadata == cmd'.headers = cmd.headers /\ smd'.headers = smd.headers /\ smd'.trailers = smd.trailers

(* Every step adds to a handle or leaves the metadata. *)
LEMMA MetadataSteps ==
  ASSUME Shape, [MetadataNext]_metadataVars
  PROVE  \/ \E p \in ClientProcs, k \in Keys.request : ClientAdds(p, k)
         \/ \E p \in ServerProcs, k \in Keys.header : ServerAdds(p, k)
         \/ \E p \in ServerProcs, k \in Keys.trailer, code \in {NoProto} \cup Relayed :
              ServerAddsTrailer(p, k, code)
         \/ SameMetadata
<1>0. CmdShape /\ SmdShape
  BY DEF Shape
<1>1. ASSUME UNCHANGED <<cmd, smd>> PROVE SameMetadata
  BY <1>1 DEF SameMetadata
<1>d. CASE OpenSnapshots \/ \E o : OpenBuilds(o)
  BY <1>1, <1>d DEF OpenSnapshots, OpenBuilds
<1>e. CASE OpenFreezes
  BY <1>0, <1>e DEF OpenFreezes, FrozenHeaders, CmdShape, SameMetadata
<1>g. ASSUME NEW o, AcceptCall(o) PROVE SameMetadata
  <2>1. smd' = smd \/ \E md : smd' = [smd EXCEPT !.inHeaders = md]
    BY <1>g DEF AcceptCall, GrpcAccepts, UnaryAccepts
  <2>2. UNCHANGED cmd
    BY <1>g DEF AcceptCall
  <2> QED
    BY <1>0, <2>1, <2>2 DEF SmdShape, SameMetadata
<1>h. ASSUME NEW p \in ServerProcs, MdSendHeaders(p) \/ SendWantsHeaders(p) \/ CallSendHeaders(p)
                  \/ OnceSnapshots(p) \/ OnceMarks(p) \/ OnceWaited(p) PROVE SameMetadata
  BY <1>1, <1>h DEF MdSendHeaders, SendWantsHeaders, CallSendHeaders, OnceSnapshots, OnceMarks, OnceWaited
<1>i. ASSUME NEW p \in ServerProcs, OnceFreezes(p) \/ MdCommits(p) PROVE SameMetadata
  BY <1>0, <1>i DEF OnceFreezes, FrozenHeaders, MdCommits, SmdShape, SameMetadata
<1>l. ASSUME NEW p \in ServerProcs, NEW o, OnceWrites(p, o) PROVE SameMetadata
  BY <1>1, <1>l DEF OnceWrites
<1>m. ASSUME NEW e, FinishStarts(e) PROVE SameMetadata
  BY <1>1, <1>m DEF FinishStarts
<1>n. CASE FinishSnapshots \/ UnarySnapshots \/ FinishMarks
  BY <1>1, <1>n DEF FinishSnapshots, UnarySnapshots, FinishMarks
<1>o. CASE FinishFreezesTrailers \/ FinishFreezesHeaders \/ UnaryFreezes
  BY <1>0, <1>o DEF FinishFreezesTrailers, FinishFreezesHeaders, UnaryFreezes, FrozenHeaders, FrozenTrailers,
                    SmdShape, SameMetadata
<1>p. ASSUME NEW ho, NEW to, FinishWrites(ho, to) PROVE SameMetadata
  BY <1>1, <1>p DEF FinishWrites
<1>q. ASSUME NEW o, UnaryWrites(o) PROVE SameMetadata
  BY <1>0, <1>q DEF UnaryWrites, FrozenTrailers, SmdShape, SameMetadata
<1>s. CASE RecvHeaders \/ RecvFinish
  <2>1. \/ \E x : cmd' = [cmd EXCEPT !.read = x]
        \/ \E x : cmd' = [cmd EXCEPT !.inHeaders = x]
        \/ \E x, y, z : cmd' = [cmd EXCEPT !.read = x, !.inTrailers = y, !.status = z]
    BY <1>s DEF RecvHeaders, RecvFinish
  <2>2. UNCHANGED smd
    BY <1>s DEF RecvHeaders, RecvFinish
  <2> QED
    BY <1>0, <2>1, <2>2 DEF CmdShape, SameMetadata
<1>t. CASE UNCHANGED metadataVars
  BY <1>1, <1>t DEF metadataVars
<1> QED
  BY <1>d, <1>e, <1>g, <1>h, <1>i, <1>l, <1>m, <1>n, <1>o, <1>p, <1>q, <1>s, <1>t DEF MetadataNext

(* A goroutine's value. *)
LEMMA ValueIs ==
  ASSUME NEW p \in Procs, NEW kind \in {"h", "t"}, NEW code \in {NoProto} \cup Relayed
  PROVE  /\ Value(p, kind, code) \in OwnValues /\ Value(p, kind, code) \in KindValues(kind)
         /\ Value(p, kind, code).by = p /\ Value(p, kind, code).kind = kind
<1>1. Value(p, kind, code) \in OwnValues
  BY DEF OwnValues
<1>2. Value(p, kind, code).by = p /\ Value(p, kind, code).kind = kind
  BY DEF Value
<1> QED
  BY <1>1, <1>2 DEF KindValues

(* What is set before the call is held by the client's handle. *)
LEMMA PresetHolds ==
  ASSUME NEW r \in Requests, NEW ad
  PROVE  Holds(r.preset, ClientValues(r), ClientProcs, "h", ad)
<1>1. /\ IsFiniteSet(DOMAIN r.preset)
      /\ \A k \in DOMAIN r.preset : /\ r.preset[k] \in Seq(PresetValues(r))
                                    /\ \A j \in AppKeys : Lower(j) # Lower(k)
  BY RequestAssumption DEF IsRequest
<1>2. DOMAIN r.preset \cap AppKeys = {}
  BY <1>1
<1>3. \A k \in DOMAIN r.preset : r.preset[k] \in Seq(ClientValues(r))
  <2>1. PresetValues(r) \subseteq ClientValues(r)
    BY DEF ClientValues
  <2> QED
    BY <1>1, <2>1
<1> QED
  BY <1>1, <1>2, <1>3 DEF Holds, MetadataOver

(* Handles holds at the start. *)
LEMMA HandlesInit == MetadataInit => Handles
<1> SUFFICES ASSUME MetadataInit PROVE Handles
  OBVIOUS
<1>1. rq \in Requests /\ cmd.headers = rq.preset /\ smd.headers = NoMetadata /\ smd.trailers = NoMetadata
  BY DEF MetadataInit, NewHandle
<1> QED
  BY <1>1, PresetHolds, HoldsNothing DEF Handles

(* Every step preserves Handles. *)
LEMMA HandlesStep == Shape /\ Handles /\ [MetadataNext]_metadataVars => Handles'
<1> SUFFICES ASSUME Shape, Handles, [MetadataNext]_metadataVars PROVE Handles'
  OBVIOUS
<1>0. /\ CmdShape /\ SmdShape /\ DOMAIN added = Procs
      /\ ServerProcs \subseteq Procs /\ ClientProcs \subseteq Procs
  BY DEF Shape, Procs
<1>1. Grows
  BY GrowsStep
<1>2. /\ \A p \in ClientProcs : added[p] \subseteq added'[p]
      /\ \A p \in ServerProcs : added[p] \subseteq added'[p]
      /\ ClientValues(rq)' = ClientValues(rq)
  BY <1>0, <1>1 DEF Grows, ClientValues, PresetValues
<1>3. /\ Holds(cmd.headers, ClientValues(rq), ClientProcs, "h", added')
      /\ Holds(smd.headers, KindValues("h"), ServerProcs, "h", added')
      /\ Holds(smd.trailers, KindValues("t"), ServerProcs, "t", added')
  BY <1>2, HoldsLater DEF Handles
<1>a. ASSUME NEW p \in ClientProcs, NEW k \in Keys.request, ClientAdds(p, k) PROVE Handles'
  <2> DEFINE v == Value(p, "h", NoProto)
  <2>1. v \in ClientValues(rq) /\ v \in KindValues("h") /\ v.by = p
    BY <1>0, ValueIs DEF ClientValues
  <2>2. "h" \notin added[p] /\ "h" \in added'[p] /\ k \in AppKeys
    BY <1>0, <1>a DEF ClientAdds, AppKeys
  <2>3. cmd'.headers = With(cmd.headers, k, Single(v)) /\ smd' = smd
    BY <1>0, <1>a DEF ClientAdds, CmdShape, Single
  <2> HIDE DEF v
  <2>4. Holds(With(cmd.headers, k, Single(v)), ClientValues(rq), ClientProcs, "h", added')
    BY <1>2, <2>1, <2>2, HoldsMore DEF Handles
  <2> QED
    BY <1>2, <1>3, <2>3, <2>4 DEF Handles
<1>b. ASSUME NEW p \in ServerProcs, NEW k \in Keys.header, ServerAdds(p, k) PROVE Handles'
  <2> DEFINE v == Value(p, "h", NoProto)
  <2>1. v \in KindValues("h") /\ v.by = p
    BY <1>0, ValueIs
  <2>2. "h" \notin added[p] /\ "h" \in added'[p] /\ k \in AppKeys
    BY <1>0, <1>b DEF ServerAdds, AppKeys
  <2>3. smd'.headers = With(smd.headers, k, Single(v)) /\ smd'.trailers = smd.trailers /\ cmd' = cmd
    BY <1>0, <1>b DEF ServerAdds, SmdShape, Single
  <2> HIDE DEF v
  <2>4. Holds(With(smd.headers, k, Single(v)), KindValues("h"), ServerProcs, "h", added')
    BY <1>2, <2>1, <2>2, HoldsMore DEF Handles
  <2> QED
    BY <1>2, <1>3, <2>3, <2>4 DEF Handles
<1>c. ASSUME NEW p \in ServerProcs, NEW k \in Keys.trailer, NEW code \in {NoProto} \cup Relayed,
             ServerAddsTrailer(p, k, code)
      PROVE Handles'
  <2> DEFINE v == Value(p, "t", code)
  <2>1. v \in KindValues("t") /\ v.by = p
    BY <1>0, ValueIs
  <2>2. "t" \notin added[p] /\ "t" \in added'[p] /\ k \in AppKeys
    BY <1>0, <1>c DEF ServerAddsTrailer, AppKeys
  <2>3. smd'.trailers = With(smd.trailers, k, Single(v)) /\ smd'.headers = smd.headers /\ cmd' = cmd
    BY <1>0, <1>c DEF ServerAddsTrailer, SmdShape, Single
  <2> HIDE DEF v
  <2>4. Holds(With(smd.trailers, k, Single(v)), KindValues("t"), ServerProcs, "t", added')
    BY <1>2, <2>1, <2>2, HoldsMore DEF Handles
  <2> QED
    BY <1>2, <1>3, <2>3, <2>4 DEF Handles
<1>d. CASE SameMetadata
  BY <1>2, <1>3, <1>d DEF SameMetadata, Handles
<1> QED
  BY <1>a, <1>b, <1>c, <1>d, MetadataSteps

(***************************************************************************)
(* ... the snapshots that are out                                          *)
(***************************************************************************)

(* A snapshot that is out, or whose handle is frozen, still is one.         *)
LEMMA RequestKeeps ==
  ASSUME Shape, Handles, [MetadataNext]_metadataVars, NEW sn,
         Snapshot(sn, cmd.headers, ClientValues(rq), late),
         SnapshotOut(ClientProcs, HeadersOut) \/ cmd.headersFrozen
  PROVE  Snapshot(sn, cmd'.headers, ClientValues(rq), late')
<1>0. CmdShape /\ SmdShape /\ ClientProcs \subseteq Procs /\ ServerProcs \subseteq Procs
  BY DEF Shape, Procs
<1>1. late \subseteq late'
  BY GrowsStep DEF Grows
<1>2. ASSUME cmd'.headers = cmd.headers PROVE Snapshot(sn, cmd'.headers, ClientValues(rq), late')
  BY <1>1, <1>2, SnapshotLater
<1>a. ASSUME NEW p \in ClientProcs, NEW k \in Keys.request, ClientAdds(p, k)
      PROVE  Snapshot(sn, cmd'.headers, ClientValues(rq), late')
  <2> DEFINE v == Value(p, "h", NoProto)
  <2>1. v \in ClientValues(rq) /\ v.kind = "h" /\ v.by = p
    BY <1>0, ValueIs DEF ClientValues
  <2>2. k \in AppKeys /\ <<"h", p>> \in late'
    BY <1>a DEF ClientAdds, AppKeys
  <2>3. cmd'.headers = With(cmd.headers, k, Single(v))
    BY <1>0, <1>a DEF ClientAdds, CmdShape, Single
  <2> HIDE DEF v
  <2>4. MetadataOver(cmd.headers, ClientValues(rq))
    BY DEF Handles, Holds
  <2>5. Snapshot(sn, With(cmd.headers, k, Single(v)), ClientValues(rq), late')
    BY <1>1, <2>1, <2>2, <2>4, SnapshotOlder
  <2> QED
    BY <2>3, <2>5
<1>b. ASSUME NEW p \in ServerProcs, NEW k \in Keys.header, ServerAdds(p, k)
      PROVE  cmd'.headers = cmd.headers
  BY <1>b DEF ServerAdds
<1>c. ASSUME NEW p \in ServerProcs, NEW k \in Keys.trailer, NEW code, ServerAddsTrailer(p, k, code)
      PROVE  cmd'.headers = cmd.headers
  BY <1>c DEF ServerAddsTrailer
<1> QED
  BY <1>2, <1>a, <1>b, <1>c, MetadataSteps DEF SameMetadata

(* ... of the server's headers, *)
LEMMA HeadersKeep ==
  ASSUME Shape, Handles, [MetadataNext]_metadataVars, NEW sn,
         Snapshot(sn, smd.headers, KindValues("h"), late),
         SnapshotOut(ServerProcs, HeadersOut) \/ smd.headersFrozen
  PROVE  Snapshot(sn, smd'.headers, KindValues("h"), late')
<1>0. CmdShape /\ SmdShape /\ ClientProcs \subseteq Procs /\ ServerProcs \subseteq Procs
  BY DEF Shape, Procs
<1>1. late \subseteq late'
  BY GrowsStep DEF Grows
<1>2. ASSUME smd'.headers = smd.headers PROVE Snapshot(sn, smd'.headers, KindValues("h"), late')
  BY <1>1, <1>2, SnapshotLater
<1>a. ASSUME NEW p \in ServerProcs, NEW k \in Keys.header, ServerAdds(p, k)
      PROVE  Snapshot(sn, smd'.headers, KindValues("h"), late')
  <2> DEFINE v == Value(p, "h", NoProto)
  <2>1. v \in KindValues("h") /\ v.kind = "h" /\ v.by = p
    BY <1>0, ValueIs
  <2>2. k \in AppKeys /\ <<"h", p>> \in late'
    BY <1>a DEF ServerAdds, AppKeys
  <2>3. smd'.headers = With(smd.headers, k, Single(v))
    BY <1>0, <1>a DEF ServerAdds, SmdShape, Single
  <2> HIDE DEF v
  <2>4. MetadataOver(smd.headers, KindValues("h"))
    BY DEF Handles, Holds
  <2>5. Snapshot(sn, With(smd.headers, k, Single(v)), KindValues("h"), late')
    BY <1>1, <2>1, <2>2, <2>4, SnapshotOlder
  <2> QED
    BY <2>3, <2>5
<1>b. ASSUME NEW p \in ClientProcs, NEW k \in Keys.request, ClientAdds(p, k)
      PROVE  smd'.headers = smd.headers
  BY <1>b DEF ClientAdds
<1>c. ASSUME NEW p \in ServerProcs, NEW k \in Keys.trailer, NEW code, ServerAddsTrailer(p, k, code)
      PROVE  smd'.headers = smd.headers
  BY <1>0, <1>c DEF ServerAddsTrailer, SmdShape
<1> QED
  BY <1>2, <1>a, <1>b, <1>c, MetadataSteps DEF SameMetadata

(* ... and of its trailers. *)
LEMMA TrailersKeep ==
  ASSUME Shape, Handles, [MetadataNext]_metadataVars, NEW sn,
         Snapshot(sn, smd.trailers, KindValues("t"), late),
         SnapshotOut(ServerProcs, TrailersOut) \/ smd.trailersFrozen
  PROVE  Snapshot(sn, smd'.trailers, KindValues("t"), late')
<1>0. CmdShape /\ SmdShape /\ ClientProcs \subseteq Procs /\ ServerProcs \subseteq Procs
  BY DEF Shape, Procs
<1>1. late \subseteq late'
  BY GrowsStep DEF Grows
<1>2. ASSUME smd'.trailers = smd.trailers PROVE Snapshot(sn, smd'.trailers, KindValues("t"), late')
  BY <1>1, <1>2, SnapshotLater
<1>a. ASSUME NEW p \in ServerProcs, NEW k \in Keys.trailer, NEW code \in {NoProto} \cup Relayed,
             ServerAddsTrailer(p, k, code)
      PROVE  Snapshot(sn, smd'.trailers, KindValues("t"), late')
  <2> DEFINE v == Value(p, "t", code)
  <2>1. v \in KindValues("t") /\ v.kind = "t" /\ v.by = p
    BY <1>0, ValueIs
  <2>2. k \in AppKeys /\ <<"t", p>> \in late'
    BY <1>a DEF ServerAddsTrailer, AppKeys
  <2>3. smd'.trailers = With(smd.trailers, k, Single(v))
    BY <1>0, <1>a DEF ServerAddsTrailer, SmdShape, Single
  <2> HIDE DEF v
  <2>4. MetadataOver(smd.trailers, KindValues("t"))
    BY DEF Handles, Holds
  <2>5. Snapshot(sn, With(smd.trailers, k, Single(v)), KindValues("t"), late')
    BY <1>1, <2>1, <2>2, <2>4, SnapshotOlder
  <2> QED
    BY <2>3, <2>5
<1>b. ASSUME NEW p \in ClientProcs, NEW k \in Keys.request, ClientAdds(p, k)
      PROVE  smd'.trailers = smd.trailers
  BY <1>b DEF ClientAdds
<1>c. ASSUME NEW p \in ServerProcs, NEW k \in Keys.header, ServerAdds(p, k)
      PROVE  smd'.trailers = smd.trailers
  BY <1>0, <1>c DEF ServerAdds, SmdShape
<1> QED
  BY <1>2, <1>a, <1>b, <1>c, MetadataSteps DEF SameMetadata

(* How a goroutine moves.                                                   *)
Stays(p) == pc'[p] = pc[p] /\ snap'[p] = snap[p]
Elsewhere == {"idle", "md check", "send check", "md once", "send once", "mark", "freeze", "commit",
              "finish 1", "unary 1", "finish 5", "left"}

Moves(p) ==
  \/ Stays(p)
  \/ p = Opener /\ (OpenSnapshots \/ OpenFreezes \/ \E o : OpenBuilds(o))
  \/ p \in ServerProcs /\ (OnceSnapshots(p) \/ pc'[p] \in Elsewhere)
  \/ p = Handler /\ \/ FinishSnapshots \/ FinishFreezesTrailers \/ FinishFreezesHeaders
                    \/ UnarySnapshots \/ UnaryFreezes

(* Every goroutine moves so. *)
LEMMA MovesAre ==
  ASSUME Shape, [MetadataNext]_metadataVars, NEW p \in Procs
  PROVE  Moves(p)
<1>0. /\ DOMAIN pc = Procs /\ DOMAIN snap = Procs
      /\ Handler \in ServerProcs /\ Opener \in ClientProcs
      /\ ServerProcs \subseteq Procs /\ ClientProcs \subseteq Procs
  BY DEF Shape, Procs, ServerProcs, ClientProcs
<1>1. ASSUME NEW q \in Procs, NEW x, Goto(q, x) PROVE IF p = q THEN pc'[p] = x ELSE pc'[p] = pc[p]
  BY <1>0, <1>1 DEF Goto
<1>2. ASSUME UNCHANGED <<pc, snap>> PROVE Moves(p)
  BY <1>2 DEF Moves, Stays
<1>a. ASSUME NEW q \in ClientProcs, NEW k \in Keys.request, ClientAdds(q, k) PROVE Moves(p)
  BY <1>2, <1>a DEF ClientAdds
<1>b. ASSUME NEW q \in ServerProcs, NEW k \in Keys.header, ServerAdds(q, k) PROVE Moves(p)
  BY <1>2, <1>b DEF ServerAdds
<1>c. ASSUME NEW q \in ServerProcs, NEW k \in Keys.trailer, NEW code, ServerAddsTrailer(q, k, code)
      PROVE Moves(p)
  BY <1>2, <1>c DEF ServerAddsTrailer
<1>d. CASE OpenSnapshots
  <2>1. p # Opener => Stays(p)
    BY <1>0, <1>1, <1>d DEF OpenSnapshots, Stays
  <2> QED
    BY <1>d, <2>1 DEF Moves
<1>e. CASE OpenFreezes
  <2>1. p # Opener => Stays(p)
    BY <1>0, <1>1, <1>e DEF OpenFreezes, Stays
  <2> QED
    BY <1>e, <2>1 DEF Moves
<1>f. ASSUME NEW o, OpenBuilds(o) PROVE Moves(p)
  <2>1. p # Opener => Stays(p)
    BY <1>0, <1>1, <1>f DEF OpenBuilds, Stays
  <2> QED
    BY <1>f, <2>1 DEF Moves
<1>g. ASSUME NEW o, AcceptCall(o) PROVE Moves(p)
  BY <1>2, <1>g DEF AcceptCall
<1>h. ASSUME NEW q \in ServerProcs, MdSendHeaders(q) \/ SendWantsHeaders(q) PROVE Moves(p)
  <2>1. IF p = q THEN pc'[p] \in Elsewhere ELSE Stays(p)
    BY <1>0, <1>1, <1>h DEF MdSendHeaders, SendWantsHeaders, Stays, Elsewhere
  <2> QED
    BY <2>1 DEF Moves
<1>h1. ASSUME NEW q \in ServerProcs, CallSendHeaders(q) PROVE Moves(p)
  <2> DEFINE x == IF scall.headersSent \/ scall.finished THEN "idle"
                  ELSE IF At(q, "md check") THEN "md once" ELSE "send once"
  <2>1. x \in Elsewhere
    BY DEF Elsewhere
  <2>2. Goto(q, x) /\ snap' = snap
    BY <1>h1 DEF CallSendHeaders
  <2> HIDE DEF x
  <2> QED
    BY <1>0, <1>1, <2>1, <2>2 DEF Moves, Stays
<1>i. ASSUME NEW q \in ServerProcs, OnceSnapshots(q) PROVE Moves(p)
  <2>1. p # q => Stays(p)
    BY <1>0, <1>1, <1>i DEF OnceSnapshots, Stays
  <2> QED
    BY <1>i, <2>1 DEF Moves
<1>i1. ASSUME NEW q \in ServerProcs, OnceMarks(q) \/ MdCommits(q) PROVE Moves(p)
  <2>1. IF p = q THEN pc'[p] \in Elsewhere ELSE Stays(p)
    BY <1>0, <1>1, <1>i1 DEF OnceMarks, MdCommits, Stays, Elsewhere
  <2> QED
    BY <2>1 DEF Moves
<1>i2. ASSUME NEW q \in ServerProcs, OnceFreezes(q) \/ OnceWaited(q) PROVE Moves(p)
  <2>1. \E x \in {"commit", "idle"} : Goto(q, x)
    BY <1>i2 DEF OnceFreezes, OnceWaited
  <2>2. snap' = snap
    BY <1>i2 DEF OnceFreezes, OnceWaited
  <2> QED
    BY <1>0, <1>1, <2>1, <2>2 DEF Moves, Stays, Elsewhere
<1>l. ASSUME NEW q \in ServerProcs, NEW o, OnceWrites(q, o) PROVE Moves(p)
  <2>1. \E x \in {"mark", "idle"} : Goto(q, x)
    BY <1>l DEF OnceWrites
  <2>2. snap' = [snap EXCEPT ![q] = Nil]
    BY <1>l DEF OnceWrites
  <2> QED
    BY <1>0, <1>1, <2>1, <2>2 DEF Moves, Stays, Elsewhere
<1>m. ASSUME NEW e, FinishStarts(e) PROVE Moves(p)
  <2> DEFINE x == IF scall.sendErr THEN "left" ELSE IF IsGrpc THEN "finish 1" ELSE "unary 1"
  <2>1. x \in Elsewhere
    BY DEF Elsewhere
  <2>2. Goto(Handler, x) /\ snap' = snap
    BY <1>m DEF FinishStarts
  <2> HIDE DEF x
  <2> QED
    BY <1>0, <1>1, <2>1, <2>2 DEF Moves, Stays
<1>n. CASE FinishSnapshots
  <2>1. p # Handler => Stays(p)
    BY <1>0, <1>1, <1>n DEF FinishSnapshots, Stays
  <2> QED
    BY <1>n, <2>1 DEF Moves
<1>n1. CASE UnarySnapshots
  <2>1. p # Handler => Stays(p)
    BY <1>0, <1>1, <1>n1 DEF UnarySnapshots, Stays
  <2> QED
    BY <1>n1, <2>1 DEF Moves
<1>o. CASE FinishFreezesTrailers \/ FinishFreezesHeaders \/ UnaryFreezes
  <2>1. p # Handler => Stays(p)
    BY <1>0, <1>1, <1>o DEF FinishFreezesTrailers, FinishFreezesHeaders, UnaryFreezes, Stays
  <2> QED
    BY <1>o, <2>1 DEF Moves
<1>p. ASSUME NEW ho, NEW to, FinishWrites(ho, to) PROVE Moves(p)
  <2>1. Goto(Handler, "finish 5") /\ snap' = [snap EXCEPT ![Handler] = Nil]
    BY <1>p DEF FinishWrites
  <2> QED
    BY <1>0, <1>1, <2>1 DEF Moves, Stays, Elsewhere
<1>q. ASSUME NEW o, UnaryWrites(o) PROVE Moves(p)
  <2>1. Goto(Handler, "finish 5") /\ snap' = [snap EXCEPT ![Handler] = Nil]
    BY <1>q DEF UnaryWrites
  <2> QED
    BY <1>0, <1>1, <2>1 DEF Moves, Stays, Elsewhere
<1>r. CASE FinishMarks
  <2>1. Goto(Handler, "left") /\ snap' = snap
    BY <1>r DEF FinishMarks
  <2> QED
    BY <1>0, <1>1, <2>1 DEF Moves, Stays, Elsewhere
<1>s. CASE RecvHeaders \/ RecvFinish
  BY <1>2, <1>s DEF RecvHeaders, RecvFinish
<1>t. CASE UNCHANGED metadataVars
  BY <1>2, <1>t DEF metadataVars
<1> QED
  BY <1>a, <1>b, <1>c, <1>d, <1>e, <1>f, <1>g, <1>h, <1>h1, <1>i, <1>i1, <1>i2, <1>l, <1>m, <1>n, <1>n1, <1>o,
     <1>p, <1>q, <1>r, <1>s, <1>t DEF MetadataNext

(* What the goroutines that are about to write hold.                        *)
Snapshots ==
  /\ pc[Opener] \in {"open 2", "open 3"} => Snapshot(snap[Opener], cmd.headers, ClientValues(rq), late)
  /\ pc[Opener] \in {"open 3", "sent"} => cmd.headersFrozen
  /\ \A p \in ServerProcs : pc[p] = "write" => Snapshot(snap[p], smd.headers, KindValues("h"), late)
  /\ pc[Handler] \in {"finish 2", "finish 3", "finish 4"} =>
        Snapshot(snap[Handler], smd.trailers, KindValues("t"), late)
  /\ pc[Handler] \in {"unary 2", "unary 3"} => Snapshot(snap[Handler], smd.headers, KindValues("h"), late)

(* Snapshots holds at the start. *)
LEMMA SnapshotsInit == MetadataInit => Snapshots
<1> SUFFICES ASSUME MetadataInit PROVE Snapshots
  OBVIOUS
<1>1. \A p \in Procs : pc[p] = "idle"
  BY DEF MetadataInit
<1>2. ServerProcs \subseteq Procs /\ Handler \in Procs /\ Opener \in Procs
  BY DEF Procs, ServerProcs, ClientProcs
<1> QED
  BY <1>1, <1>2 DEF Snapshots

(* The request's headers stay frozen, and OpenCall stays done. *)
LEMMA FrozenStays ==
  ASSUME Shape, [MetadataNext]_metadataVars
  PROVE  /\ cmd.headersFrozen => cmd'.headersFrozen
         /\ pc[Opener] = "sent" => pc'[Opener] = "sent"
<1>0. CmdShape /\ Handler \in ServerProcs /\ Opener \in ClientProcs /\ Opener \in Procs /\ Opener \notin ServerProcs
  BY DEF Shape, Procs, ServerProcs, ClientProcs, Opener, Handler, Helper
<1>1. pc[Opener] = "sent" => pc'[Opener] = "sent"
  <2>1. Moves(Opener)
    BY <1>0, MovesAre
  <2> QED
    BY <1>0, <2>1 DEF Moves, Stays, OpenSnapshots, OpenFreezes, OpenBuilds, At
<1>2. ASSUME UNCHANGED cmd PROVE cmd.headersFrozen => cmd'.headersFrozen
  BY <1>2
<1>3. cmd.headersFrozen => cmd'.headersFrozen
  <2>1. ASSUME NEW p \in ClientProcs, NEW k \in Keys.request, ClientAdds(p, k) PROVE ~cmd.headersFrozen
    BY <2>1 DEF ClientAdds
  <2>2. ASSUME NEW q \in ServerProcs, NEW k \in Keys.header, ServerAdds(q, k) PROVE UNCHANGED cmd
    BY <2>2 DEF ServerAdds
  <2>3. ASSUME NEW q \in ServerProcs, NEW k \in Keys.trailer, NEW code, ServerAddsTrailer(q, k, code)
        PROVE UNCHANGED cmd
    BY <2>3 DEF ServerAddsTrailer
  <2>4. CASE OpenSnapshots \/ \E o : OpenBuilds(o)
    BY <2>4 DEF OpenSnapshots, OpenBuilds
  <2>5. CASE OpenFreezes
    BY <1>0, <2>5 DEF OpenFreezes, FrozenHeaders, CmdShape
  <2>6. ASSUME NEW o, AcceptCall(o) PROVE UNCHANGED cmd
    BY <2>6 DEF AcceptCall
  <2>7. ASSUME NEW p \in ServerProcs, MdSendHeaders(p) \/ SendWantsHeaders(p) \/ CallSendHeaders(p)
                  \/ OnceSnapshots(p) \/ OnceMarks(p) \/ OnceWaited(p) \/ OnceFreezes(p) \/ MdCommits(p)
                  \/ \E o : OnceWrites(p, o)
        PROVE UNCHANGED cmd
    BY <2>7 DEF MdSendHeaders, SendWantsHeaders, CallSendHeaders, OnceSnapshots, OnceMarks, OnceWaited, OnceFreezes,
                MdCommits, OnceWrites
  <2>8. CASE \/ \E e : FinishStarts(e)
             \/ FinishSnapshots \/ UnarySnapshots \/ FinishMarks \/ FinishFreezesTrailers \/ FinishFreezesHeaders
             \/ UnaryFreezes \/ \E ho, to : FinishWrites(ho, to)
             \/ \E o : UnaryWrites(o)
    BY <2>8 DEF FinishStarts, FinishSnapshots, UnarySnapshots, FinishMarks, FinishFreezesTrailers,
                FinishFreezesHeaders, UnaryFreezes, FinishWrites, UnaryWrites
  <2>9. CASE RecvHeaders \/ RecvFinish
    <3>1. \/ \E x : cmd' = [cmd EXCEPT !.read = x]
          \/ \E x : cmd' = [cmd EXCEPT !.inHeaders = x]
          \/ \E x, y, z : cmd' = [cmd EXCEPT !.read = x, !.inTrailers = y, !.status = z]
      BY <2>9 DEF RecvHeaders, RecvFinish
    <3> QED
      BY <1>0, <3>1 DEF CmdShape
  <2>10. CASE UNCHANGED metadataVars
    BY <2>10 DEF metadataVars
  <2> QED
    BY <1>2, <2>1, <2>2, <2>3, <2>4, <2>5, <2>6, <2>7, <2>8, <2>9, <2>10 DEF MetadataNext
<1> QED
  BY <1>1, <1>3

(* Every step preserves Snapshots. *)
LEMMA SnapshotsStep == Shape /\ Handles /\ Order /\ Snapshots /\ [MetadataNext]_metadataVars => Snapshots'
<1> SUFFICES ASSUME Shape, Handles, Order, Snapshots, [MetadataNext]_metadataVars PROVE Snapshots'
  OBVIOUS
<1>0. /\ CmdShape /\ SmdShape /\ DOMAIN snap = Procs /\ DOMAIN pc = Procs
      /\ Handler \in ServerProcs /\ Opener \in ClientProcs /\ Opener \notin ServerProcs /\ Handler # Opener
      /\ ServerProcs \subseteq Procs /\ ClientProcs \subseteq Procs
  BY DEF Shape, Procs, ServerProcs, ClientProcs, Opener, Handler, Helper
<1>1. rq' = rq /\ late \subseteq late'
  BY GrowsStep DEF Grows
<1>2. ClientValues(rq)' = ClientValues(rq)
  BY <1>1 DEF ClientValues, PresetValues
<1>3. /\ MetadataOver(cmd.headers, ClientValues(rq)) /\ MetadataOver(smd.headers, KindValues("h"))
      /\ MetadataOver(smd.trailers, KindValues("t"))
  BY DEF Handles, Holds
<1>4. Moves(Opener) /\ \A p \in ServerProcs : Moves(p)
  BY <1>0, MovesAre
<1>a. pc'[Opener] \in {"open 2", "open 3"} => Snapshot(snap'[Opener], cmd'.headers, ClientValues(rq)', late')
  <2> SUFFICES ASSUME pc'[Opener] \in {"open 2", "open 3"}
               PROVE  Snapshot(snap'[Opener], cmd'.headers, ClientValues(rq), late')
    BY <1>2
  <2>1. CASE OpenSnapshots
    <3>1. snap'[Opener] = cmd.headers /\ cmd' = cmd
      BY <1>0, <2>1 DEF OpenSnapshots
    <3> QED
      BY <1>3, <3>1, SnapshotSelf
  <2>2. CASE (Stays(Opener) \/ OpenFreezes) /\ ~OpenSnapshots
    <3>1. snap'[Opener] = snap[Opener] /\ pc[Opener] \in {"open 2", "open 3"}
      BY <1>0, <2>2 DEF Stays, OpenFreezes, At
    <3>2. SnapshotOut(ClientProcs, HeadersOut) \/ cmd.headersFrozen
      BY <1>0, <3>1 DEF SnapshotOut, HeadersOut, Snapshots
    <3>3. Snapshot(snap[Opener], cmd.headers, ClientValues(rq), late)
      BY <3>1 DEF Snapshots
    <3> QED
      BY <3>1, <3>2, <3>3, RequestKeeps
  <2>3. CASE \E o : OpenBuilds(o)
    BY <1>0, <2>3 DEF OpenBuilds, Goto
  <2> QED
    BY <1>0, <1>4, <2>1, <2>2, <2>3 DEF Moves
<1>b. pc'[Opener] \in {"open 3", "sent"} => cmd'.headersFrozen
  <2>1. CASE OpenSnapshots
    BY <1>0, <2>1 DEF OpenSnapshots, Goto
  <2>2. CASE OpenFreezes
    BY <1>0, <2>2 DEF OpenFreezes, FrozenHeaders, CmdShape
  <2>3. CASE Stays(Opener)
    BY <2>3, FrozenStays DEF Stays, Snapshots
  <2>4. CASE \E o : OpenBuilds(o)
    <3>1. pc[Opener] = "open 3"
      BY <2>4 DEF OpenBuilds, At
    <3> QED
      BY <3>1, FrozenStays DEF Snapshots
  <2> QED
    BY <1>0, <1>4, <2>1, <2>2, <2>3, <2>4 DEF Moves
<1>c. ASSUME NEW p \in ServerProcs, pc'[p] = "write"
      PROVE  Snapshot(snap'[p], smd'.headers, KindValues("h"), late')
  <2>1. CASE OnceSnapshots(p)
    <3>1. snap'[p] = smd.headers /\ smd' = smd
      BY <1>0, <2>1 DEF OnceSnapshots
    <3> QED
      BY <1>3, <3>1, SnapshotSelf
  <2>2. CASE Stays(p)
    <3>1. snap'[p] = snap[p] /\ pc[p] = "write"
      BY <1>c, <2>2 DEF Stays
    <3>2. SnapshotOut(ServerProcs, HeadersOut)
      BY <1>0, <3>1 DEF SnapshotOut, HeadersOut
    <3>3. Snapshot(snap[p], smd.headers, KindValues("h"), late)
      BY <3>1 DEF Snapshots
    <3> QED
      BY <3>1, <3>2, <3>3, HeadersKeep
  <2>3. pc'[p] \notin Elsewhere
    BY <1>c DEF Elsewhere
  <2>4. ASSUME p = Handler, FinishSnapshots \/ FinishFreezesTrailers \/ FinishFreezesHeaders
                    \/ UnarySnapshots \/ UnaryFreezes
        PROVE FALSE
    BY <1>0, <1>c, <2>4 DEF FinishSnapshots, FinishFreezesTrailers, FinishFreezesHeaders, UnarySnapshots,
                            UnaryFreezes, Goto
  <2> QED
    BY <1>0, <1>4, <2>1, <2>2, <2>3, <2>4 DEF Moves
<1>5. ASSUME pc'[Handler] \notin Elsewhere, pc'[Handler] # "write"
      PROVE  \/ Stays(Handler) \/ FinishSnapshots \/ FinishFreezesTrailers \/ FinishFreezesHeaders
             \/ UnarySnapshots \/ UnaryFreezes
  <2>1. ~OnceSnapshots(Handler)
    BY <1>0, <1>5 DEF OnceSnapshots, Goto
  <2> QED
    BY <1>0, <1>4, <1>5, <2>1 DEF Moves
<1>d. ASSUME pc'[Handler] \in {"finish 2", "finish 3", "finish 4"}
      PROVE  Snapshot(snap'[Handler], smd'.trailers, KindValues("t"), late')
  <2>0. pc'[Handler] \notin Elsewhere /\ pc'[Handler] # "write"
    BY <1>d DEF Elsewhere
  <2>1. CASE FinishSnapshots
    <3>1. snap'[Handler] = smd.trailers /\ smd' = smd
      BY <1>0, <2>1 DEF FinishSnapshots
    <3> QED
      BY <1>3, <3>1, SnapshotSelf
  <2>2. CASE Stays(Handler) \/ FinishFreezesTrailers \/ FinishFreezesHeaders
    <3>1. snap'[Handler] = snap[Handler] /\ pc[Handler] \in {"finish 2", "finish 3", "finish 4"}
      BY <1>d, <2>2 DEF Stays, FinishFreezesTrailers, FinishFreezesHeaders, At
    <3>2. SnapshotOut(ServerProcs, TrailersOut) \/ smd.trailersFrozen
      BY <1>0, <3>1 DEF SnapshotOut, TrailersOut, Order
    <3>3. Snapshot(snap[Handler], smd.trailers, KindValues("t"), late)
      BY <3>1 DEF Snapshots
    <3> QED
      BY <3>1, <3>2, <3>3, TrailersKeep
  <2>3. CASE UnarySnapshots \/ UnaryFreezes
    BY <1>0, <1>d, <2>3 DEF UnarySnapshots, UnaryFreezes, Goto
  <2> QED
    BY <1>5, <2>0, <2>1, <2>2, <2>3
<1>e. ASSUME pc'[Handler] \in {"unary 2", "unary 3"}
      PROVE  Snapshot(snap'[Handler], smd'.headers, KindValues("h"), late')
  <2>0. pc'[Handler] \notin Elsewhere /\ pc'[Handler] # "write"
    BY <1>e DEF Elsewhere
  <2>1. CASE UnarySnapshots
    <3>1. snap'[Handler] = smd.headers /\ smd' = smd
      BY <1>0, <2>1 DEF UnarySnapshots
    <3> QED
      BY <1>3, <3>1, SnapshotSelf
  <2>2. CASE Stays(Handler) \/ UnaryFreezes
    <3>1. snap'[Handler] = snap[Handler] /\ pc[Handler] \in {"unary 2", "unary 3"}
      BY <1>e, <2>2 DEF Stays, UnaryFreezes, At
    <3>2. SnapshotOut(ServerProcs, HeadersOut) \/ smd.headersFrozen
      BY <1>0, <3>1 DEF SnapshotOut, HeadersOut, Order
    <3>3. Snapshot(snap[Handler], smd.headers, KindValues("h"), late)
      BY <3>1 DEF Snapshots
    <3> QED
      BY <3>1, <3>2, <3>3, HeadersKeep
  <2>3. CASE FinishSnapshots \/ FinishFreezesTrailers \/ FinishFreezesHeaders
    BY <1>0, <1>e, <2>3 DEF FinishSnapshots, FinishFreezesTrailers, FinishFreezesHeaders, Goto
  <2> QED
    BY <1>5, <2>0, <2>1, <2>2, <2>3
<1> QED
  BY <1>a, <1>b, <1>c, <1>d, <1>e DEF Snapshots

(***************************************************************************)
(* ... the response on the wire                                            *)
(***************************************************************************)

(* What is on the wire of the server's metadata, up to what is late.        *)
HeadersSay(axis, hs, md, lt) ==
  \E sn : Snapshot(sn, md, KindValues("h"), lt) /\ Carries(axis, DecodeMetadata(axis, hs), sn, "h")

BothSay(hs, ts, md, lt) ==
  \E sn : /\ Snapshot(sn, md, KindValues("t"), lt)
          /\ Carries("grpc", Merged(DecodeMetadata("grpc", ts), DecodeMetadata("grpc", hs)), sn, "t")

Response ==
  /\ resp.sent => HeadersSay(rq.axis, resp.headers, smd.headers, late)
  /\ resp.sent /\ ~resp.ended =>
        Reads("grpc", resp.headers, ResponseValues) /\ Quiet("grpc", resp.headers, "t")
  /\ resp.ended /\ IsGrpc =>
        /\ BothSay(resp.headers, resp.trailers, smd.trailers, late)
        /\ StatusIs(resp.headers, resp.trailers, smd.headers, smd.trailers, scall.error)

(* Response holds at the start. *)
LEMMA ResponseInit == MetadataInit => Response
BY DEF MetadataInit, Response

(* The steps that write the response. *)
LEMMA ResponseSteps ==
  ASSUME [MetadataNext]_metadataVars
  PROVE  \/ resp' = resp
         \/ \E p \in ServerProcs : pc[p] = "write" /\ \E o \in Orders(snap[p]) : OnceWrites(p, o)
         \/ \E ho \in Orders(smd.headers), to \in Orders(snap[Handler]) : FinishWrites(ho, to)
         \/ \E o \in Orders(snap[Handler]) : UnaryWrites(o)
<1>1. ASSUME NEW p, NEW k, NEW code, ClientAdds(p, k) \/ ServerAdds(p, k) \/ ServerAddsTrailer(p, k, code)
      PROVE resp' = resp
  BY <1>1 DEF ClientAdds, ServerAdds, ServerAddsTrailer
<1>2. CASE OpenSnapshots \/ OpenFreezes \/ (\E o : OpenBuilds(o)) \/ \E o : AcceptCall(o)
  BY <1>2 DEF OpenSnapshots, OpenFreezes, OpenBuilds, AcceptCall
<1>3. ASSUME NEW p, MdSendHeaders(p) \/ SendWantsHeaders(p) \/ CallSendHeaders(p)
                  \/ OnceSnapshots(p) \/ OnceMarks(p) \/ OnceWaited(p) \/ OnceFreezes(p) \/ MdCommits(p)
      PROVE resp' = resp
  BY <1>3 DEF MdSendHeaders, SendWantsHeaders, CallSendHeaders, OnceSnapshots, OnceMarks, OnceWaited, OnceFreezes,
              MdCommits
<1>4. CASE \/ \E e : FinishStarts(e)
           \/ FinishSnapshots \/ UnarySnapshots \/ FinishMarks \/ FinishFreezesTrailers \/ FinishFreezesHeaders
           \/ UnaryFreezes
  BY <1>4 DEF FinishStarts, FinishSnapshots, UnarySnapshots, FinishMarks, FinishFreezesTrailers,
              FinishFreezesHeaders, UnaryFreezes
<1>5. CASE RecvHeaders \/ RecvFinish \/ UNCHANGED metadataVars
  BY <1>5 DEF RecvHeaders, RecvFinish, metadataVars
<1> QED
  BY <1>1, <1>2, <1>3, <1>4, <1>5 DEF MetadataNext, At

(* A handle that is frozen does not change, nor the error that ended it.    *)
LEMMA FrozenKeeps ==
  ASSUME Shape, [MetadataNext]_metadataVars
  PROVE  /\ cmd.headersFrozen => cmd'.headers = cmd.headers
         /\ smd.headersFrozen => smd'.headers = smd.headers
         /\ smd.trailersFrozen => smd'.trailers = smd.trailers
<1>0. CmdShape /\ SmdShape
  BY DEF Shape
<1>1. ASSUME NEW p, NEW k, ClientAdds(p, k) PROVE ~cmd.headersFrozen /\ smd' = smd
  BY <1>1 DEF ClientAdds
<1>2. ASSUME NEW p, NEW k, ServerAdds(p, k)
      PROVE ~smd.headersFrozen /\ cmd' = cmd /\ smd'.trailers = smd.trailers
  BY <1>0, <1>2 DEF ServerAdds, SmdShape
<1>3. ASSUME NEW p, NEW k, NEW code, ServerAddsTrailer(p, k, code)
      PROVE ~smd.trailersFrozen /\ cmd' = cmd /\ smd'.headers = smd.headers
  BY <1>0, <1>3 DEF ServerAddsTrailer, SmdShape
<1> QED
  BY <1>1, <1>2, <1>3, MetadataSteps DEF SameMetadata

(* The handler's error does not change behind the response. *)
LEMMA ErrorStays ==
  ASSUME Shape, Order, [MetadataNext]_metadataVars, resp.ended
  PROVE  scall'.error = scall.error
<1>0. ScallShape /\ pc[Handler] \in {"finish 5", "left"}
  BY DEF Shape, Order
<1>1. ASSUME NEW p, NEW k, NEW code, ClientAdds(p, k) \/ ServerAdds(p, k) \/ ServerAddsTrailer(p, k, code)
      PROVE scall' = scall
  BY <1>1 DEF ClientAdds, ServerAdds, ServerAddsTrailer
<1>2. CASE OpenSnapshots \/ OpenFreezes \/ (\E o : OpenBuilds(o)) \/ \E o : AcceptCall(o)
  BY <1>2 DEF OpenSnapshots, OpenFreezes, OpenBuilds, AcceptCall
<1>3. ASSUME NEW p, MdSendHeaders(p) \/ SendWantsHeaders(p) \/ CallSendHeaders(p) \/ MdCommits(p)
      PROVE scall' = scall
  BY <1>3 DEF MdSendHeaders, SendWantsHeaders, CallSendHeaders, MdCommits
<1>4. ASSUME NEW p, OnceSnapshots(p) \/ OnceMarks(p) \/ OnceWaited(p) \/ OnceFreezes(p)
                    \/ \E o : OnceWrites(p, o)
      PROVE scall'.error = scall.error
  BY <1>0, <1>4 DEF OnceSnapshots, OnceMarks, OnceWaited, OnceFreezes, OnceWrites, ScallShape
<1>5. ASSUME NEW e, FinishStarts(e) PROVE FALSE
  BY <1>0, <1>5 DEF FinishStarts, At
<1>6. CASE \/ FinishSnapshots \/ UnarySnapshots \/ FinishFreezesTrailers \/ FinishFreezesHeaders
           \/ UnaryFreezes \/ (\E ho, to : FinishWrites(ho, to)) \/ \E o : UnaryWrites(o)
  BY <1>6 DEF FinishSnapshots, UnarySnapshots, FinishFreezesTrailers,
              FinishFreezesHeaders, UnaryFreezes, FinishWrites, UnaryWrites
<1>7. CASE FinishMarks
  BY <1>0, <1>7 DEF FinishMarks, ScallShape
<1>8. CASE RecvHeaders \/ RecvFinish \/ UNCHANGED metadataVars
  BY <1>8 DEF RecvHeaders, RecvFinish, metadataVars
<1> QED
  BY <1>1, <1>2, <1>3, <1>4, <1>5, <1>6, <1>7, <1>8 DEF MetadataNext

(* A snapshot is metadata over the same values and keys. *)
LEMMA SnapshotOver ==
  ASSUME NEW sn, NEW md, NEW V, NEW lt, NEW ps, NEW kind, NEW ad, Holds(md, V, ps, kind, ad), Snapshot(sn, md, V, lt)
  PROVE  MetadataOver(sn, V) /\ IsFiniteSet(DOMAIN sn) /\ DOMAIN sn \subseteq DOMAIN md
BY FS_Subset DEF Holds, Snapshot

(* ... and has no value that the handle has not. *)
LEMMA SnapshotWithin ==
  ASSUME NEW sn, NEW md, NEW V, NEW lt, Snapshot(sn, md, V, lt), MetadataOver(md, V)
  PROVE  /\ \A k \in DOMAIN sn : k \in DOMAIN md /\ ToSet(sn[k]) \subseteq ToSet(md[k])
         /\ GivenOf(sn) \subseteq GivenOf(md)
<1>1. ASSUME NEW k \in DOMAIN sn PROVE k \in DOMAIN md /\ ToSet(sn[k]) \subseteq ToSet(md[k])
  <2>1. k \in DOMAIN md /\ sn[k] \in Seq(V) /\ md[k] \in Seq(V) /\ IsPrefix(sn[k], md[k])
    BY DEF Snapshot, MetadataOver, Values
  <2> QED
    BY <2>1, PrefixRange
<1> QED
  BY <1>1, EmptyRange DEF GivenOf, Values

(* Every step preserves Response. *)
LEMMA ResponseStep ==
  Shape /\ Handles /\ Order /\ Snapshots /\ Response /\ [MetadataNext]_metadataVars => Response'
<1> SUFFICES ASSUME Shape, Handles, Order, Snapshots, Response, [MetadataNext]_metadataVars PROVE Response'
  OBVIOUS
<1>0. /\ CmdShape /\ SmdShape /\ ScallShape /\ RespShape /\ Handler \in ServerProcs
      /\ resp.sent \in BOOLEAN /\ resp.ended \in BOOLEAN
  BY DEF Shape, ServerProcs
<1>1. rq' = rq /\ IsGrpc' = IsGrpc
  BY GrowsStep DEF Grows, IsGrpc
<1>2. /\ Holds(smd.headers, KindValues("h"), ServerProcs, "h", added)
      /\ Holds(smd.trailers, KindValues("t"), ServerProcs, "t", added)
  BY DEF Handles
<1>3. ASSUME resp.sent, resp'.headers = resp.headers PROVE HeadersSay(rq.axis, resp'.headers, smd'.headers, late')
  <2>1. PICK sn : Snapshot(sn, smd.headers, KindValues("h"), late)
                  /\ Carries(rq.axis, DecodeMetadata(rq.axis, resp.headers), sn, "h")
    BY <1>3 DEF Response, HeadersSay
  <2>2. SnapshotOut(ServerProcs, HeadersOut) \/ smd.headersFrozen
    BY <1>3 DEF Order, Marking, SnapshotOut, HeadersOut
  <2>3. Snapshot(sn, smd'.headers, KindValues("h"), late')
    BY <2>1, <2>2, HeadersKeep
  <2> QED
    BY <1>3, <2>1, <2>3 DEF HeadersSay
<1>a. CASE resp' = resp
  <2>1. resp.sent => HeadersSay(rq.axis, resp.headers, smd'.headers, late')
    BY <1>3, <1>a
  <2>2. ASSUME resp.ended, IsGrpc
        PROVE  /\ BothSay(resp.headers, resp.trailers, smd'.trailers, late')
               /\ StatusIs(resp.headers, resp.trailers, smd'.headers, smd'.trailers, scall'.error)
    <3>1. PICK sn : /\ Snapshot(sn, smd.trailers, KindValues("t"), late)
                    /\ Carries("grpc", Merged(DecodeMetadata("grpc", resp.trailers), DecodeMetadata("grpc", resp.headers)), sn, "t")
      BY <2>2 DEF Response, BothSay
    <3>2. smd.headersFrozen /\ smd.trailersFrozen
      BY <2>2 DEF Order
    <3>3. Snapshot(sn, smd'.trailers, KindValues("t"), late')
      BY <3>1, <3>2, TrailersKeep
    <3>4. smd'.headers = smd.headers /\ smd'.trailers = smd.trailers /\ scall'.error = scall.error
      BY <2>2, <3>2, FrozenKeeps, ErrorStays
    <3> QED
      BY <2>2, <3>1, <3>3, <3>4 DEF Response, BothSay
  <2> QED
    BY <1>1, <1>a, <2>1, <2>2 DEF Response
<1>b. ASSUME NEW p \in ServerProcs, pc[p] = "write", NEW o \in Orders(snap[p]), OnceWrites(p, o)
      PROVE  Response'
  <2>1. CASE resp.sent
    BY <1>a, <1>b, <2>1 DEF OnceWrites
  <2>2. CASE ~resp.sent
    <3> DEFINE sn == snap[p]
               hs == ResponseHeaders(sn, o)
    <3>1. /\ resp'.sent /\ resp'.headers = hs /\ resp'.ended = resp.ended /\ smd' = smd /\ late' = late
          /\ ~resp.ended
      BY <1>0, <1>b, <2>2 DEF OnceWrites, RespShape, Order
    <3>2. IsGrpc
      BY <1>b DEF Order, SendPlaces
    <3>3. Snapshot(sn, smd.headers, KindValues("h"), late)
      BY <1>b DEF Snapshots
    <3>4. MetadataOver(sn, KindValues("h")) /\ IsFiniteSet(DOMAIN sn)
      BY <1>2, <3>3, SnapshotOver
    <3> HIDE DEF sn
    <3>5. o \in Orders(sn)
      BY <1>b DEF sn
    <3>6. /\ Reads("grpc", hs, ResponseValues) /\ Quiet("grpc", hs, "t")
          /\ Carries("grpc", DecodeMetadata("grpc", hs), sn, "h")
      BY <3>4, <3>5, ResponseSays
    <3> HIDE DEF hs
    <3>7. HeadersSay("grpc", hs, smd.headers, late)
      BY <3>3, <3>6 DEF HeadersSay
    <3> QED
      BY <1>1, <3>1, <3>2, <3>6, <3>7 DEF Response, IsGrpc
  <2> QED
    BY <1>0, <2>1, <2>2
<1>c. ASSUME NEW ho \in Orders(smd.headers), NEW to \in Orders(snap[Handler]), FinishWrites(ho, to)
      PROVE  Response'
  <2> DEFINE sn == snap[Handler]
             ts == EncodeStatusTrailers(scall.error, sn, to)
  <2>1. pc[Handler] = "finish 4" /\ smd' = smd /\ late' = late /\ scall' = scall
    BY <1>c DEF FinishWrites, At
  <2>2. IsGrpc /\ scall.error \in Errors /\ (~scall.initial => resp.sent) /\ ~resp.ended
    BY <2>1 DEF Order
  <2>3. Snapshot(sn, smd.trailers, KindValues("t"), late)
    BY <2>1 DEF Snapshots
  <2>4. MetadataOver(sn, KindValues("t")) /\ IsFiniteSet(DOMAIN sn) /\ GivenOf(sn) \subseteq GivenOf(smd.trailers)
    <3>1. MetadataOver(smd.trailers, KindValues("t"))
      BY <1>2 DEF Holds
    <3> QED
      BY <1>2, <2>3, <3>1, SnapshotOver, SnapshotWithin
  <2>5. resp' = IF ~resp.sent
                THEN [sent |-> TRUE, headers |-> (IF scall.initial THEN ResponseHeaders(smd.headers, ho) ELSE <<>>) \o ts,
                      trailers |-> <<>>, ended |-> TRUE]
                ELSE [resp EXCEPT !.trailers = ts, !.ended = TRUE]
    BY <1>c DEF FinishWrites
  <2> HIDE DEF sn
  <2>6. to \in Orders(sn)
    BY <1>c DEF sn
  <2>7. /\ Reads("grpc", ts, ResponseValues) /\ Quiet("grpc", ts, "h")
        /\ Carries("grpc", DecodeMetadata("grpc", ts), sn, "t")
        /\ Ends(ts, sn, scall.error)
    BY <2>2, <2>4, <2>6, TrailersSay
  <2> HIDE DEF ts
  <2>8. PICK enc : /\ enc \in Seq(ToSet(enc)) /\ Bare(enc, sn) /\ ts = enc \o StatusHeaders(scall.error)
    BY <2>7 DEF Ends
  <2>a. CASE resp.sent
    <3>1. resp'.sent /\ resp'.headers = resp.headers /\ resp'.trailers = ts /\ resp'.ended
      BY <1>0, <2>5, <2>a DEF RespShape
    <3>2. HeadersSay(rq.axis, resp'.headers, smd'.headers, late')
      BY <1>3, <2>a, <3>1
    <3>3. Reads("grpc", resp.headers, ResponseValues) /\ Quiet("grpc", resp.headers, "t")
      BY <2>2, <2>a DEF Response
    <3>4. Carries("grpc", Merged(DecodeMetadata("grpc", ts), DecodeMetadata("grpc", resp.headers)), sn, "t")
      BY <2>7, <3>3, MergedCarries
    <3>5. BothSay(resp.headers, ts, smd.trailers, late)
      BY <2>3, <3>4 DEF BothSay
    <3>6. StatusIs(resp.headers, ts, smd.headers, smd.trailers, scall.error)
      BY <2>2, <2>4, <2>8, StatusAfterHeaders
    <3> QED
      BY <1>1, <2>1, <3>1, <3>2, <3>5, <3>6 DEF Response
  <2>b. CASE ~resp.sent
    <3> DEFINE own == ResponseHeaders(smd.headers, ho)
               hs == own \o ts
    <3>0. scall.initial
      BY <2>2, <2>b
    <3>1. resp'.sent /\ resp'.headers = hs /\ resp'.trailers = <<>> /\ resp'.ended
      BY <2>5, <2>b, <3>0
    <3>2. MetadataOver(smd.headers, KindValues("h")) /\ IsFiniteSet(DOMAIN smd.headers)
      BY <1>2 DEF Holds
    <3>3. /\ Reads("grpc", own, ResponseValues) /\ Quiet("grpc", own, "t")
          /\ Carries("grpc", DecodeMetadata("grpc", own), smd.headers, "h")
          /\ Bare(own, smd.headers)
      BY <3>2, ResponseSays
    <3> HIDE DEF own
    <3>4. Carries("grpc", DecodeMetadata("grpc", hs), smd.headers, "h")
      BY <2>7, <3>3, CarriesBefore
    <3>5. Carries("grpc", DecodeMetadata("grpc", hs), sn, "t")
      BY <2>7, <3>3, CarriesAfter
    <3>6. StatusIs(hs, <<>>, smd.headers, smd.trailers, scall.error)
      <4>1. own \in Seq(ToSet(own))
        BY <3>3 DEF Reads
      <4>2. hs = own \o (enc \o StatusHeaders(scall.error))
        BY <2>8
      <4> HIDE DEF hs
      <4> QED
        BY <2>2, <2>4, <2>8, <3>3, <4>1, <4>2, StatusInHeaders
    <3> HIDE DEF hs
    <3>7. Snapshot(smd.headers, smd.headers, KindValues("h"), late)
      BY <3>2, SnapshotSelf
    <3>8. HeadersSay("grpc", hs, smd.headers, late)
      BY <3>4, <3>7 DEF HeadersSay
    <3>9. BothSay(hs, <<>>, smd.trailers, late)
      <4>1. Carries("grpc", Merged(DecodeMetadata("grpc", <<>>), DecodeMetadata("grpc", hs)), sn, "t")
        BY <3>5, MergedNone
      <4> QED
        BY <2>3, <4>1 DEF BothSay
    <3> QED
      BY <1>1, <2>1, <2>2, <3>1, <3>6, <3>8, <3>9 DEF Response, IsGrpc
  <2> QED
    BY <1>0, <2>a, <2>b
<1>d. ASSUME NEW o \in Orders(snap[Handler]), UnaryWrites(o) PROVE Response'
  <2> DEFINE sn == snap[Handler]
             V == KindValues("h")
             hs == EncodeMetadata(rq.axis, sn, o)
  <2>1. pc[Handler] = "unary 3" /\ smd'.headers = smd.headers /\ late' = late
    BY <1>0, <1>d DEF UnaryWrites, FrozenTrailers, At, SmdShape
  <2>2. resp'.sent /\ resp'.ended /\ resp'.headers = hs
    BY <1>d DEF UnaryWrites, UnaryHeaders
  <2>3. ~IsGrpc
    BY <2>1 DEF Order
  <2>4. Snapshot(sn, smd.headers, V, late)
    BY <2>1 DEF Snapshots
  <2>5. MetadataOver(sn, V) /\ IsFiniteSet(DOMAIN sn)
    BY <1>2, <2>4, SnapshotOver
  <2>6. Malformed \notin V
    BY ErrorAssumption DEF KindValues
  <2> HIDE DEF V, sn
  <2>7. o \in Orders(sn)
    BY <1>d DEF sn
  <2>8. Carries(rq.axis, DecodeMetadata(rq.axis, hs), sn, "h")
    BY <2>5, <2>6, <2>7, EncodedSays
  <2> HIDE DEF hs
  <2>9. HeadersSay(rq.axis, hs, smd.headers, late)
    BY <2>4, <2>8 DEF HeadersSay, V
  <2> QED
    BY <1>1, <2>1, <2>2, <2>3, <2>9 DEF Response
<1> QED
  BY <1>a, <1>b, <1>c, <1>d, ResponseSteps

(***************************************************************************)
(* ... what the client has read                                            *)
(***************************************************************************)

(* What the client has read of the response.                                *)
Reading ==
  /\ cmd.inHeaders # Nil => resp.sent /\ cmd.inHeaders = DecodeMetadata(rq.axis, resp.headers)
  /\ cmd.inTrailers # Nil =>
        /\ IsGrpc /\ resp.ended
        /\ cmd.inTrailers = Merged(DecodeMetadata("grpc", resp.trailers), DecodeMetadata("grpc", resp.headers))
  /\ cmd.read = "status" =>
        IsGrpc /\ resp.ended /\ cmd.status = ResolveCallStatus(resp.headers, resp.trailers)

(* Reading holds at the start. *)
LEMMA ReadingInit == MetadataInit => Reading
BY DEF MetadataInit, Reading

SameReading ==
  cmd'.inHeaders = cmd.inHeaders /\ cmd'.inTrailers = cmd.inTrailers /\ cmd'.read = cmd.read
  /\ cmd'.status = cmd.status

(* The steps of the client's Recv, and the others. *)
LEMMA ReadingSteps ==
  ASSUME Shape, [MetadataNext]_metadataVars
  PROVE  RecvHeaders \/ RecvFinish \/ SameReading
<1>0. CmdShape
  BY DEF Shape
<1>1. ASSUME UNCHANGED cmd PROVE SameReading
  BY <1>1 DEF SameReading
<1>2. ASSUME NEW p, NEW k, ClientAdds(p, k) PROVE SameReading
  BY <1>0, <1>2 DEF ClientAdds, CmdShape, SameReading
<1>3. ASSUME NEW p, NEW k, NEW code, ServerAdds(p, k) \/ ServerAddsTrailer(p, k, code) PROVE UNCHANGED cmd
  BY <1>3 DEF ServerAdds, ServerAddsTrailer
<1>4. CASE OpenFreezes
  BY <1>0, <1>4 DEF OpenFreezes, FrozenHeaders, CmdShape, SameReading
<1>5. CASE OpenSnapshots \/ (\E o : OpenBuilds(o)) \/ \E o : AcceptCall(o)
  BY <1>1, <1>5 DEF OpenSnapshots, OpenBuilds, AcceptCall
<1>6. ASSUME NEW p, MdSendHeaders(p) \/ SendWantsHeaders(p) \/ CallSendHeaders(p)
                  \/ OnceSnapshots(p) \/ OnceMarks(p) \/ OnceWaited(p) \/ OnceFreezes(p) \/ MdCommits(p)
                  \/ \E o : OnceWrites(p, o)
      PROVE UNCHANGED cmd
  BY <1>6 DEF MdSendHeaders, SendWantsHeaders, CallSendHeaders, OnceSnapshots, OnceMarks, OnceWaited, OnceFreezes,
              MdCommits, OnceWrites
<1>7. CASE \/ \E e : FinishStarts(e)
           \/ FinishSnapshots \/ UnarySnapshots \/ FinishMarks \/ FinishFreezesTrailers \/ FinishFreezesHeaders
           \/ UnaryFreezes \/ (\E ho, to : FinishWrites(ho, to)) \/ \E o : UnaryWrites(o)
  BY <1>1, <1>7 DEF FinishStarts, FinishSnapshots, UnarySnapshots, FinishMarks, FinishFreezesTrailers,
              FinishFreezesHeaders, UnaryFreezes, FinishWrites, UnaryWrites
<1>8. CASE UNCHANGED metadataVars
  BY <1>1, <1>8 DEF metadataVars
<1> QED
  BY <1>1, <1>2, <1>3, <1>4, <1>5, <1>6, <1>7, <1>8 DEF MetadataNext

(* The headers of a response, and all of one that has ended, stay.          *)
LEMMA ResponseStays ==
  ASSUME Shape, Order, [MetadataNext]_metadataVars
  PROVE  /\ resp.sent => resp'.sent /\ resp'.headers = resp.headers
         /\ resp.ended => resp' = resp
<1>0. RespShape /\ (resp.ended => resp.sent /\ pc[Handler] \in {"finish 5", "left"})
  BY DEF Shape, Order
<1>1. ASSUME NEW p, NEW o, OnceWrites(p, o), resp.sent PROVE resp' = resp
  BY <1>1 DEF OnceWrites
<1>2. ASSUME NEW ho, NEW to, FinishWrites(ho, to)
      PROVE  ~resp.ended /\ (resp.sent => resp'.sent /\ resp'.headers = resp.headers)
  BY <1>0, <1>2 DEF FinishWrites, At, RespShape
<1>3. ASSUME NEW o, UnaryWrites(o) PROVE ~resp.ended /\ ~resp.sent
  <2>1. pc[Handler] = "unary 3"
    BY <1>3 DEF UnaryWrites, At
  <2> QED
    BY <1>0, <2>1 DEF Order
<1> QED
  BY <1>0, <1>1, <1>2, <1>3, ResponseSteps

(* Every step preserves Reading. *)
LEMMA ReadingStep ==
  Shape /\ Order /\ Response /\ Reading /\ [MetadataNext]_metadataVars => Reading'
<1> SUFFICES ASSUME Shape, Order, Response, Reading, [MetadataNext]_metadataVars PROVE Reading'
  OBVIOUS
<1>0. CmdShape
  BY DEF Shape
<1>1. rq' = rq /\ IsGrpc' = IsGrpc
  BY GrowsStep DEF Grows, IsGrpc
<1>2. /\ resp.sent => resp'.sent /\ resp'.headers = resp.headers
      /\ resp.ended => resp' = resp
  BY ResponseStays
<1>3. CASE SameReading
  BY <1>1, <1>2, <1>3 DEF SameReading, Reading
<1>4. CASE RecvHeaders
  <2>1. resp.sent /\ resp' = resp
    BY <1>4 DEF RecvHeaders
  <2>2. \/ cmd' = [cmd EXCEPT !.read = "limit"]
        \/ cmd' = [cmd EXCEPT !.inHeaders = DecodeMetadata(rq.axis, resp.headers)]
    BY <1>4 DEF RecvHeaders
  <2>3. CASE cmd' = [cmd EXCEPT !.read = "limit"]
    <3>1. cmd'.read = "limit" /\ cmd'.inHeaders = cmd.inHeaders /\ cmd'.inTrailers = cmd.inTrailers
      BY <1>0, <2>3 DEF CmdShape
    <3> QED
      BY <1>1, <2>1, <3>1 DEF Reading
  <2>4. CASE cmd' = [cmd EXCEPT !.inHeaders = DecodeMetadata(rq.axis, resp.headers)]
    <3>1. /\ cmd'.inHeaders = DecodeMetadata(rq.axis, resp.headers)
          /\ cmd'.read = cmd.read /\ cmd'.status = cmd.status /\ cmd'.inTrailers = cmd.inTrailers
      BY <1>0, <2>4 DEF CmdShape
    <3> QED
      BY <1>1, <2>1, <3>1 DEF Reading
  <2> QED
    BY <2>2, <2>3, <2>4
<1>5. CASE RecvFinish
  <2> DEFINE m == Merged(DecodeMetadata("grpc", resp.trailers), DecodeMetadata("grpc", resp.headers))
             s == ResolveCallStatus(resp.headers, resp.trailers)
  <2>1. resp.ended /\ resp' = resp /\ IsGrpc
    BY <1>5 DEF RecvFinish
  <2>2. \/ cmd' = [cmd EXCEPT !.read = "limit"]
        \/ cmd' = [cmd EXCEPT !.read = "status", !.inTrailers = m, !.status = s]
    BY <1>5 DEF RecvFinish
  <2>3. CASE cmd' = [cmd EXCEPT !.read = "limit"]
    <3>1. cmd'.read = "limit" /\ cmd'.inHeaders = cmd.inHeaders /\ cmd'.inTrailers = cmd.inTrailers
      BY <1>0, <2>3 DEF CmdShape
    <3> QED
      BY <1>1, <2>1, <3>1 DEF Reading
  <2>4. CASE cmd' = [cmd EXCEPT !.read = "status", !.inTrailers = m, !.status = s]
    <3>1. /\ cmd'.inTrailers = m /\ cmd'.status = s
          /\ cmd'.inHeaders = cmd.inHeaders
      BY <1>0, <2>4 DEF CmdShape
    <3> QED
      BY <1>1, <2>1, <3>1 DEF Reading
  <2> QED
    BY <2>2, <2>3, <2>4
<1> QED
  BY <1>3, <1>4, <1>5, ReadingSteps

(* StatusArrives follows. *)
LEMMA StatusFollows == Response /\ Reading => StatusArrives
<1> SUFFICES ASSUME Response, Reading, cmd.read = "status"
             PROVE  \/ cmd.status = Expected(scall.error)
                    \/ GivenDetails # {} /\ Overridden(scall.error)
  BY DEF StatusArrives
<1>1. IsGrpc /\ resp.ended /\ cmd.status = ResolveCallStatus(resp.headers, resp.trailers)
  BY DEF Reading
<1>2. StatusIs(resp.headers, resp.trailers, smd.headers, smd.trailers, scall.error)
  BY <1>1 DEF Response
<1>3. Loosely(cmd.status, scall.error, GivenDetails)
  BY <1>1, <1>2 DEF StatusIs, GivenDetails, GivenOf
<1> QED
  BY <1>3 DEF Loosely, Overridden, MessageOf

(* So does what MetadataArrives says of the response. *)
LEMMA ResponseFollows ==
  Handles /\ Response /\ Reading =>
    /\ cmd.inHeaders # Nil => Kept(smd.headers, cmd.inHeaders, {})
    /\ cmd.inTrailers # Nil => Kept(smd.trailers, cmd.inTrailers, {})
<1> SUFFICES ASSUME Handles, Response, Reading
             PROVE  /\ cmd.inHeaders # Nil => KeptBy(rq.axis, smd.headers, cmd.inHeaders, {}, late)
                    /\ cmd.inTrailers # Nil => KeptBy(rq.axis, smd.trailers, cmd.inTrailers, {}, late)
  BY DEF Kept, KeptBy
<1>0. /\ Holds(smd.headers, KindValues("h"), ServerProcs, "h", added)
      /\ Holds(smd.trailers, KindValues("t"), ServerProcs, "t", added)
  BY DEF Handles
<1>1. ASSUME cmd.inHeaders # Nil PROVE KeptBy(rq.axis, smd.headers, cmd.inHeaders, {}, late)
  <2>1. resp.sent /\ cmd.inHeaders = DecodeMetadata(rq.axis, resp.headers)
    BY <1>1 DEF Reading
  <2>2. PICK sn : /\ Snapshot(sn, smd.headers, KindValues("h"), late)
                  /\ Carries(rq.axis, cmd.inHeaders, sn, "h")
    BY <2>1 DEF Response, HeadersSay
  <2> QED
    BY <1>0, <2>2, CarriesMore, KeptFrom
<1>2. ASSUME cmd.inTrailers # Nil PROVE KeptBy(rq.axis, smd.trailers, cmd.inTrailers, {}, late)
  <2>1. IsGrpc /\ resp.ended
        /\ cmd.inTrailers = Merged(DecodeMetadata("grpc", resp.trailers), DecodeMetadata("grpc", resp.headers))
    BY <1>2 DEF Reading
  <2>2. PICK sn : /\ Snapshot(sn, smd.trailers, KindValues("t"), late)
                  /\ Carries("grpc", cmd.inTrailers, sn, "t")
    BY <2>1 DEF Response, BothSay
  <2>3. rq.axis = "grpc"
    BY <2>1 DEF IsGrpc
  <2> QED
    BY <1>0, <2>2, <2>3, CarriesMore, KeptFrom
<1> QED
  BY <1>1, <1>2

(***************************************************************************)
(* REST routes                                                             *)
(***************************************************************************)

(* Path variables have keys of their own. *)
LEMMA PathVarsAre ==
  ASSUME NEW pattern \in Seq([var : BOOLEAN, name : STRING]), NEW path
  PROVE  DOMAIN PathVars(pattern, path) \subseteq PathKeys
BY DEF PathVars, PathKey, PathKeys

(* The application's keys are not theirs. *)
LEMMA LoweredAreApart ==
  ASSUME NEW k \in AppKeys
  PROVE  Lower(k) \notin PathKeys
BY KeyAssumption DEF Lower, PathKeys

(* What a URL leaves of a text. *)
LEMMA TextIs ==
  /\ \A s : HasQuery(Quoted(s)) <=> HasQuery(s)
  /\ \A s : Before(Escaped(s)) = Escaped(s)
  /\ \A s : Plain(s) => /\ Escaped(s) = s /\ Quoted(s) = s /\ Before(s) = s /\ ~HasQuery(s)
                        /\ s # "a%"
<1>1. ASSUME NEW s PROVE /\ HasQuery(Quoted(s)) <=> HasQuery(s)
                         /\ Before(Escaped(s)) = Escaped(s)
                         /\ Plain(s) => /\ Escaped(s) = s /\ Quoted(s) = s /\ Before(s) = s /\ ~HasQuery(s)
                                        /\ s # "a%"
  BY DEF HasQuery, Quoted, Escaped, Before, Plain, Escapable
<1> QED
  BY <1>1

(* A path ends in the target or with it. *)
LEMMA PathEndIs ==
  ASSUME NEW t, Len(t) \in Nat
  PROVE  PathEnd(t) \in 0..Len(t)
<1> DEFINE marks == {i \in 1..Len(t) : HasQuery(t[i])}
<1>1. PathEnd(t) = IF marks = {} THEN Len(t) ELSE Min(marks)
  BY DEF PathEnd
<1>2. marks \in SUBSET Nat /\ marks \in SUBSET (1..Len(t))
  OBVIOUS
<1> HIDE DEF marks
<1>3. CASE marks = {}
  BY <1>1, <1>3
<1>4. CASE marks # {}
  <2>1. Min(marks) \in marks
    BY <1>2, <1>4, MinIs
  <2>2. Min(marks) \in 1..Len(t)
    BY <1>2, <2>1
  <2>3. PathEnd(t) = Min(marks)
    BY <1>1, <1>4
  <2> QED
    BY <2>2, <2>3
<1> QED
  BY <1>3, <1>4

(* What the server finds of a target: as much of it as the path has, each   *)
(* segment as it arrives.                                                   *)
LEMMA PathArrives ==
  ASSUME NEW t, Len(t) \in Nat
  PROVE  /\ Len(PathOnly(OverURL(t))) \in 0..Len(t)
         /\ \A i \in 1..Len(PathOnly(OverURL(t))) : PathOnly(OverURL(t))[i] = Arriving(t, t[i])
<1> DEFINE u == OverURL(t)
           e == PathEnd(u)
<1>1. /\ Len(u) = Len(t)
      /\ \A i \in 1..Len(t) : u[i] = IF Refused(t) THEN Escaped(t[i])
                                    ELSE IF i <= PathEnd(t) THEN Quoted(t[i]) ELSE t[i]
  BY DEF OverURL
<1>2. PathOnly(u) = [i \in 1..e |-> Before(u[i])]
  BY DEF PathOnly
<1>3. e \in 0..Len(t)
  BY <1>1, PathEndIs
<1>4. ~Refused(t) => e = PathEnd(t)
  <2> SUFFICES ASSUME ~Refused(t) PROVE PathEnd(u) = PathEnd(t)
    OBVIOUS
  <2> HIDE DEF u
  <2>1. \A i \in 1..Len(t) : HasQuery(u[i]) <=> HasQuery(t[i])
    BY <1>1, TextIs
  <2>2. {i \in 1..Len(u) : HasQuery(u[i])} = {i \in 1..Len(t) : HasQuery(t[i])}
    BY <1>1, <2>1
  <2> QED
    BY <1>1, <2>2 DEF PathEnd
<1> HIDE DEF u, e
<1>5. Len(PathOnly(u)) = e
  BY <1>2, <1>3
<1>6. ASSUME NEW i \in 1..e PROVE PathOnly(u)[i] = Arriving(t, t[i])
  <2>1. PathOnly(u)[i] = Before(u[i]) /\ i \in 1..Len(t)
    BY <1>2, <1>3
  <2>2. CASE Refused(t)
    BY <1>1, <2>1, <2>2, TextIs DEF Arriving
  <2>3. CASE ~Refused(t)
    <3>1. i <= PathEnd(t)
      BY <1>3, <1>4, <2>3
    <3> QED
      BY <1>1, <2>1, <2>3, <3>1 DEF Arriving
  <2> QED
    BY <2>2, <2>3
<1> QED
  BY <1>3, <1>5, <1>6 DEF u

(* A plain text arrives. *)
LEMMA PlainArrives == ASSUME NEW t, NEW s, Plain(s) PROVE Arriving(t, s) = s
BY TextIs DEF Arriving

(* A target of plain texts is found as it was sent, in whole and as a path. *)
LEMMA PlainTarget ==
  ASSUME NEW S, NEW t \in Seq(S), \A i \in 1..Len(t) : Plain(t[i])
  PROVE  OverURL(t) = t /\ PathOnly(OverURL(t)) = t
<1>1. \A i \in 1..Len(t) : ~HasQuery(t[i]) /\ Before(t[i]) = t[i] /\ Quoted(t[i]) = t[i] /\ Escaped(t[i]) = t[i]
  BY TextIs
<1>2. t = [i \in 1..Len(t) |-> t[i]]
  OBVIOUS
<1>3. OverURL(t) = t
  BY <1>1, <1>2 DEF OverURL
<1>4. PathEnd(t) = Len(t)
  BY <1>1 DEF PathEnd
<1>5. PathOnly(t) = t
  BY <1>1, <1>2, <1>4 DEF PathOnly
<1> QED
  BY <1>3, <1>5

(* A method whose path is plain is the one found at it, or is refused. *)
LEMMA MethodFoundOverURL ==
  ASSUME NEW m \in [service : Seq(STRING), name : STRING], NEW n, n # Nil,
         \/ n = ParseMethodPath(OverURL(MethodPath(m)))
         \/ n = ParseMethodPath(PathOnly(OverURL(MethodPath(m)))),
         \A i \in 1..Len(m.service) + 1 : Plain(MethodPath(m)[i])
  PROVE  n = m
<1>1. MethodPath(m) \in Seq(STRING) /\ Len(MethodPath(m)) = Len(m.service) + 1
  BY DEF MethodPath
<1>2. OverURL(MethodPath(m)) = MethodPath(m) /\ PathOnly(OverURL(MethodPath(m))) = MethodPath(m)
  BY <1>1, PlainTarget
<1> QED
  BY <1>2, MethodPathParses

(* A list of one element of a set, *)
LEMMA OneOf == ASSUME NEW S, NEW x \in S PROVE Single(x) \in Seq(S) /\ Len(Single(x)) = 1 /\ Single(x)[1] = x
BY DEF Single

Pair(x, y) == <<x, y>>

(* ... and of two. *)
LEMMA TwoOf == ASSUME NEW S, NEW x \in S, NEW y \in S PROVE Pair(x, y) \in Seq(S) /\ Len(Pair(x, y)) = 2
BY DEF Pair

(* What fills a place of a path. *)
LEMMA SegmentsAre ==
  ASSUME NEW S, NEW v \in S, "a" \in S, "b" \in S
  PROVE  /\ Segments(v) \in Seq(S) /\ Len(Segments(v)) \in {1, 2}
         /\ Len(Segments(v)) = 1 => Segments(v)[1] = v
<1>1. Segments(v) = IF v = "a/b" THEN Pair("a", "b") ELSE Single(v)
  BY DEF Segments, Pair, Single
<1>2. Pair("a", "b") \in Seq(S) /\ Len(Pair("a", "b")) = 2
  BY TwoOf
<1>3. Single(v) \in Seq(S) /\ Len(Single(v)) = 1 /\ Single(v)[1] = v
  BY OneOf
<1>4. Segments(v) = Pair("a", "b") \/ Segments(v) = Single(v)
  BY <1>1
<1>5. CASE Segments(v) = Pair("a", "b")
  BY <1>2, <1>5
<1>6. CASE Segments(v) = Single(v)
  BY <1>3, <1>6
<1> QED
  BY <1>4, <1>5, <1>6

Fills(s, v) == IF ~s.var THEN Single(s.name) ELSE IF s.name = "" THEN Single("{}") ELSE Segments(v)

(* Each place of a path is filled with one segment or two. *)
LEMMA FillsSome ==
  ASSUME NEW S, NEW s, NEW v \in S, s.name \in S, "{}" \in S, "a" \in S, "b" \in S
  PROVE  Fills(s, v) \in Seq(S) /\ Len(Fills(s, v)) \in {1, 2}
<1> DEFINE n == s.name
           e == "{}"
<1>1. Fills(s, v) = Single(n) \/ Fills(s, v) = Single(e) \/ Fills(s, v) = Segments(v)
  BY DEF Fills
<1>2. Segments(v) \in Seq(S) /\ Len(Segments(v)) \in {1, 2}
  BY SegmentsAre
<1>3. n \in S /\ e \in S
  OBVIOUS
<1> HIDE DEF n, e
<1>4. Single(n) \in Seq(S) /\ Len(Single(n)) = 1 /\ Single(e) \in Seq(S) /\ Len(Single(e)) = 1
  BY <1>3, OneOf
<1>5. CASE Fills(s, v) = Single(n)
  BY <1>4, <1>5
<1>6. CASE Fills(s, v) = Single(e)
  BY <1>4, <1>6
<1>7. CASE Fills(s, v) = Segments(v)
  BY <1>2, <1>7
<1> QED
  BY <1>1, <1>5, <1>6, <1>7

(* One and two are at least one. *)
LEMMA OneOrTwo == \A n : n \in {1, 2} => n >= 1
OBVIOUS

Methods == [service : Seq(STRING), name : STRING]
Patterns == Seq([var : BOOLEAN, name : STRING])
Rows == [method : Methods, verb : STRING, pattern : Patterns]

(* A target that no value divides has each place filled with its own text.  *)
Whole(pattern, out, target) == target = BuildPath(pattern, out) /\ target # Nil /\ Len(target) = Len(pattern)
FilledIn(pattern, out, target) ==
  /\ Len(pattern) \in Nat
  /\ \A i \in 1..Len(pattern) : ~pattern[i].var => target[i] = pattern[i].name
  /\ \A i \in 1..Len(pattern) :
       pattern[i].var /\ pattern[i].name # "" => target[i] = Values(out, PathKey(pattern[i].name))[1]
LEMMA BuiltTarget ==
  ASSUME NEW pattern \in Patterns, NEW out, NEW target,
         Whole(pattern, out, target)
  PROVE  FilledIn(pattern, out, target)
<1>w. target = BuildPath(pattern, out) /\ target # Nil /\ Len(target) = Len(pattern)
  BY DEF Whole
<1>0. pattern \in Seq([var : BOOLEAN, name : STRING]) /\ Len(pattern) \in Nat
  BY DEF Patterns
<1> SUFFICES ASSUME NEW i \in 1..Len(pattern)
             PROVE  /\ ~pattern[i].var => target[i] = pattern[i].name
                    /\ pattern[i].var /\ pattern[i].name # ""
                       => target[i] = Values(out, PathKey(pattern[i].name))[1]
  BY <1>0 DEF FilledIn
<1> DEFINE Filled(s) == IF ~s.var THEN <<s.name>> ELSE IF s.name = "" THEN <<"{}">>
                        ELSE Segments(Values(out, PathKey(s.name))[1])
           ss == [j \in 1..Len(pattern) |-> Filled(pattern[j])]
           S == {pattern[j].name : j \in 1..Len(pattern)} \cup {"{}", "a", "b"}
                \cup {Values(out, k)[1] : k \in PathKeys}
<1>1. target = FlattenSeq(ss)
  BY <1>w DEF BuildPath
<1>2. \A x : PathKey(x) \in PathKeys
  BY DEF PathKey, PathKeys
<1>a. "a" \in S /\ "b" \in S
  OBVIOUS
<1>3. ASSUME NEW j \in 1..Len(pattern) PROVE Filled(pattern[j]) \in Seq(S) /\ Len(Filled(pattern[j])) >= 1
  <2> DEFINE v == Values(out, PathKey(pattern[j].name))[1]
  <2>1. v \in S /\ pattern[j].name \in S /\ "{}" \in S
    BY <1>2
  <2>2. Filled(pattern[j]) = Fills(pattern[j], v)
    BY DEF Single, Fills
  <2> HIDE DEF v, S, Filled
  <2>3. Fills(pattern[j], v) \in Seq(S) /\ Len(Fills(pattern[j], v)) \in {1, 2}
    BY <1>a, <2>1, FillsSome
  <2> QED
    BY <2>2, <2>3, OneOrTwo
<1> HIDE DEF S, Filled
<1>4. ss \in Seq(Seq(S)) /\ Len(ss) = Len(pattern) /\ \A j \in 1..Len(ss) : Len(ss[j]) >= 1
  BY <1>0, <1>3
<1>5. \A j \in 1..Len(pattern) : ss[j] = Filled(pattern[j])
  OBVIOUS
<1> HIDE DEF ss
<1>6. i \in 1..Len(ss) /\ Len(FlattenSeq(ss)) = Len(ss)
  BY <1>w, <1>1, <1>4
<1>7. Len(ss[i]) = 1 /\ target[i] = ss[i][1]
  BY <1>1, <1>4, <1>6, FlattenOnes
<1>8. ASSUME ~pattern[i].var PROVE target[i] = pattern[i].name
  <2>1. ss[i] = Single(pattern[i].name)
    BY <1>5, <1>8 DEF Filled, Single
  <2> QED
    BY <1>7, <2>1 DEF Single
<1>9. ASSUME pattern[i].var, pattern[i].name # ""
      PROVE  target[i] = Values(out, PathKey(pattern[i].name))[1]
  <2> DEFINE v == Values(out, PathKey(pattern[i].name))[1]
  <2>1. ss[i] = Segments(v)
    BY <1>5, <1>9 DEF Filled
  <2>2. v \in S
    BY <1>2 DEF S
  <2> HIDE DEF v
  <2>3. Len(Segments(v)) = 1 => Segments(v)[1] = v
    BY <1>a, <2>2, SegmentsAre
  <2> QED
    BY <1>7, <2>1, <2>3 DEF v
<1> QED
  BY <1>8, <1>9

(* What the path variables say is what arrives of what filled them.         *)
LEMMA BuiltVars ==
  ASSUME NEW pattern \in Patterns, NEW out, NEW target,
         Whole(pattern, out, target), NEW path, path = PathOnly(OverURL(target)), Matches(pattern, path),
         NEW k \in DOMAIN PathVars(pattern, path)
  PROVE  PathVars(pattern, path)[k] = Single(Arriving(target, Values(out, k)[1]))
<1> DEFINE I == {j \in 1..Len(path) : pattern[j].var /\ PathKey(pattern[j].name) = k}
<1>1. I # {} /\ PathVars(pattern, path)[k] = Single(path[Max(I)])
  BY DEF PathVars, Single
<1>f. FilledIn(pattern, out, target)
  BY BuiltTarget
<1>0. /\ Len(pattern) \in Nat
      /\ \A j \in 1..Len(pattern) :
           pattern[j].var /\ pattern[j].name # "" => target[j] = Values(out, PathKey(pattern[j].name))[1]
  BY <1>f DEF FilledIn
<1>2. Len(path) = Len(pattern) /\ Len(pattern) \in Nat /\ Len(target) \in Nat
  BY <1>0 DEF Matches, Whole
<1>3. Max(I) \in I
  BY <1>1, <1>2, MaxIs
<1> DEFINE i == Max(I)
<1>4. i \in 1..Len(path) /\ i \in 1..Len(pattern) /\ pattern[i].var /\ PathKey(pattern[i].name) = k
  BY <1>2, <1>3
<1> HIDE DEF i
<1>5. pattern[i].name # ""
  BY <1>4 DEF Matches
<1>6. target[i] = Values(out, k)[1]
  BY <1>0, <1>4, <1>5
<1>7. path[i] = Arriving(target, target[i])
  BY <1>2, <1>4, PathArrives
<1> QED
  BY <1>1, <1>6, <1>7 DEF i

(* A pattern that plain names and variables make up matches what is built   *)
(* from it, if the path is whole.                                           *)
Reached(pattern) == \A i \in 1..Len(pattern) :
  LET s == pattern[i] IN IF s.var THEN s.name # "" ELSE Plain(s.name)
LEMMA BuiltMatches ==
  ASSUME NEW pattern \in Patterns, NEW out, NEW target,
         Whole(pattern, out, target), NEW path, path = PathOnly(OverURL(target)), Len(path) = Len(target), Reached(pattern)
  PROVE  Matches(pattern, path)
<1>0. Len(pattern) \in Nat /\ \A j \in 1..Len(pattern) : ~pattern[j].var => target[j] = pattern[j].name
  BY BuiltTarget DEF FilledIn
<1>1. Len(path) = Len(pattern) /\ Len(target) \in Nat
  BY <1>0 DEF Whole
<1>2. ASSUME NEW i \in 1..Len(path)
      PROVE  IF pattern[i].var THEN pattern[i].name # "" ELSE pattern[i].name = path[i]
  <2>1. CASE pattern[i].var
    BY <1>1, <2>1 DEF Reached
  <2>2. CASE ~pattern[i].var
    <3>1. target[i] = pattern[i].name
      BY <1>0, <1>1, <2>2
    <3>2. path[i] = Arriving(target, target[i])
      BY <1>1, PathArrives
    <3>3. Plain(target[i])
      BY <1>1, <2>2, <3>1 DEF Reached
    <3> QED
      BY <2>2, <3>1, <3>2, <3>3, PlainArrives
  <2> QED
    BY <2>1, <2>2
<1> QED
  BY <1>1, <1>2 DEF Matches

(* The table of a request: finitely many methods, each with a binding.      *)
LEMMA TableIs ==
  ASSUME NEW bs \in Seq(Rows)
  PROVE  /\ IsFiniteSet(DOMAIN ByMethod(bs))
         /\ \A m \in DOMAIN ByMethod(bs) : ByMethod(bs)[m] \in Rows
<1> DEFINE n == Len(bs)
           T == {bs[i].method : i \in 1..n}
           f == [i \in 1..n |-> bs[i].method]
<1>1. DOMAIN ByMethod(bs) = T /\ n \in Nat
  BY DEF ByMethod
<1>2. f \in Surjection(1..n, T)
  BY DEF Surjection
<1>3. IsFiniteSet(1..n)
  BY <1>1, FS_Interval
<1> HIDE DEF f
<1>4. IsFiniteSet(T)
  BY <1>2, <1>3, FS_Surjection
<1>5. ASSUME NEW m \in T PROVE ByMethod(bs)[m] \in Rows
  <2> DEFINE I == {i \in 1..n : bs[i].method = m}
  <2>1. I # {} /\ ByMethod(bs)[m] = bs[Max(I)]
    BY DEF ByMethod
  <2>2. Max(I) \in I
    BY <1>1, <2>1, MaxIs
  <2> HIDE DEF I
  <2>3. Max(I) \in 1..n
    BY <2>2 DEF I
  <2> QED
    BY <2>1, <2>3
<1> QED
  BY <1>1, <1>4, <1>5

(* The method found is one of the table, its pattern matches and its verb   *)
(* is the request's.                                                        *)
LEMMA MethodFound ==
  ASSUME NEW table, NEW verb, NEW path, NEW order, Permutes(order, DOMAIN table), NEW m,
         m = RoutedMethod(table, verb, path, order), m # Nil
  PROVE  m \in DOMAIN table /\ Matches(table[m].pattern, path) /\ table[m].verb = verb
<1> DEFINE is == {i \in DOMAIN order : /\ Matches(table[order[i]].pattern, path)
                                       /\ table[order[i]].verb = verb}
<1>1. is # {} /\ m = order[Min(is)]
  BY DEF RoutedMethod
<1>2. order \in Seq(DOMAIN table) /\ DOMAIN order \subseteq Nat
  BY DEF Permutes
<1>3. Min(is) \in is
  BY <1>1, <1>2, MinIs
<1> QED
  BY <1>1, <1>2, <1>3

(* The keys that are no path variable keep what came with the request.      *)
LEMMA MetadataKept ==
  ASSUME NEW table, NEW path, NEW order, Permutes(order, DOMAIN table), NEW in, NEW k, k \notin PathKeys,
         \A n \in DOMAIN table : table[n] \in Rows
  PROVE  Values(RoutedMetadata(table, path, order, in), k) = Values(in, k)
<1> DEFINE bound == UNION {DOMAIN PathVars(table[m].pattern, path) :
                            m \in {n \in ToSet(order) : Matches(table[n].pattern, path)}}
           out == RoutedMetadata(table, path, order, in)
<1>1. DOMAIN out = DOMAIN in \cup bound /\ (k \in DOMAIN in \ bound => out[k] = in[k])
  BY DEF RoutedMetadata
<1>2. ToSet(order) = DOMAIN table
  BY DEF Permutes
<1>3. bound \subseteq PathKeys
  <2>1. \A m \in DOMAIN table : table[m].pattern \in Patterns
    BY DEF Rows
  <2> QED
    BY <1>2, <2>1, PathVarsAre DEF Patterns
<1> QED
  BY <1>1, <1>3 DEF Values

(* A variable that some matching pattern binds is what one of them says.    *)
Giving(table, path, k) ==
  {m \in DOMAIN table : Matches(table[m].pattern, path) /\ k \in DOMAIN PathVars(table[m].pattern, path)}

LEMMA VariableFound ==
  ASSUME NEW table, NEW path, NEW order, Permutes(order, DOMAIN table), NEW in, NEW k,
         Giving(table, path, k) # {}
  PROVE  \E m \in Giving(table, path, k) :
           RoutedMetadata(table, path, order, in)[k] = PathVars(table[m].pattern, path)[k]
<1> DEFINE bound == UNION {DOMAIN PathVars(table[n].pattern, path) :
                            n \in {j \in ToSet(order) : Matches(table[j].pattern, path)}}
           I == Binders(table, path, order, k)
<1>1. k \in bound => RoutedMetadata(table, path, order, in)[k]
                        = PathVars(table[order[Max(I)]].pattern, path)[k]
  BY DEF RoutedMetadata
<1>2. order \in Seq(DOMAIN table) /\ ToSet(order) = DOMAIN table
  BY DEF Permutes
<1>a. PICK m \in DOMAIN table : Matches(table[m].pattern, path) /\ k \in DOMAIN PathVars(table[m].pattern, path)
  BY DEF Giving
<1>3. k \in bound
  BY <1>2, <1>a
<1>4. PICK i \in DOMAIN order : order[i] = m
  BY <1>2 DEF ToSet
<1>5. i \in I
  BY <1>4, <1>a DEF Binders
<1>6. I \subseteq 1..Len(order) /\ Len(order) \in Nat
  BY <1>2 DEF Binders
<1>7. Max(I) \in I
  BY <1>5, <1>6, MaxIs
<1>8. order[Max(I)] \in Giving(table, path, k)
  <2>1. /\ Max(I) \in DOMAIN order /\ Matches(table[order[Max(I)]].pattern, path)
        /\ k \in DOMAIN PathVars(table[order[Max(I)]].pattern, path)
    BY <1>7 DEF Binders
  <2>2. order[Max(I)] \in DOMAIN table
    BY <1>2, <2>1
  <2> QED
    BY <2>1, <2>2 DEF Giving
<1> QED
  BY <1>1, <1>3, <1>8

(***************************************************************************)
(* ... the request, and what the server makes of it                        *)
(***************************************************************************)

(* What the request on the wire says of what the caller asked for.          *)
TableOf(r) == ByMethod(r.bindings)
Routed(r, q, sn) ==
  IF r.axis = "rest"
  THEN /\ r.method \in DOMAIN TableOf(r)
       /\ q.target = BuildPath(TableOf(r)[r.method].pattern, sn) /\ q.target # Nil
       /\ q.verb = TableOf(r)[r.method].verb
  ELSE q.target = MethodPath(r.method)

RequestSays(r, q, md, lt) ==
  \E sn : /\ Snapshot(sn, md, ClientValues(r), lt)
          /\ CarriesRequest(r, q, sn)
          /\ r.axis = "grpc" => SaysFields(r, q, sn)
          /\ Routed(r, q, sn)

(* What the server makes of it.                                             *)
FoundPath(q) == PathOnly(OverURL(q.target))
Matched(T, path) == {m \in DOMAIN T : Matches(T[m].pattern, path)}
RestRoute(r, q, a, in, md, T, path) ==
  /\ a.method \in Matched(T, path) /\ T[a.method].verb = T[r.method].verb
  /\ \A k \in PathKeys : Giving(T, path, k) # {} =>
        \E m \in Giving(T, path, k) : in[k] = PathVars(T[m].pattern, path)[k]
  /\ r.method \in Matched(T, path) =>
        /\ (\A m \in Matched(T, path) \ {r.method} : T[m].verb # T[r.method].verb) => a.method = r.method
        /\ Len(q.target) = Len(T[r.method].pattern) =>
              \A k \in PathKeys : Giving(T, path, k) = {r.method} =>
                 in[k] = Single(Arriving(q.target, Values(md, k)[1]))
  /\ /\ Len(q.target) = Len(T[r.method].pattern) /\ Len(path) = Len(q.target)
     /\ Reached(T[r.method].pattern)
     => r.method \in Matched(T, path)
RouteFound(r, q, a, in, md) ==
  IF r.axis = "rest" THEN RestRoute(r, q, a, in, md, TableOf(r), FoundPath(q))
  ELSE (\A i \in 1..Len(r.method.service) + 1 : Plain(MethodPath(r.method)[i])) => a.method = r.method

Understood(r, a, md) ==
  r.axis = "grpc" =>
    /\ a.timeout = IF Timed(r) THEN DecodeTimeout(EncodeTimeout(r.timeout)) ELSE Nil
    /\ a.send \in {"identity"} \cup r.client.list \cup UNION {v.lists : v \in SaidIn(md)}

(* A path variable is no key of the application's.                          *)
LEMMA SameVariable ==
  ASSUME NEW sn, NEW md, NEW V, NEW lt, Snapshot(sn, md, V, lt), NEW k \in PathKeys
  PROVE  Values(sn, k) = Values(md, k)
<1>1. k \notin AppKeys
  BY KeyAssumption
<1>2. CASE k \in DOMAIN md
  BY <1>1, <1>2 DEF Snapshot, Values
<1>3. CASE k \notin DOMAIN md
  BY <1>3 DEF Snapshot, Values
<1> QED
  BY <1>2, <1>3

(* A request has its fields. *)
LEMMA RequestIs ==
  ASSUME NEW r \in Requests
  PROVE  /\ r.axis \in {"grpc", "rpc", "rest"} /\ r.method \in Methods /\ r.bindings \in Seq(Rows)
         /\ r.timeout # Nil => r.timeout \in Int /\ r.timeout <= MaxDuration
BY RequestAssumption DEF IsRequest, Methods, Rows, Patterns

(* The REST router finds a route that matches, and the variables that the   *)
(* matching ones bind.                                                      *)
LEMMA RestFound ==
  ASSUME NEW r \in Requests, r.axis = "rest", NEW q, NEW sn, Routed(r, q, sn),
         NEW md, NEW V, NEW lt, Snapshot(sn, md, V, lt),
         NEW order \in SetToSeqs(DOMAIN TableOf(r)), NEW a, NEW in,
         a.method = RoutedMethod(TableOf(r), q.verb, FoundPath(q), order), a.method # Nil
  PROVE  /\ RouteFound(r, q, a, RoutedMetadata(TableOf(r), FoundPath(q), order, in), md)
         /\ \A k : k \notin PathKeys =>
              Values(RoutedMetadata(TableOf(r), FoundPath(q), order, in), k) = Values(in, k)
<1> DEFINE T == TableOf(r)
           own == T[r.method]
           path == FoundPath(q)
           out == RoutedMetadata(T, path, order, in)
<1>1. /\ IsFiniteSet(DOMAIN T) /\ \A m \in DOMAIN T : T[m] \in Rows
  BY RequestIs, TableIs DEF TableOf
<1>2. Permutes(order, DOMAIN T)
  BY <1>1, OrdersPermute
<1>3. /\ r.method \in DOMAIN T /\ q.target = BuildPath(own.pattern, sn) /\ q.target # Nil /\ q.verb = own.verb
  BY DEF Routed
<1> HIDE DEF T
<1>4. a.method \in Matched(T, path) /\ T[a.method].verb = own.verb
  <2>1. a.method \in DOMAIN T /\ Matches(T[a.method].pattern, path) /\ T[a.method].verb = q.verb
    BY <1>2, MethodFound DEF T
  <2> QED
    BY <1>3, <2>1 DEF Matched
<1>5. \A k : k \notin PathKeys => Values(out, k) = Values(in, k)
  BY <1>1, <1>2, MetadataKept
<1>6. own.pattern \in Patterns
  BY <1>1, <1>3 DEF Rows
<1>7. \A k : Giving(T, path, k) # {} =>
        \E m \in Giving(T, path, k) : out[k] = PathVars(T[m].pattern, path)[k]
  BY <1>2, VariableFound
<1>8. Len(q.target) = Len(own.pattern) => Whole(own.pattern, sn, q.target)
  BY <1>3 DEF Whole
<1>9. ASSUME Len(q.target) = Len(own.pattern), NEW k \in PathKeys, Giving(T, path, k) = {r.method}
      PROVE  out[k] = Single(Arriving(q.target, Values(md, k)[1]))
  <2>1. out[k] = PathVars(own.pattern, path)[k]
    BY <1>7, <1>9
  <2>2. Matches(own.pattern, path) /\ k \in DOMAIN PathVars(own.pattern, path)
    BY <1>9 DEF Giving
  <2> HIDE DEF own, out
  <2>3. PathVars(own.pattern, path)[k] = Single(Arriving(q.target, Values(sn, k)[1]))
    BY <1>6, <1>8, <1>9, <2>2, BuiltVars DEF FoundPath
  <2>4. Values(sn, k) = Values(md, k)
    BY SameVariable
  <2> QED
    BY <2>1, <2>3, <2>4
<1>10. ASSUME Len(q.target) = Len(own.pattern), Len(path) = Len(q.target), Reached(own.pattern)
       PROVE  r.method \in Matched(T, path)
  <2>1. Matches(own.pattern, path)
    <3> HIDE DEF own
    <3> QED
      BY <1>6, <1>8, <1>10, BuiltMatches DEF FoundPath
  <2> QED
    BY <1>3, <2>1 DEF Matched
<1>11. ASSUME \A m \in Matched(T, path) \ {r.method} : T[m].verb # own.verb
       PROVE  a.method = r.method
  BY <1>4, <1>11
<1>12. RestRoute(r, q, a, out, md, T, path)
  <2> HIDE DEF out
  <2> QED
    BY <1>4, <1>7, <1>9, <1>10, <1>11 DEF RestRoute, own
<1> QED
  BY <1>5, <1>12 DEF RouteFound, T

(* Metadata that says the same of the application's keys carries the same.  *)
LEMMA CarriesSame ==
  ASSUME NEW axis, NEW x, NEW y, NEW sn, NEW kind, Carries(axis, x, sn, kind),
         \A k \in AppKeys : Values(y, Lower(k)) = Values(x, Lower(k))
  PROVE  Carries(axis, y, sn, kind)
BY DEF Carries

(* The header that the axis takes out costs what came under its name.       *)
LEMMA UserHeadersCarry ==
  ASSUME NEW axis, NEW V, NEW hs, Reads(axis, hs, V), NEW sn, NEW kind,
         Carries(axis, DecodeMetadata(axis, hs), sn, kind)
  PROVE  CarriesBut(axis, DecodeMetadata(axis, Only(hs, {h \in ToSet(hs) : h.name # AcceptKey})),
                    sn, kind, {AcceptKey})
<1> DEFINE T == {h \in ToSet(hs) : h.name # AcceptKey}
<1>1. ASSUME NEW k \in AppKeys, Lower(k) # AcceptKey
      PROVE  Gather(axis, Only(hs, T), Lower(k)) = Gather(axis, hs, Lower(k))
  <2>1. \A h \in ToSet(hs) \ T : ValuesOfKey(axis, Lower(k), h) = <<>>
    BY <1>1 DEF ValuesOfKey
  <2> HIDE DEF T
  <2> QED
    BY <2>1, OnlyUnread
<1> HIDE DEF T
<1>2. ASSUME NEW k \in AppKeys, Lower(k) # AcceptKey
      PROVE  Values(DecodeMetadata(axis, Only(hs, T)), Lower(k)) = Values(DecodeMetadata(axis, hs), Lower(k))
  BY <1>1, <1>2 DEF Gather
<1>3. CarriesBut(axis, DecodeMetadata(axis, Only(hs, T)), sn, kind, {AcceptKey})
  BY <1>2 DEF Carries, CarriesBut
<1> QED
  BY <1>3 DEF T

(* What a snapshot says of compressors, the handle says. *)
LEMMA SaidWithin ==
  ASSUME NEW sn, NEW md, NEW V, NEW lt, Snapshot(sn, md, V, lt), MetadataOver(md, V)
  PROVE  SaidIn(sn) \subseteq SaidIn(md)
BY SnapshotWithin DEF SaidIn

(* The server's axis accepts: what it makes of the request is what the      *)
(* caller asked for, and the metadata is the caller's, but for the list of  *)
(* compressors.                                                             *)
LEMMA GrpcUnderstood ==
  ASSUME NEW r \in Requests, r.axis = "grpc", NEW q, NEW sn, Routed(r, q, sn), SaysFields(r, q, sn),
         CarriesRequest(r, q, sn), NEW a, NEW md, NEW V, NEW lt, Snapshot(sn, md, V, lt), MetadataOver(md, V),
         NEW m, m = ParseMethodPath(OverURL(q.target)), m # Nil, NEW send,
         a = [ok |-> TRUE, method |-> m,
              timeout |-> IF HasField(q.headers, "grpc-timeout")
                          THEN DecodeTimeout(Field(q.headers, "grpc-timeout")) ELSE Nil,
              peerEnc |-> IF HasField(q.headers, "grpc-encoding")
                          THEN Field(q.headers, "grpc-encoding") ELSE Nil,
              send |-> ResolveSendCompressor(r.server.list, send,
                         IF HasField(q.headers, AcceptKey)
                         THEN Field(q.headers, AcceptKey).lists ELSE {}, TRUE)],
         NEW in,
         in = DecodeMetadata("grpc", Only(q.headers, {h \in ToSet(q.headers) : h.name # AcceptKey}))
  PROVE  Understood(r, a, md) /\ RouteFound(r, q, a, in, md) /\ CarriesBut(r.axis, in, sn, "h", {AcceptKey})
<1>1. a.method = m /\ a.send = ResolveSendCompressor(r.server.list, send, Field(q.headers, AcceptKey).lists, TRUE)
      /\ a.timeout = IF Timed(r) THEN DecodeTimeout(EncodeTimeout(r.timeout)) ELSE Nil
  BY DEF SaysFields
<1>2. a.send \in {"identity"} \cup r.client.list \cup UNION {v.lists : v \in SaidIn(md)}
  <2>1. a.send \in {"identity"} \cup Field(q.headers, AcceptKey).lists
    BY <1>1 DEF ResolveSendCompressor
  <2>2. Field(q.headers, AcceptKey) \in {OwnList(r)} \cup SaidIn(md)
    BY SaidWithin DEF SaysFields
  <2> DEFINE f == Field(q.headers, AcceptKey)
  <2> HIDE DEF f
  <2>3. CASE f = OwnList(r)
    <3>1. f.lists = r.client.list
      BY <2>3 DEF OwnList
    <3> QED
      BY <2>1, <3>1 DEF f
  <2>4. CASE f \in SaidIn(md)
    BY <2>1, <2>4 DEF f
  <2> QED
    BY <2>2, <2>3, <2>4 DEF f
<1>3. (\A i \in 1..Len(r.method.service) + 1 : Plain(MethodPath(r.method)[i])) => m = r.method
  <2>1. q.target = MethodPath(r.method) /\ r.method \in Methods
    BY RequestIs DEF Routed
  <2> QED
    BY <2>1, MethodFoundOverURL DEF Methods
<1>4. CarriesBut(r.axis, in, sn, "h", {AcceptKey})
  BY UserHeadersCarry DEF CarriesRequest
<1> QED
  BY <1>1, <1>2, <1>3, <1>4 DEF Understood, RouteFound

(* ... and so do httpunary's two routers. *)
LEMMA UnaryUnderstood ==
  ASSUME NEW r \in Requests, r.axis # "grpc", NEW q, NEW sn, Routed(r, q, sn), CarriesRequest(r, q, sn),
         NEW md, NEW V, NEW lt, Snapshot(sn, md, V, lt), NEW order \in SetToSeqs(DOMAIN TableOf(r)),
         NEW a, NEW in, a.method # Nil,
         a.method = IF r.axis = "rpc" THEN ParseMethodPath(FoundPath(q))
                    ELSE RoutedMethod(TableOf(r), q.verb, FoundPath(q), order),
         in = IF r.axis = "rpc" THEN DecodeMetadata(r.axis, q.headers)
              ELSE RoutedMetadata(TableOf(r), FoundPath(q), order, DecodeMetadata(r.axis, q.headers))
  PROVE  Understood(r, a, md) /\ RouteFound(r, q, a, in, md) /\ Carries(r.axis, in, sn, "h")
<1>1. Understood(r, a, md)
  BY DEF Understood
<1>2. Carries(r.axis, DecodeMetadata(r.axis, q.headers), sn, "h")
  BY DEF CarriesRequest
<1>3. CASE r.axis = "rpc"
  <2>1. (\A i \in 1..Len(r.method.service) + 1 : Plain(MethodPath(r.method)[i])) => a.method = r.method
    <3>1. q.target = MethodPath(r.method) /\ r.method \in Methods /\ a.method = ParseMethodPath(FoundPath(q))
      BY <1>3, RequestIs DEF Routed
    <3> QED
      BY <3>1, MethodFoundOverURL DEF Methods, FoundPath
  <2> QED
    BY <1>1, <1>2, <1>3, <2>1 DEF RouteFound
<1>4. CASE r.axis = "rest"
  <2> DEFINE old == DecodeMetadata(r.axis, q.headers)
             new == RoutedMetadata(TableOf(r), FoundPath(q), order, old)
  <2>1. in = new /\ a.method = RoutedMethod(TableOf(r), q.verb, FoundPath(q), order)
    BY <1>4
  <2> HIDE DEF old
  <2>2. RouteFound(r, q, a, new, md) /\ \A k : k \notin PathKeys => Values(new, k) = Values(old, k)
    BY <1>4, <2>1, RestFound
  <2> HIDE DEF new
  <2>3. Carries(r.axis, new, sn, "h")
    BY <1>2, <2>2, LoweredAreApart, CarriesSame DEF old
  <2> QED
    BY <1>1, <2>1, <2>2, <2>3
<1> QED
  BY <1>3, <1>4, RequestIs

(* What is understood is what RequestFaithful asks for.                     *)
LEMMA FaithfulFollows ==
  ASSUME rq \in Requests,
         IsAccepted => Understood(rq, acc, cmd.headers) /\ RouteFound(rq, req, acc, smd.inHeaders, cmd.headers)
  PROVE  RequestFaithful
<1>1. DeadlineNearest
  <2> SUFFICES ASSUME IsAccepted, IsGrpc
               PROVE  IF rq.timeout = Nil \/ rq.timeout <= 0 THEN acc.timeout = Nil
                      ELSE acc.timeout = Min({t \in Sayable : t >= rq.timeout})
    BY DEF DeadlineNearest
  <2>1. acc.timeout = IF Timed(rq) THEN DecodeTimeout(EncodeTimeout(rq.timeout)) ELSE Nil
    BY DEF Understood, IsGrpc
  <2>2. Timed(rq) => rq.timeout \in 1..MaxDuration
    <3> DEFINE d == rq.timeout
    <3>1. d # Nil => d \in Int /\ d <= MaxDuration
      BY RequestIs
    <3>2. MaxDuration \in Nat
      BY UnitAssumption
    <3>3. Timed(rq) => d # Nil /\ ~(d <= 0)
      BY DEF Timed
    <3> HIDE DEF d
    <3>4. Timed(rq) => d \in 1..MaxDuration
      BY <3>1, <3>2, <3>3
    <3> QED
      BY <3>4 DEF d
  <2>3. Timed(rq) => DecodeTimeout(EncodeTimeout(rq.timeout)) = Min({t \in Sayable : t >= rq.timeout})
    BY <2>2, NearestIsMin
  <2> QED
    BY <2>1, <2>3 DEF Timed
<1>2. RouteFaithful
  <2>1. CASE rq.axis # "rest"
    BY <2>1 DEF RouteFaithful, RouteFound, PathFaithful
  <2>2. CASE rq.axis = "rest" /\ IsAccepted
    <3>1. RestRoute(rq, req, acc, smd.inHeaders, cmd.headers, Table, AcceptedPath)
      BY <2>2 DEF RouteFound, Table, TableOf, FoundPath, AcceptedPath
    <3>2. Matching = Matched(Table, AcceptedPath)
      BY DEF Matching, Matched
    <3>3. \A k : Givers(k) = Giving(Table, AcceptedPath, k)
      BY <3>2 DEF Givers, Giving, Matched, Binding1
    <3>4. Undivided <=> Len(req.target) = Len(Table[rq.method].pattern)
      BY DEF Undivided, Binding
    <3>5. Reachable <=> Reached(Table[rq.method].pattern)
      BY DEF Reachable, Reached, Binding
    <3>6. Binding.verb = Table[rq.method].verb
      BY DEF Binding
    <3>a. acc.method \in Matching /\ Table[acc.method].verb = Binding.verb
      BY <3>1, <3>2, <3>6 DEF RestRoute
    <3>b. \A k \in PathKeys : Givers(k) # {} => \E m \in Givers(k) : smd.inHeaders[k] = Binding1(m)[k]
      BY <3>1, <3>3 DEF RestRoute, Binding1
    <3>c. rq.method \in Matching /\ (\A m \in Matching \ {rq.method} : Table[m].verb # Binding.verb)
            => acc.method = rq.method
      BY <3>1, <3>2, <3>6 DEF RestRoute
    <3>d. rq.method \in Matching /\ Undivided => \A k \in PathKeys : Givers(k) = {rq.method} =>
            smd.inHeaders[k] = <<Arriving(req.target, Values(cmd.headers, k)[1])>>
      BY <3>1, <3>2, <3>3, <3>4 DEF RestRoute, Single
    <3>e. Undivided /\ Len(AcceptedPath) = Len(req.target) /\ Reachable => rq.method \in Matching
      BY <3>1, <3>2, <3>4, <3>5 DEF RestRoute
    <3>7. RestFaithful
      BY <3>a, <3>b, <3>c, <3>d, <3>e DEF RestFaithful
    <3> QED
      BY <2>2, <3>7 DEF RouteFaithful
  <2> QED
    BY <2>1, <2>2 DEF RouteFaithful
<1>3. CompressionAgreed
  BY DEF CompressionAgreed, Understood, IsGrpc, SaidValues, SaidIn
<1> QED
  BY <1>1, <1>2, <1>3 DEF RequestFaithful

(* The request on the wire, and what the server has made of it.             *)
Taken(r) == IF r.axis = "grpc" THEN {AcceptKey} ELSE {}
Request ==
  /\ req # Nil => pc[Opener] = "sent"
  /\ req # Nil /\ ~req.failed => RequestSays(rq, req, cmd.headers, late)
  /\ acc # Nil => req # Nil
  /\ IsAccepted => /\ Understood(rq, acc, cmd.headers)
                   /\ RouteFound(rq, req, acc, smd.inHeaders, cmd.headers)
                   /\ KeptBy(rq.axis, cmd.headers, smd.inHeaders, Taken(rq), late)

(* Request holds at the start. *)
LEMMA RequestInit == MetadataInit => Request
BY DEF MetadataInit, Request, IsAccepted

SameRequest == req' = req /\ acc' = acc /\ smd'.inHeaders = smd.inHeaders

(* The steps that write the request or take it, and the others. *)
LEMMA RequestSteps ==
  ASSUME Shape, [MetadataNext]_metadataVars
  PROVE  \/ SameRequest
         \/ \E o \in Orders(snap[Opener]) : OpenBuilds(o)
         \/ \E o \in Orders(Table) : AcceptCall(o)
<1>0. SmdShape
  BY DEF Shape
<1>1. ASSUME UNCHANGED <<req, acc, smd>> PROVE SameRequest
  BY <1>1 DEF SameRequest
<1>a. ASSUME NEW p, NEW k, ClientAdds(p, k) PROVE SameRequest
  BY <1>1, <1>a DEF ClientAdds
<1>b. ASSUME NEW p, NEW k, ServerAdds(p, k) PROVE SameRequest
  BY <1>0, <1>b DEF ServerAdds, SmdShape, SameRequest
<1>c. ASSUME NEW p, NEW k, NEW code, ServerAddsTrailer(p, k, code) PROVE SameRequest
  BY <1>0, <1>c DEF ServerAddsTrailer, SmdShape, SameRequest
<1>d. CASE OpenSnapshots \/ OpenFreezes
  BY <1>1, <1>d DEF OpenSnapshots, OpenFreezes
<1>e. ASSUME NEW p, MdSendHeaders(p) \/ SendWantsHeaders(p) \/ CallSendHeaders(p)
                  \/ OnceSnapshots(p) \/ OnceMarks(p) \/ OnceWaited(p) \/ \E o : OnceWrites(p, o)
      PROVE SameRequest
  BY <1>1, <1>e DEF MdSendHeaders, SendWantsHeaders, CallSendHeaders, OnceSnapshots, OnceMarks, OnceWaited, OnceWrites
<1>f. ASSUME NEW p, OnceFreezes(p) \/ MdCommits(p) PROVE SameRequest
  BY <1>0, <1>f DEF OnceFreezes, MdCommits, FrozenHeaders, SmdShape, SameRequest
<1>g. CASE \/ \E e : FinishStarts(e)
           \/ FinishSnapshots \/ UnarySnapshots \/ FinishMarks \/ \E ho, to : FinishWrites(ho, to)
  BY <1>1, <1>g DEF FinishStarts, FinishSnapshots, UnarySnapshots, FinishMarks, FinishWrites
<1>h. CASE \/ FinishFreezesTrailers \/ FinishFreezesHeaders \/ UnaryFreezes \/ \E o : UnaryWrites(o)
  BY <1>0, <1>h DEF FinishFreezesTrailers, FinishFreezesHeaders, UnaryFreezes, UnaryWrites, FrozenHeaders,
                    FrozenTrailers, SmdShape, SameRequest
<1>i. CASE RecvHeaders \/ RecvFinish \/ UNCHANGED metadataVars
  BY <1>1, <1>i DEF RecvHeaders, RecvFinish, metadataVars
<1> QED
  BY <1>a, <1>b, <1>c, <1>d, <1>e, <1>f, <1>g, <1>h, <1>i DEF MetadataNext

(* What is kept stays kept as more is late. *)
LEMMA KeptLater ==
  ASSUME NEW axis, NEW md, NEW landed, NEW taken, NEW lt, NEW mt, KeptBy(axis, md, landed, taken, lt),
         lt \subseteq mt
  PROVE  KeptBy(axis, md, landed, taken, mt)
BY DEF KeptBy

(* The request that OpenCall builds says what the handle said.              *)
LEMMA Built ==
  ASSUME Shape, Handles, Snapshots, Request, NEW o \in Orders(snap[Opener]), OpenBuilds(o),
         ~req'.failed
  PROVE  RequestSays(rq, req', cmd.headers, late)
<1> DEFINE sn == snap[Opener]
<1>0. rq \in Requests /\ pc[Opener] = "open 3"
  BY DEF Shape, OpenBuilds, At
<1>1. Snapshot(sn, cmd.headers, ClientValues(rq), late)
  BY <1>0 DEF Snapshots
<1>2. Holds(cmd.headers, ClientValues(rq), ClientProcs, "h", added)
  BY DEF Handles
<1>3. o \in Orders(sn)
  OBVIOUS
<1> HIDE DEF sn
<1>4. MetadataOver(sn, ClientValues(rq)) /\ IsFiniteSet(DOMAIN sn) /\ DOMAIN sn \subseteq DOMAIN cmd.headers
  BY <1>1, <1>2, SnapshotOver
<1>6. rq.axis \in {"grpc", "rpc", "rest"}
  BY <1>0, RequestIs
<1>a. CASE IsGrpc
  <2> DEFINE p == GrpcPreface(sn, o)
  <2>1. req' = [p EXCEPT !.headers = @ \o rq.foreign]
    <3>1. p.failed = FALSE
      BY DEF GrpcPreface, Preface
    <3>2. req' = IF p.failed THEN p ELSE [p EXCEPT !.headers = @ \o rq.foreign]
      BY <1>a DEF OpenBuilds, IsGrpc, sn
    <3> HIDE DEF p
    <3> QED
      BY <3>1, <3>2
  <2>2. p = [failed |-> FALSE, verb |-> "POST", target |-> MethodPath(rq.method), headers |-> p.headers]
    BY DEF GrpcPreface, Preface
  <2>3. p.headers = GrpcPreface(sn, o).headers
    OBVIOUS
  <2> HIDE DEF p
  <2>4. req'.headers = p.headers \o rq.foreign /\ req'.target = MethodPath(rq.method)
    BY <2>1, <2>2
  <2>5. req'.headers = GrpcPreface(sn, o).headers \o rq.foreign
    BY <2>3, <2>4
  <2>6. CarriesRequest(rq, req', sn) /\ SaysFields(rq, req', sn)
    BY <1>0, <1>a, <1>3, <1>4, <2>5, GrpcRequest
  <2>7. Routed(rq, req', sn)
    BY <1>a, <2>4 DEF IsGrpc, Routed
  <2> QED
    BY <1>1, <2>6, <2>7 DEF RequestSays
<1>b. CASE rq.axis = "rpc"
  <2> DEFINE p == RpcPreface(sn, o)
  <2>1. req' = [p EXCEPT !.headers = @ \o rq.foreign]
    <3>1. p.failed = FALSE /\ ~IsGrpc
      BY <1>b DEF RpcPreface, Preface, IsGrpc
    <3> QED
      BY <1>b, <3>1 DEF OpenBuilds, sn
  <2>2. p = [failed |-> FALSE, verb |-> "POST", target |-> MethodPath(rq.method),
             headers |-> UnaryHeaders(sn, o)]
    BY DEF RpcPreface, Preface
  <2> HIDE DEF p
  <2>4. req'.headers = UnaryHeaders(sn, o) \o rq.foreign /\ req'.target = MethodPath(rq.method)
    BY <2>1, <2>2
  <2>6. CarriesRequest(rq, req', sn)
    BY <1>0, <1>3, <1>4, <2>4, UnaryRequest
  <2>7. Routed(rq, req', sn)
    BY <1>b, <2>4 DEF Routed
  <2> QED
    BY <1>1, <1>b, <2>6, <2>7 DEF RequestSays
<1>c. CASE rq.axis = "rest"
  <2> DEFINE target == IF rq.method \notin DOMAIN Table THEN Nil ELSE BuildPath(Binding.pattern, sn)
             p == Preface(Binding.verb, target, UnaryHeaders(sn, o))
             x == IF target = Nil THEN [failed |-> TRUE] ELSE p
  <2>1. req' = IF x.failed THEN x ELSE [x EXCEPT !.headers = @ \o rq.foreign]
    <3>1. RestPreface(sn, o) = x /\ ~IsGrpc
      BY <1>c DEF RestPreface, IsGrpc
    <3> QED
      BY <1>c, <3>1 DEF OpenBuilds, sn
  <2>2. target # Nil
    <3> SUFFICES ASSUME target = Nil PROVE FALSE
      OBVIOUS
    <3>1. x = [failed |-> TRUE]
      OBVIOUS
    <3> HIDE DEF x
    <3> QED
      BY <2>1, <3>1
  <2>3. req' = [p EXCEPT !.headers = @ \o rq.foreign]
    <3>1. x = p /\ p.failed = FALSE
      BY <2>2 DEF Preface
    <3> HIDE DEF x, p
    <3> QED
      BY <2>1, <3>1
  <2>4. p = [failed |-> FALSE, verb |-> Binding.verb, target |-> target, headers |-> UnaryHeaders(sn, o)]
    BY DEF Preface
  <2> HIDE DEF p, x
  <2>5. req'.headers = UnaryHeaders(sn, o) \o rq.foreign /\ req'.target = target /\ req'.verb = Binding.verb
    BY <2>3, <2>4
  <2>6. CarriesRequest(rq, req', sn)
    BY <1>0, <1>3, <1>4, <2>5, UnaryRequest
  <2>7. rq.method \in DOMAIN Table /\ target = BuildPath(Binding.pattern, sn)
    BY <2>2
  <2> HIDE DEF target
  <2>8. Routed(rq, req', sn)
    BY <1>c, <2>2, <2>5, <2>7 DEF Routed, Table, TableOf, Binding
  <2> QED
    BY <1>1, <1>c, <2>6, <2>8 DEF RequestSays
<1> QED
  BY <1>6, <1>a, <1>b, <1>c DEF IsGrpc

(* What AcceptCall makes of a request that says so.                         *)
LEMMA Accepted ==
  ASSUME Shape, Handles, Request, NEW o \in Orders(Table), AcceptCall(o), IsAccepted'
  PROVE  /\ Understood(rq, acc', cmd.headers) /\ RouteFound(rq, req, acc', smd'.inHeaders, cmd.headers)
         /\ KeptBy(rq.axis, cmd.headers, smd'.inHeaders, Taken(rq), late)
<1>0. rq \in Requests /\ SmdShape /\ req # Nil /\ ~req.failed
  BY DEF Shape, AcceptCall
<1>1. PICK sn : /\ Snapshot(sn, cmd.headers, ClientValues(rq), late)
                /\ CarriesRequest(rq, req, sn)
                /\ rq.axis = "grpc" => SaysFields(rq, req, sn)
                /\ Routed(rq, req, sn)
  BY <1>0 DEF Request, RequestSays
<1>2. Holds(cmd.headers, ClientValues(rq), ClientProcs, "h", added)
  BY DEF Handles
<1>a. MetadataOver(cmd.headers, ClientValues(rq))
  BY <1>2 DEF Holds
<1>3. /\ CarriesBut(rq.axis, smd'.inHeaders, sn, "h", Taken(rq)) /\ Understood(rq, acc', cmd.headers)
      /\ RouteFound(rq, req, acc', smd'.inHeaders, cmd.headers)
  <2>0. acc' # Rejected
    BY DEF IsAccepted, Rejected
  <2>1. CASE GrpcAccepts
    <3> DEFINE m == ParseMethodPath(OverURL(req.target))
               md == DecodeMetadata("grpc", UserHeaders)
    <3>1. rq.axis = "grpc"
      BY <2>1 DEF GrpcAccepts, IsGrpc
    <3>2. /\ m # Nil
          /\ acc' = [ok |-> TRUE, method |-> m,
                     timeout |-> IF HasField(req.headers, "grpc-timeout")
                                 THEN DecodeTimeout(Field(req.headers, "grpc-timeout")) ELSE Nil,
                     peerEnc |-> IF HasField(req.headers, "grpc-encoding")
                                 THEN Field(req.headers, "grpc-encoding") ELSE Nil,
                     send |-> ResolveSendCompressor(rq.server.list, rq.server.send, Accepts, TRUE)]
          /\ smd' = [smd EXCEPT !.inHeaders = md]
      BY <2>0, <2>1 DEF GrpcAccepts
    <3>3. smd'.inHeaders = md
      BY <1>0, <3>2 DEF SmdShape
    <3> QED
      BY <1>0, <1>1, <1>a, <3>1, <3>2, <3>3, GrpcUnderstood DEF UserHeaders, Accepts, Taken
  <2>2. CASE UnaryAccepts(o)
    <3> DEFINE in == UnaryMetadata(req.headers)
               m == IF rq.axis = "rpc" THEN RpcMethod(AcceptedPath)
                    ELSE RoutedMethod(Table, req.verb, AcceptedPath, o)
               md == IF rq.axis = "rpc" THEN in ELSE RoutedMetadata(Table, AcceptedPath, o, in)
    <3>1. rq.axis # "grpc"
      BY <2>2 DEF UnaryAccepts, IsGrpc
    <3>2. /\ m # Nil
          /\ acc' = [ok |-> TRUE, method |-> m, timeout |-> Nil, peerEnc |-> Nil, send |-> "identity"]
          /\ smd' = [smd EXCEPT !.inHeaders = md]
      BY <2>0, <2>2 DEF UnaryAccepts
    <3>3. smd'.inHeaders = md
      BY <1>0, <3>2 DEF SmdShape
    <3>4. acc'.method = m /\ acc'.method # Nil
      BY <3>2
    <3>5. m = IF rq.axis = "rpc" THEN ParseMethodPath(FoundPath(req))
              ELSE RoutedMethod(TableOf(rq), req.verb, FoundPath(req), o)
      BY DEF RpcMethod, Table, TableOf, AcceptedPath, FoundPath
    <3>6. md = IF rq.axis = "rpc" THEN DecodeMetadata(rq.axis, req.headers)
               ELSE RoutedMetadata(TableOf(rq), FoundPath(req), o, DecodeMetadata(rq.axis, req.headers))
      BY DEF UnaryMetadata, Table, TableOf, AcceptedPath, FoundPath
    <3>7. o \in SetToSeqs(DOMAIN TableOf(rq))
      BY DEF Orders, Table, TableOf
    <3> HIDE DEF m, md
    <3>8. Understood(rq, acc', cmd.headers) /\ RouteFound(rq, req, acc', smd'.inHeaders, cmd.headers)
          /\ Carries(rq.axis, smd'.inHeaders, sn, "h")
      BY <1>0, <1>1, <3>1, <3>3, <3>4, <3>5, <3>6, <3>7, UnaryUnderstood
    <3> QED
      BY <3>1, <3>8, CarriesMore DEF Taken
  <2> QED
    BY <2>1, <2>2 DEF AcceptCall
<1>4. KeptBy(rq.axis, cmd.headers, smd'.inHeaders, Taken(rq), late)
  BY <1>1, <1>2, <1>3, KeptFrom
<1> QED
  BY <1>3, <1>4

(* Every step preserves Request. *)
LEMMA RequestStep ==
  Shape /\ Handles /\ Snapshots /\ Request /\ [MetadataNext]_metadataVars => Request'
<1> SUFFICES ASSUME Shape, Handles, Snapshots, Request, [MetadataNext]_metadataVars PROVE Request'
  OBVIOUS
<1>0. CmdShape /\ SmdShape /\ DOMAIN pc = Procs /\ Opener \in Procs /\ Opener \in ClientProcs
  BY DEF Shape, Procs, ClientProcs
<1>1. rq' = rq /\ late \subseteq late'
  BY GrowsStep DEF Grows
<1>3. ASSUME req # Nil PROVE cmd'.headers = cmd.headers /\ cmd.headersFrozen /\ pc'[Opener] = "sent"
  <2>1. pc[Opener] = "sent"
    BY <1>3 DEF Request
  <2>2. cmd.headersFrozen
    BY <2>1 DEF Snapshots
  <2> QED
    BY <2>1, <2>2, FrozenKeeps, FrozenStays
(* What the request said, it still says.                                    *)
<1>4. ASSUME NEW q, RequestSays(rq, q, cmd.headers, late), cmd'.headers = cmd.headers
      PROVE  RequestSays(rq, q, cmd'.headers, late')
  <2>1. \A sn : Snapshot(sn, cmd.headers, ClientValues(rq), late)
                  => Snapshot(sn, cmd.headers, ClientValues(rq), late')
    BY <1>1, SnapshotLater
  <2> QED
    BY <1>4, <2>1 DEF RequestSays
<1>a. CASE SameRequest
  <2>1. CASE req = Nil
    <3>1. req' = Nil /\ acc' = Nil
      BY <1>a, <2>1 DEF SameRequest, Request
    <3> QED
      BY <3>1 DEF Request, IsAccepted
  <2>2. CASE req # Nil
    <3>1. req' = req /\ acc' = acc /\ smd'.inHeaders = smd.inHeaders /\ cmd'.headers = cmd.headers
          /\ pc'[Opener] = "sent"
      BY <1>3, <1>a, <2>2 DEF SameRequest
    <3>2. ~req.failed => RequestSays(rq, req, cmd'.headers, late')
      BY <1>4, <2>2, <3>1 DEF Request
    <3>3. IsAccepted => KeptBy(rq.axis, cmd.headers, smd.inHeaders, Taken(rq), late')
      BY <1>1, KeptLater DEF Request
    <3>4. IsAccepted' = IsAccepted
      BY <3>1 DEF IsAccepted
    <3> QED
      BY <1>1, <2>2, <3>1, <3>2, <3>3, <3>4 DEF Request
  <2> QED
    BY <2>1, <2>2
<1>b. ASSUME NEW o \in Orders(snap[Opener]), OpenBuilds(o) PROVE Request'
  <2>1. pc[Opener] = "open 3" /\ pc'[Opener] = "sent" /\ cmd' = cmd /\ acc' = acc /\ smd' = smd
    BY <1>0, <1>b DEF OpenBuilds, At, Goto
  <2>2. acc = Nil
    BY <2>1 DEF Request
  <2>3. ~req'.failed => RequestSays(rq, req', cmd'.headers, late')
    BY <1>4, <1>b, <2>1, Built
  <2> QED
    BY <1>1, <2>1, <2>2, <2>3 DEF Request, IsAccepted
<1>c. ASSUME NEW o \in Orders(Table), AcceptCall(o) PROVE Request'
  <2>1. req # Nil /\ ~req.failed /\ req' = req /\ cmd' = cmd /\ late' = late
    BY <1>c DEF AcceptCall
  <2>2. pc'[Opener] = "sent"
    BY <1>3, <2>1
  <2>3. IsAccepted' => /\ Understood(rq, acc', cmd.headers)
                       /\ RouteFound(rq, req, acc', smd'.inHeaders, cmd.headers)
                       /\ KeptBy(rq.axis, cmd.headers, smd'.inHeaders, Taken(rq), late)
    BY <1>c, Accepted
  <2>4. RequestSays(rq, req, cmd.headers, late)
    BY <2>1 DEF Request
  <2> QED
    BY <1>1, <2>1, <2>2, <2>3, <2>4 DEF Request
<1> QED
  BY <1>a, <1>b, <1>c, RequestSteps

(* RequestFaithful, and what MetadataArrives says of the request, follow. *)
LEMMA RequestFollows ==
  Shape /\ Request => /\ RequestFaithful
                      /\ IsAccepted => Kept(cmd.headers, smd.inHeaders, IF IsGrpc THEN {AcceptKey} ELSE {})
BY FaithfulFollows DEF Shape, Request, Kept, KeptBy, Taken, IsGrpc

(***************************************************************************)
(* Theorems                                                                *)
(***************************************************************************)
MetadataInvariant == Shape /\ Order /\ Handles /\ Snapshots /\ Response /\ Reading /\ Request

(* What MetadataInvariant says holds in every state of a call. *)
THEOREM MetadataIsInvariant == MetadataSpec => []MetadataInvariant
<1>1. MetadataInit => MetadataInvariant
  BY ShapeInit, OrderInit, HandlesInit, SnapshotsInit, ResponseInit, ReadingInit, RequestInit DEF MetadataInvariant
<1>2. MetadataInvariant /\ [MetadataNext]_metadataVars => MetadataInvariant'
  BY ShapeStep, OrderStep, HandlesStep, SnapshotsStep, ResponseStep, ReadingStep, RequestStep DEF MetadataInvariant
<1> QED
  BY <1>1, <1>2, PTL DEF MetadataSpec

(* The server works with the nearest deadline that the caller's clock can   *)
(* be told, answers in a compression that the caller can undo or its        *)
(* application named, and finds the method and the path variables that the  *)
(* caller sent, as a URL delivers them and as far as no other binding       *)
(* matches the same path (AcceptCall of both axes, streamURL, pathOnly).    *)
THEOREM RequestIsFaithful == MetadataSpec => []RequestFaithful
<1>1. MetadataInvariant => RequestFaithful
  BY RequestFollows DEF MetadataInvariant
<1> QED
  BY <1>1, MetadataIsInvariant, PTL

(* No metadata that a handle accepted is lost or reordered between the      *)
(* handles, but what was added between a getter and the freeze behind it    *)
(* and, on grpc, the application's own grpc-accept-encoding (grpc/call.go,  *)
(* httpunary/call.go, grpc/preface.go).                                     *)
THEOREM MetadataDoesArrive == MetadataSpec => []MetadataArrives
<1>1. MetadataInvariant => MetadataArrives
  BY RequestFollows, ResponseFollows DEF MetadataInvariant, MetadataArrives
<1> QED
  BY <1>1, MetadataIsInvariant, PTL

(* The caller's Recv ends with the handler's status (grpc's Finish and      *)
(* finishClientRecv), unless the application gave details of its own under  *)
(* the key of the details: then with one of the three statuses that         *)
(* details.go makes of them, an error of code OK among them.                *)
THEOREM StatusDoesArrive == MetadataSpec => []StatusArrives
<1>1. MetadataInvariant => StatusArrives
  BY StatusFollows DEF MetadataInvariant
<1> QED
  BY <1>1, MetadataIsInvariant, PTL

Frozen ==
  /\ cmd.headersFrozen => cmd'.headers = cmd.headers
  /\ smd.headersFrozen => smd'.headers = smd.headers
  /\ smd.trailersFrozen => smd'.trailers = smd.trailers

(* A frozen list of a handle never changes again (AddOutgoingHeader and     *)
(* AddOutgoingTrailer of metadata/call.go).                                 *)
THEOREM FrozenForGood == MetadataSpec => [][Frozen]_metadataVars
<1>1. MetadataInvariant /\ [MetadataNext]_metadataVars => [Frozen]_metadataVars
  BY FrozenKeeps DEF MetadataInvariant, Frozen
<1> QED
  BY <1>1, MetadataIsInvariant, PTL DEF MetadataSpec

=============================================================================
