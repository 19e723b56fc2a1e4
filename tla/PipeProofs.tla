----------------------------- MODULE PipeProofs -----------------------------
(***************************************************************************)
(* Theorems about Pipe for all five carriers and any number of Serves,     *)
(* connections, Dials, Shutdowns and Closes: Close leaves nothing usable   *)
(* behind, Shutdown settles the callbacks it waited for, the datagrams of  *)
(* a live udp association reach it, and a Serve that was told to stop does *)
(* not report an accept error.                                             *)
(***************************************************************************)
EXTENDS Pipe, TLAPS

-----------------------------------------------------------------------------
(* The five carriers take the same steps; what their names add is which of *)
(* them admit and which demultiplex, and how much a sweep collects.        *)

(* The accept loop ends; an error is reported unless the stop has a reason. *)
Leaves(g) ==
  /\ srv[g] = "loop" /\ sock[g] # "open"
  /\ srv' = [srv EXCEPT ![g] = "leaving"]
  /\ \/ failed' = failed
     \/ /\ failed' = failed \cup {g}
        /\ ~shutdown /\ ~closed /\ g \notin cancelled
  /\ UNCHANGED <<flags, listener, doneChan, doneClosed, sock, cancelled,
                 connVars, dial, shutVars, expired, closeVars>>

Admits(g, c) == kind # "udp" /\ Admit(g, c)
Demuxes(g, c) == kind = "udp" /\ Demux(g, c)

(* ws: the upgrade of a connection in hand fails. *)
UpgradeFails(g, c) ==
  /\ kind = "ws" /\ conn[c] = "accepted"
  /\ conn' = [conn EXCEPT ![c] = "closed"]
  /\ UNCHANGED <<flags, serveVars, sock, cancelled, from, remote, cb,
                 tracked, assocs, dial, shutVars, expired, closeVars>>

(* A sweep of Shutdown finds at least the connections with a callback. *)
ShutdownSweeps(s) == \E swept \in {tracked, tracked \cap Conns} : ShutdownExpire(s, swept)

Steps ==
  \/ \E g \in Serves :
       \/ Listen(g) \/ Install(g) \/ Leaves(g) \/ \E last \in BOOLEAN : Epilogue(g, last)
       \/ Cancel(g) \/ StopAccept(g) \/ ListenerFails(g)
       \/ \E c \in Conns : \/ \E r \in Remotes : Arrive(g, c, r)
                           \/ Admits(g, c) \/ Demuxes(g, c) \/ UpgradeFails(g, c)
  \/ \E c \in Conns : CallbackReturns(c) \/ Untrack(c)
  \/ \E c \in Handles : OwnerCloses(c)
  \/ \E d \in Dials : DialRuns(d)
  \/ \E s \in Shutdowns : \/ ShutdownMark(s) \/ ShutdownStop(s) \/ ShutdownWait(s)
                          \/ ShutdownSweeps(s) \/ Expire(s)
  \/ \E k \in Closes : CloseMark(k) \/ CloseStop(k) \/ CloseSweep(k)

LEMMA StepsOfNext == Next => Steps
<1> SUFFICES ASSUME Next PROVE Steps
  OBVIOUS
<1>1. ASSUME NEW g \in Serves, NEW h, NEW q, Stopped(g, h, q) PROVE Leaves(g)
  BY <1>1 DEF Stopped, Leaves
<1>2. ASSUME NEW g \in Serves, ServeRuns(g) PROVE Steps
  <2>1. CASE TcpServe(g)
    BY <1>1, <2>1 DEF TcpServe, Steps, Admits
  <2>2. CASE UdpServe(g)
    BY <1>1, <2>2 DEF UdpServe, Steps, Demuxes
  <2>3. CASE WsServe(g)
    BY <1>1, <2>3 DEF WsServe, Steps
  <2>4. CASE Http1Serve(g)
    BY <1>1, <2>4 DEF Http1Serve, Steps
  <2>5. CASE Http2Serve(g)
    BY <1>1, <2>5 DEF Http2Serve, Steps
  <2> QED
    BY <1>2, <2>1, <2>2, <2>3, <2>4, <2>5 DEF ServeRuns
<1>3. ASSUME NEW g \in Serves, NEW c \in Conns, Request(g, c) PROVE Steps
  <2>1. Admits(g, c) \/ UpgradeFails(g, c)
    BY <1>3 DEF Request, WsUpgrade, Http1Request, Http2Request, Admits, UpgradeFails
  <2> QED
    BY <2>1 DEF Steps
<1>4. ASSUME NEW d \in Dials, DialCall(d) PROVE Steps
  BY <1>4 DEF DialCall, TcpDial, WsDial, UdpDial, Http1Dial, Http2Dial, Steps
<1>5. ASSUME NEW s \in Shutdowns, ShutdownCall(s) PROVE Steps
  <2>1. ShutdownRuns(s, tracked) \/ ShutdownRuns(s, tracked \cap Conns)
    BY <1>5 DEF ShutdownCall, TcpShutdown, WsShutdown, UdpShutdown, Http1Shutdown,
                Http2Shutdown
  <2> QED
    BY <2>1 DEF ShutdownRuns, ShutdownSweeps, Steps
<1>6. ASSUME NEW k \in Closes, CloseCall(k) PROVE Steps
  BY <1>6 DEF CloseCall, TcpClose, WsClose, UdpClose, Http1Close, Http2Close, CloseRuns,
              Steps
<1> QED
  BY <1>2, <1>3, <1>4, <1>5, <1>6 DEF Next, Steps

-----------------------------------------------------------------------------
(* The inductive invariant.                                                *)

(* The flags describe the one Serve that is in its loop; a listener closed  *)
(* under the loop was closed for a reason that can still be seen.           *)
ServeOwns ==
  /\ \A g \in Serves :
       /\ srv[g] \in {"loop", "leaving"} => serving /\ listener = g /\ doneChan = g
       /\ srv[g] \in {"leaving", "releasing", "returned"} => sock[g] # "open"
       /\ srv[g] = "idle" => sock[g] = "none"
       /\ srv[g] = "bound" => sock[g] = "open"
       /\ srv[g] = "loop" => sock[g] # "none"
       /\ srv[g] = "loop" /\ sock[g] = "closed" => shutdown \/ closed \/ g \in cancelled
  /\ doneChan # None => srv[doneChan] \notin {"idle", "bound"}
  /\ listener # None => srv[listener] \notin {"idle", "bound"}

(* A Shutdown that captured the serveDone still installed has its flag up.  *)
FlagKept ==
  \A s \in Shutdowns :
    /\ shutOf[s] # None => srv[shutOf[s]] \notin {"idle", "bound"}
    /\ shutOf[s] # None /\ shutOf[s] = doneChan => shutdown
    /\ shutTodo[s] # {} => shut[s] = "sweep"

(* A usable connection is in the map a sweep reads. *)
ConnsKnown ==
  /\ \A c \in Conns :
       /\ conn[c] \in {"none", "accepted"} => cb[c] = "none"
       /\ cb[c] = "running" => conn[c] = "closed" \/ c \in tracked
  /\ \A d \in Dials :
       dial[d] = "returned" => conn[d] = "closed" \/ d \in tracked

(* What a Shutdown has reached, as long as no later Serve was installed. *)
ShutdownReach ==
  \A s \in Shutdowns :
    shutOf[s] # None /\ shutOf[s] = doneChan =>
      \A c \in Conns : cb[c] = "running" =>
        /\ shut[s] \notin {"drained", "nil"}
        /\ shut[s] = "sweep" => conn[c] = "closed" \/ c \in shutTodo[s]
        /\ shut[s] = "deadline" => conn[c] = "closed"

(* What a Close has reached. *)
CloseReach ==
  \A k \in Closes :
    /\ clTodo[k] # {} => cl[k] = "sweep"
    /\ cl[k] \notin {"idle", "noop"} => closed
    /\ clOf[k] # None => srv[clOf[k]] \notin {"idle", "bound"}
    /\ cl[k] = "stop" =>
         \A g \in Serves : srv[g] = "loop" /\ sock[g] = "open" => clOf[k] = g
    /\ cl[k] \in {"snapshot", "sweep", "returned"} =>
         \A g \in Serves : sock[g] = "open" => srv[g] = "bound"
    /\ cl[k] \in {"sweep", "returned"} =>
         /\ \A c \in Conns : cb[c] = "running" => conn[c] = "closed" \/ c \in clTodo[k]
         /\ \A d \in Dials : dial[d] = "returned" => conn[d] = "closed" \/ d \in clTodo[k]

(* A connection in hand, or with a callback, has its Serve and, for udp, *)
(* its address.                                                          *)
Addressed ==
  \A c \in Conns : conn[c] = "accepted" \/ cb[c] = "running" =>
    from[c] \in Serves /\ (kind = "udp" => remote[c] \in Remotes)

PipeInv ==
  /\ TypeOK /\ ServeOwns /\ FlagKept /\ ConnsKnown
  /\ ShutdownReach /\ CloseReach /\ Addressed /\ LiveAssociation

LEMMA PipeInit == Init => PipeInv
<1> SUFFICES ASSUME Init PROVE PipeInv
  OBVIOUS
<1>1. TypeOK
  BY PipeAssumption DEF Init, TypeOK
<1>2. ServeOwns /\ FlagKept
  BY DEF Init, ServeOwns, FlagKept
<1>3. ConnsKnown /\ Addressed /\ LiveAssociation
  BY DEF Init, ConnsKnown, Addressed, LiveAssociation, Handles
<1>4. ShutdownReach /\ CloseReach
  BY DEF Init, ShutdownReach, CloseReach
<1> QED
  BY <1>1, <1>2, <1>3, <1>4 DEF PipeInv

LEMMA TypeStep == TypeOK /\ [Next]_vars => TypeOK'
<1> SUFFICES ASSUME TypeOK, [Next]_vars PROVE TypeOK'
  OBVIOUS
<1> USE DEF TypeOK, Handles, flags, serveVars, connVars, shutVars, closeVars
<1>1. ASSUME NEW g \in Serves, Listen(g) PROVE TypeOK'
  BY <1>1, PipeAssumption DEF Listen
<1>2. ASSUME NEW g \in Serves, Install(g) PROVE TypeOK'
  <2>1. {serving, shutdown, closed}' \subseteq BOOLEAN
    BY <1>2 DEF Install, Cut
  <2> QED
    BY <1>2, <2>1, PipeAssumption DEF Install, Cut
<1>3. ASSUME NEW g \in Serves, Leaves(g) PROVE TypeOK'
  BY <1>3, PipeAssumption DEF Leaves
<1>4. ASSUME NEW g \in Serves, NEW last \in BOOLEAN, Epilogue(g, last) PROVE TypeOK'
  <2>1. {serving, shutdown, closed}' \subseteq BOOLEAN
    BY <1>4 DEF Epilogue, Cut
  <2> QED
    BY <1>4, <2>1, PipeAssumption DEF Epilogue, Cut
<1>5. ASSUME NEW g \in Serves, Cancel(g) PROVE TypeOK'
  BY <1>5, PipeAssumption DEF Cancel
<1>6. ASSUME NEW g \in Serves, StopAccept(g) PROVE TypeOK'
  BY <1>6, PipeAssumption DEF StopAccept, Cut
<1>7. ASSUME NEW g \in Serves, ListenerFails(g) PROVE TypeOK'
  BY <1>7, PipeAssumption DEF ListenerFails
<1>8. ASSUME NEW g \in Serves, NEW c \in Conns, NEW r \in Remotes, Arrive(g, c, r) PROVE TypeOK'
  BY <1>8, PipeAssumption DEF Arrive
<1>9. ASSUME NEW g \in Serves, NEW c \in Conns, Admits(g, c) PROVE TypeOK'
  BY <1>9, PipeAssumption DEF Admits, Admit
<1>10. ASSUME NEW g \in Serves, NEW c \in Conns, Demuxes(g, c) PROVE TypeOK'
  BY <1>10, PipeAssumption DEF Demuxes, Demux
<1>11. ASSUME NEW g \in Serves, NEW c \in Conns, UpgradeFails(g, c) PROVE TypeOK'
  BY <1>11, PipeAssumption DEF UpgradeFails
<1>12. ASSUME NEW c \in Conns, CallbackReturns(c) PROVE TypeOK'
  BY <1>12, PipeAssumption DEF CallbackReturns
<1>13. ASSUME NEW c \in Conns, Untrack(c) PROVE TypeOK'
  BY <1>13, PipeAssumption DEF Untrack
<1>14. ASSUME NEW c \in Handles, OwnerCloses(c) PROVE TypeOK'
  BY <1>14, PipeAssumption DEF OwnerCloses, ConnClose
<1>15. ASSUME NEW d \in Dials, DialRuns(d) PROVE TypeOK'
  BY <1>15, PipeAssumption DEF DialRuns, DialSteps, DialTracks, ConnClose
<1>16. ASSUME NEW s \in Shutdowns, ShutdownMark(s) PROVE TypeOK'
  <2>1. {serving, shutdown, closed}' \subseteq BOOLEAN
    BY <1>16 DEF ShutdownMark
  <2> QED
    BY <1>16, <2>1, PipeAssumption DEF ShutdownMark
<1>17. ASSUME NEW s \in Shutdowns, ShutdownStop(s) PROVE TypeOK'
  BY <1>17, PipeAssumption DEF ShutdownStop, Cut
<1>18. ASSUME NEW s \in Shutdowns, ShutdownWait(s) PROVE TypeOK'
  BY <1>18, PipeAssumption DEF ShutdownWait, CallbacksOver
<1>19. ASSUME NEW s \in Shutdowns, ShutdownSweeps(s) PROVE TypeOK'
  BY <1>19, PipeAssumption DEF ShutdownSweeps, ShutdownExpire, ConnClose
<1>20. ASSUME NEW s \in Shutdowns, Expire(s) PROVE TypeOK'
  BY <1>20, PipeAssumption DEF Expire
<1>21. ASSUME NEW k \in Closes, CloseMark(k) PROVE TypeOK'
  <2>1. {serving, shutdown, closed}' \subseteq BOOLEAN
    BY <1>21 DEF CloseMark
  <2> QED
    BY <1>21, <2>1, PipeAssumption DEF CloseMark
<1>22. ASSUME NEW k \in Closes, CloseStop(k) PROVE TypeOK'
  BY <1>22, PipeAssumption DEF CloseStop, Cut
<1>23. ASSUME NEW k \in Closes, CloseSweep(k) PROVE TypeOK'
  BY <1>23, PipeAssumption DEF CloseSweep, ConnClose
<1>24. CASE UNCHANGED vars
  BY <1>24, PipeAssumption DEF vars
<1> QED
  BY StepsOfNext, <1>1, <1>2, <1>3, <1>4, <1>5, <1>6, <1>7, <1>8, <1>9, <1>10, <1>11, <1>12,
      <1>13, <1>14, <1>15, <1>16, <1>17, <1>18, <1>19, <1>20, <1>21, <1>22, <1>23, <1>24 DEF
      Steps

(* The lock hands the transport to one Serve at a time. *)
LEMMA OwnStep == TypeOK /\ ServeOwns /\ FlagKept /\ CloseReach /\ [Next]_vars => ServeOwns'
<1> SUFFICES ASSUME TypeOK, ServeOwns, FlagKept, CloseReach, [Next]_vars PROVE ServeOwns'
  OBVIOUS
<1> USE DEF TypeOK, ServeOwns, flags, serveVars, connVars, shutVars, closeVars
<1>1. ASSUME NEW g \in Serves, Listen(g) PROVE ServeOwns'
  BY <1>1, PipeAssumption DEF Listen
<1>2. ASSUME NEW g \in Serves, Install(g) PROVE ServeOwns'
  <2>1. CASE closed \/ serving
    BY <1>2, <2>1 DEF Install, Cut
  <2>2. CASE ~(closed \/ serving)
    <3>1. \A h \in Serves \ {g} : srv'[h] = srv[h] /\ srv[h] \notin {"loop", "leaving"}
      BY <1>2, <2>2 DEF Install
    <3>2. srv'[g] = "loop" /\ doneChan' = g /\ listener' = g /\ serving' /\ sock' = sock
      BY <1>2, <2>2 DEF Install
    <3>3. sock[g] = "open"
      BY <1>2 DEF Install
    <3> QED
      BY <3>1, <3>2, <3>3
  <2> QED
    BY <2>1, <2>2
<1>3. ASSUME NEW g \in Serves, Leaves(g) PROVE ServeOwns'
  BY <1>3, PipeAssumption DEF Leaves
<1>4. ASSUME NEW g \in Serves, NEW last \in BOOLEAN, Epilogue(g, last) PROVE ServeOwns'
  BY <1>4, PipeAssumption DEF Epilogue, Cut
<1>5. ASSUME NEW g \in Serves, Cancel(g) PROVE ServeOwns'
  BY <1>5, PipeAssumption DEF Cancel
<1>6. ASSUME NEW g \in Serves, StopAccept(g) PROVE ServeOwns'
  BY <1>6, PipeAssumption DEF StopAccept, Cut
<1>7. ASSUME NEW g \in Serves, ListenerFails(g) PROVE ServeOwns'
  BY <1>7, PipeAssumption DEF ListenerFails
<1>8. ASSUME NEW g \in Serves, NEW c \in Conns, NEW r \in Remotes, Arrive(g, c, r) PROVE ServeOwns'
  BY <1>8, PipeAssumption DEF Arrive
<1>9. ASSUME NEW g \in Serves, NEW c \in Conns, Admits(g, c) PROVE ServeOwns'
  BY <1>9, PipeAssumption DEF Admits, Admit
<1>10. ASSUME NEW g \in Serves, NEW c \in Conns, Demuxes(g, c) PROVE ServeOwns'
  BY <1>10, PipeAssumption DEF Demuxes, Demux
<1>11. ASSUME NEW g \in Serves, NEW c \in Conns, UpgradeFails(g, c) PROVE ServeOwns'
  BY <1>11, PipeAssumption DEF UpgradeFails
<1>12. ASSUME NEW c \in Conns, CallbackReturns(c) PROVE ServeOwns'
  BY <1>12, PipeAssumption DEF CallbackReturns
<1>13. ASSUME NEW c \in Conns, Untrack(c) PROVE ServeOwns'
  BY <1>13, PipeAssumption DEF Untrack
<1>14. ASSUME NEW c \in Handles, OwnerCloses(c) PROVE ServeOwns'
  BY <1>14, PipeAssumption DEF OwnerCloses, ConnClose
<1>15. ASSUME NEW d \in Dials, DialRuns(d) PROVE ServeOwns'
  BY <1>15, PipeAssumption DEF DialRuns, DialSteps, DialTracks, ConnClose
<1>16. ASSUME NEW s \in Shutdowns, ShutdownMark(s) PROVE ServeOwns'
  BY <1>16, PipeAssumption DEF ShutdownMark
<1>17. ASSUME NEW s \in Shutdowns, ShutdownStop(s) PROVE ServeOwns'
  <2>1. \A h \in Serves : sock'[h] = IF h = shutOf[s] THEN "closed" ELSE sock[h]
    BY <1>17 DEF ShutdownStop, Cut
  <2>2. srv' = srv /\ UNCHANGED <<serving, shutdown, closed, listener, doneChan, cancelled>>
    BY <1>17 DEF ShutdownStop
  <2>3. \A h \in Serves : h = shutOf[s] => srv[h] \notin {"idle", "bound"}
    BY PipeAssumption DEF FlagKept
  <2>4. \A h \in Serves : srv[h] = "loop" /\ h = shutOf[s] => shutdown
    BY PipeAssumption DEF FlagKept
  <2> QED
    BY <2>1, <2>2, <2>3, <2>4
<1>18. ASSUME NEW s \in Shutdowns, ShutdownWait(s) PROVE ServeOwns'
  BY <1>18, PipeAssumption DEF ShutdownWait, CallbacksOver
<1>19. ASSUME NEW s \in Shutdowns, ShutdownSweeps(s) PROVE ServeOwns'
  BY <1>19, PipeAssumption DEF ShutdownSweeps, ShutdownExpire, ConnClose
<1>20. ASSUME NEW s \in Shutdowns, Expire(s) PROVE ServeOwns'
  BY <1>20, PipeAssumption DEF Expire
<1>21. ASSUME NEW k \in Closes, CloseMark(k) PROVE ServeOwns'
  BY <1>21, PipeAssumption DEF CloseMark
<1>22. ASSUME NEW k \in Closes, CloseStop(k) PROVE ServeOwns'
  <2>1. \A h \in Serves : sock'[h] = IF h = clOf[k] THEN "closed" ELSE sock[h]
    BY <1>22 DEF CloseStop, Cut
  <2>2. srv' = srv /\ UNCHANGED <<serving, shutdown, closed, listener, doneChan, cancelled>>
    BY <1>22 DEF CloseStop
  <2>3. closed
    BY <1>22 DEF CloseStop, CloseReach
  <2>4. \A h \in Serves : h = clOf[k] => srv[h] \notin {"idle", "bound"}
    BY PipeAssumption DEF CloseReach
  <2> QED
    BY <2>1, <2>2, <2>3, <2>4
<1>23. ASSUME NEW k \in Closes, CloseSweep(k) PROVE ServeOwns'
  BY <1>23, PipeAssumption DEF CloseSweep, ConnClose
<1>24. CASE UNCHANGED vars
  BY <1>24, PipeAssumption DEF vars
<1> QED
  BY StepsOfNext, <1>1, <1>2, <1>3, <1>4, <1>5, <1>6, <1>7, <1>8, <1>9, <1>10, <1>11, <1>12,
      <1>13, <1>14, <1>15, <1>16, <1>17, <1>18, <1>19, <1>20, <1>21, <1>22, <1>23, <1>24 DEF
      Steps

(* Only an Install clears the flag, and it brings a serveDone of its own. *)
LEMMA FlagStep == TypeOK /\ ServeOwns /\ FlagKept /\ [Next]_vars => FlagKept'
<1> SUFFICES ASSUME TypeOK, ServeOwns, FlagKept, [Next]_vars PROVE FlagKept'
  OBVIOUS
<1> USE DEF TypeOK, FlagKept, flags, serveVars, connVars, shutVars, closeVars
<1>1. ASSUME NEW g \in Serves, Listen(g) PROVE FlagKept'
  BY <1>1, PipeAssumption DEF Listen
<1>2. ASSUME NEW g \in Serves, Install(g) PROVE FlagKept'
  BY <1>2, PipeAssumption DEF Install, Cut
<1>3. ASSUME NEW g \in Serves, Leaves(g) PROVE FlagKept'
  BY <1>3, PipeAssumption DEF Leaves
<1>4. ASSUME NEW g \in Serves, NEW last \in BOOLEAN, Epilogue(g, last) PROVE FlagKept'
  BY <1>4, PipeAssumption DEF Epilogue, Cut
<1>5. ASSUME NEW g \in Serves, Cancel(g) PROVE FlagKept'
  BY <1>5, PipeAssumption DEF Cancel
<1>6. ASSUME NEW g \in Serves, StopAccept(g) PROVE FlagKept'
  BY <1>6, PipeAssumption DEF StopAccept, Cut
<1>7. ASSUME NEW g \in Serves, ListenerFails(g) PROVE FlagKept'
  BY <1>7, PipeAssumption DEF ListenerFails
<1>8. ASSUME NEW g \in Serves, NEW c \in Conns, NEW r \in Remotes, Arrive(g, c, r) PROVE FlagKept'
  BY <1>8, PipeAssumption DEF Arrive
<1>9. ASSUME NEW g \in Serves, NEW c \in Conns, Admits(g, c) PROVE FlagKept'
  BY <1>9, PipeAssumption DEF Admits, Admit
<1>10. ASSUME NEW g \in Serves, NEW c \in Conns, Demuxes(g, c) PROVE FlagKept'
  BY <1>10, PipeAssumption DEF Demuxes, Demux
<1>11. ASSUME NEW g \in Serves, NEW c \in Conns, UpgradeFails(g, c) PROVE FlagKept'
  BY <1>11, PipeAssumption DEF UpgradeFails
<1>12. ASSUME NEW c \in Conns, CallbackReturns(c) PROVE FlagKept'
  BY <1>12, PipeAssumption DEF CallbackReturns
<1>13. ASSUME NEW c \in Conns, Untrack(c) PROVE FlagKept'
  BY <1>13, PipeAssumption DEF Untrack
<1>14. ASSUME NEW c \in Handles, OwnerCloses(c) PROVE FlagKept'
  BY <1>14, PipeAssumption DEF OwnerCloses, ConnClose
<1>15. ASSUME NEW d \in Dials, DialRuns(d) PROVE FlagKept'
  BY <1>15, PipeAssumption DEF DialRuns, DialSteps, DialTracks, ConnClose
<1>16. ASSUME NEW s \in Shutdowns, ShutdownMark(s) PROVE FlagKept'
  <2>1. CASE closed
    BY <1>16, <2>1 DEF ShutdownMark
  <2>2. CASE ~closed
    <3>1. /\ shutdown' = TRUE /\ UNCHANGED <<srv, doneChan, shutTodo>>
          /\ shutOf' = [shutOf EXCEPT ![s] = doneChan]
          /\ \A t \in Shutdowns \ {s} : shut'[t] = shut[t]
          /\ shut[s] = "idle"
      BY <1>16, <2>2 DEF ShutdownMark, serveVars
    <3>2. doneChan # None => srv[doneChan] \notin {"idle", "bound"}
      BY DEF ServeOwns
    <3> QED
      BY <3>1, <3>2
  <2> QED
    BY <2>1, <2>2
<1>17. ASSUME NEW s \in Shutdowns, ShutdownStop(s) PROVE FlagKept'
  BY <1>17, PipeAssumption DEF ShutdownStop, Cut
<1>18. ASSUME NEW s \in Shutdowns, ShutdownWait(s) PROVE FlagKept'
  BY <1>18, PipeAssumption DEF ShutdownWait, CallbacksOver
<1>19. ASSUME NEW s \in Shutdowns, ShutdownSweeps(s) PROVE FlagKept'
  BY <1>19, PipeAssumption DEF ShutdownSweeps, ShutdownExpire, ConnClose
<1>20. ASSUME NEW s \in Shutdowns, Expire(s) PROVE FlagKept'
  BY <1>20, PipeAssumption DEF Expire
<1>21. ASSUME NEW k \in Closes, CloseMark(k) PROVE FlagKept'
  BY <1>21, PipeAssumption DEF CloseMark
<1>22. ASSUME NEW k \in Closes, CloseStop(k) PROVE FlagKept'
  BY <1>22, PipeAssumption DEF CloseStop, Cut
<1>23. ASSUME NEW k \in Closes, CloseSweep(k) PROVE FlagKept'
  BY <1>23, PipeAssumption DEF CloseSweep, ConnClose
<1>24. CASE UNCHANGED vars
  BY <1>24, PipeAssumption DEF vars
<1> QED
  BY StepsOfNext, <1>1, <1>2, <1>3, <1>4, <1>5, <1>6, <1>7, <1>8, <1>9, <1>10, <1>11, <1>12,
      <1>13, <1>14, <1>15, <1>16, <1>17, <1>18, <1>19, <1>20, <1>21, <1>22, <1>23, <1>24 DEF
      Steps

(* Connections enter the map in the step that makes them usable. *)
LEMMA KnownStep == TypeOK /\ ConnsKnown /\ FlagKept /\ CloseReach /\ [Next]_vars => ConnsKnown'
<1> SUFFICES ASSUME TypeOK, ConnsKnown, FlagKept, CloseReach, [Next]_vars PROVE ConnsKnown'
  OBVIOUS
<1> USE DEF TypeOK, ConnsKnown, Handles, flags, serveVars, connVars, shutVars, closeVars
<1>1. ASSUME NEW g \in Serves, Listen(g) PROVE ConnsKnown'
  BY <1>1, PipeAssumption DEF Listen
<1>2. ASSUME NEW g \in Serves, Install(g) PROVE ConnsKnown'
  BY <1>2, PipeAssumption DEF Install, Cut
<1>3. ASSUME NEW g \in Serves, Leaves(g) PROVE ConnsKnown'
  BY <1>3, PipeAssumption DEF Leaves
<1>4. ASSUME NEW g \in Serves, NEW last \in BOOLEAN, Epilogue(g, last) PROVE ConnsKnown'
  BY <1>4, PipeAssumption DEF Epilogue, Cut
<1>5. ASSUME NEW g \in Serves, Cancel(g) PROVE ConnsKnown'
  BY <1>5, PipeAssumption DEF Cancel
<1>6. ASSUME NEW g \in Serves, StopAccept(g) PROVE ConnsKnown'
  BY <1>6, PipeAssumption DEF StopAccept, Cut
<1>7. ASSUME NEW g \in Serves, ListenerFails(g) PROVE ConnsKnown'
  BY <1>7, PipeAssumption DEF ListenerFails
<1>8. ASSUME NEW g \in Serves, NEW c \in Conns, NEW r \in Remotes, Arrive(g, c, r) PROVE ConnsKnown'
  BY <1>8, PipeAssumption DEF Arrive
<1>9. ASSUME NEW g \in Serves, NEW c \in Conns, Admits(g, c) PROVE ConnsKnown'
  BY <1>9, PipeAssumption DEF Admits, Admit
<1>10. ASSUME NEW g \in Serves, NEW c \in Conns, Demuxes(g, c) PROVE ConnsKnown'
  BY <1>10, PipeAssumption DEF Demuxes, Demux
<1>11. ASSUME NEW g \in Serves, NEW c \in Conns, UpgradeFails(g, c) PROVE ConnsKnown'
  BY <1>11, PipeAssumption DEF UpgradeFails
<1>12. ASSUME NEW c \in Conns, CallbackReturns(c) PROVE ConnsKnown'
  BY <1>12, PipeAssumption DEF CallbackReturns
<1>13. ASSUME NEW c \in Conns, Untrack(c) PROVE ConnsKnown'
  BY <1>13, PipeAssumption DEF Untrack
<1>14. ASSUME NEW c \in Handles, OwnerCloses(c) PROVE ConnsKnown'
  BY <1>14, PipeAssumption DEF OwnerCloses, ConnClose
<1>15. ASSUME NEW d \in Dials, DialRuns(d) PROVE ConnsKnown'
  BY <1>15, PipeAssumption DEF DialRuns, DialSteps, DialTracks, ConnClose
<1>16. ASSUME NEW s \in Shutdowns, ShutdownMark(s) PROVE ConnsKnown'
  BY <1>16, PipeAssumption DEF ShutdownMark
<1>17. ASSUME NEW s \in Shutdowns, ShutdownStop(s) PROVE ConnsKnown'
  BY <1>17, PipeAssumption DEF ShutdownStop, Cut
<1>18. ASSUME NEW s \in Shutdowns, ShutdownWait(s) PROVE ConnsKnown'
  BY <1>18, PipeAssumption DEF ShutdownWait, CallbacksOver
<1>19. ASSUME NEW s \in Shutdowns, ShutdownSweeps(s) PROVE ConnsKnown'
  BY <1>19, PipeAssumption DEF ShutdownSweeps, ShutdownExpire, ConnClose
<1>20. ASSUME NEW s \in Shutdowns, Expire(s) PROVE ConnsKnown'
  BY <1>20, PipeAssumption DEF Expire
<1>21. ASSUME NEW k \in Closes, CloseMark(k) PROVE ConnsKnown'
  BY <1>21, PipeAssumption DEF CloseMark
<1>22. ASSUME NEW k \in Closes, CloseStop(k) PROVE ConnsKnown'
  BY <1>22, PipeAssumption DEF CloseStop, Cut
<1>23. ASSUME NEW k \in Closes, CloseSweep(k) PROVE ConnsKnown'
  BY <1>23, PipeAssumption DEF CloseSweep, ConnClose
<1>24. CASE UNCHANGED vars
  BY <1>24, PipeAssumption DEF vars
<1> QED
  BY StepsOfNext, <1>1, <1>2, <1>3, <1>4, <1>5, <1>6, <1>7, <1>8, <1>9, <1>10, <1>11, <1>12,
      <1>13, <1>14, <1>15, <1>16, <1>17, <1>18, <1>19, <1>20, <1>21, <1>22, <1>23, <1>24 DEF
      Steps

(* Nothing is admitted while the flag is up. *)
LEMMA ShutdownStep == TypeOK /\ ServeOwns /\ FlagKept /\ ConnsKnown /\ ShutdownReach /\ [Next]_vars => ShutdownReach'
<1> SUFFICES ASSUME TypeOK, ServeOwns, FlagKept, ConnsKnown, ShutdownReach, [Next]_vars PROVE ShutdownReach'
  OBVIOUS
<1> USE DEF TypeOK, FlagKept, ShutdownReach, Handles, flags, serveVars, connVars, shutVars,
    closeVars
<1>1. ASSUME NEW g \in Serves, Listen(g) PROVE ShutdownReach'
  BY <1>1, PipeAssumption DEF Listen
<1>2. ASSUME NEW g \in Serves, Install(g) PROVE ShutdownReach'
  BY <1>2, PipeAssumption DEF Install, Cut
<1>3. ASSUME NEW g \in Serves, Leaves(g) PROVE ShutdownReach'
  BY <1>3, PipeAssumption DEF Leaves
<1>4. ASSUME NEW g \in Serves, NEW last \in BOOLEAN, Epilogue(g, last) PROVE ShutdownReach'
  BY <1>4, PipeAssumption DEF Epilogue, Cut
<1>5. ASSUME NEW g \in Serves, Cancel(g) PROVE ShutdownReach'
  BY <1>5, PipeAssumption DEF Cancel
<1>6. ASSUME NEW g \in Serves, StopAccept(g) PROVE ShutdownReach'
  BY <1>6, PipeAssumption DEF StopAccept, Cut
<1>7. ASSUME NEW g \in Serves, ListenerFails(g) PROVE ShutdownReach'
  BY <1>7, PipeAssumption DEF ListenerFails
<1>8. ASSUME NEW g \in Serves, NEW c \in Conns, NEW r \in Remotes, Arrive(g, c, r) PROVE ShutdownReach'
  BY <1>8, PipeAssumption DEF Arrive
<1>9. ASSUME NEW g \in Serves, NEW c \in Conns, Admits(g, c) PROVE ShutdownReach'
  BY <1>9, PipeAssumption DEF Admits, Admit
<1>10. ASSUME NEW g \in Serves, NEW c \in Conns, Demuxes(g, c) PROVE ShutdownReach'
  BY <1>10, PipeAssumption DEF Demuxes, Demux
<1>11. ASSUME NEW g \in Serves, NEW c \in Conns, UpgradeFails(g, c) PROVE ShutdownReach'
  BY <1>11, PipeAssumption DEF UpgradeFails
<1>12. ASSUME NEW c \in Conns, CallbackReturns(c) PROVE ShutdownReach'
  BY <1>12, PipeAssumption DEF CallbackReturns
<1>13. ASSUME NEW c \in Conns, Untrack(c) PROVE ShutdownReach'
  BY <1>13, PipeAssumption DEF Untrack
<1>14. ASSUME NEW c \in Handles, OwnerCloses(c) PROVE ShutdownReach'
  BY <1>14, PipeAssumption DEF OwnerCloses, ConnClose
<1>15. ASSUME NEW d \in Dials, DialRuns(d) PROVE ShutdownReach'
  BY <1>15, PipeAssumption DEF DialRuns, DialSteps, DialTracks, ConnClose
<1>16. ASSUME NEW s \in Shutdowns, ShutdownMark(s) PROVE ShutdownReach'
  BY <1>16, PipeAssumption DEF ShutdownMark
<1>17. ASSUME NEW s \in Shutdowns, ShutdownStop(s) PROVE ShutdownReach'
  BY <1>17, PipeAssumption DEF ShutdownStop, Cut
<1>18. ASSUME NEW s \in Shutdowns, ShutdownWait(s) PROVE ShutdownReach'
  BY <1>18, PipeAssumption DEF ShutdownWait, CallbacksOver
<1>19. ASSUME NEW s \in Shutdowns, ShutdownSweeps(s) PROVE ShutdownReach'
  <2> PICK swept \in {tracked, tracked \cap Conns} : ShutdownExpire(s, swept)
    BY <1>19 DEF ShutdownSweeps
  <2>1. \A c \in Conns : cb[c] = "running" => conn[c] = "closed" \/ c \in swept
    BY DEF ConnsKnown
  <2>2. UNCHANGED <<cb, doneChan, shutOf>>
    BY DEF ShutdownExpire
  <2>3. CASE shut' = [shut EXCEPT ![s] = "sweep"] /\ conn' = conn
              /\ shutTodo' = [shutTodo EXCEPT ![s] = swept]
    BY <2>1, <2>2, <2>3
  <2>4. ASSUME NEW x \in shutTodo[s], ConnClose({x}), shut' = shut,
               shutTodo' = [shutTodo EXCEPT ![s] = shutTodo[s] \ {x}]
        PROVE  ShutdownReach'
    BY <2>2, <2>4 DEF ConnClose
  <2>5. CASE shut[s] = "sweep" /\ shutTodo[s] = {} /\ conn' = conn
              /\ shut' = [shut EXCEPT ![s] = "deadline"] /\ shutTodo' = shutTodo
    BY <2>2, <2>5
  <2> QED
    BY <2>3, <2>4, <2>5 DEF ShutdownExpire
<1>20. ASSUME NEW s \in Shutdowns, Expire(s) PROVE ShutdownReach'
  BY <1>20, PipeAssumption DEF Expire
<1>21. ASSUME NEW k \in Closes, CloseMark(k) PROVE ShutdownReach'
  BY <1>21, PipeAssumption DEF CloseMark
<1>22. ASSUME NEW k \in Closes, CloseStop(k) PROVE ShutdownReach'
  BY <1>22, PipeAssumption DEF CloseStop, Cut
<1>23. ASSUME NEW k \in Closes, CloseSweep(k) PROVE ShutdownReach'
  BY <1>23, PipeAssumption DEF CloseSweep, ConnClose
<1>24. CASE UNCHANGED vars
  BY <1>24, PipeAssumption DEF vars
<1> QED
  BY StepsOfNext, <1>1, <1>2, <1>3, <1>4, <1>5, <1>6, <1>7, <1>8, <1>9, <1>10, <1>11, <1>12,
      <1>13, <1>14, <1>15, <1>16, <1>17, <1>18, <1>19, <1>20, <1>21, <1>22, <1>23, <1>24 DEF
      Steps

(* closed stays, and Install, Admit and DialTracks look at it. *)
LEMMA CloseStep == TypeOK /\ ServeOwns /\ ConnsKnown /\ CloseReach /\ [Next]_vars => CloseReach'
<1> SUFFICES ASSUME TypeOK, ServeOwns, ConnsKnown, CloseReach, [Next]_vars PROVE CloseReach'
  OBVIOUS
<1> USE DEF TypeOK, CloseReach, Handles, flags, serveVars, connVars, shutVars, closeVars
<1>1. ASSUME NEW g \in Serves, Listen(g) PROVE CloseReach'
  BY <1>1, PipeAssumption DEF Listen
<1>2. ASSUME NEW g \in Serves, Install(g) PROVE CloseReach'
  BY <1>2, PipeAssumption DEF Install, Cut
<1>3. ASSUME NEW g \in Serves, Leaves(g) PROVE CloseReach'
  BY <1>3, PipeAssumption DEF Leaves
<1>4. ASSUME NEW g \in Serves, NEW last \in BOOLEAN, Epilogue(g, last) PROVE CloseReach'
  BY <1>4, PipeAssumption DEF Epilogue, Cut
<1>5. ASSUME NEW g \in Serves, Cancel(g) PROVE CloseReach'
  BY <1>5, PipeAssumption DEF Cancel
<1>6. ASSUME NEW g \in Serves, StopAccept(g) PROVE CloseReach'
  BY <1>6, PipeAssumption DEF StopAccept, Cut
<1>7. ASSUME NEW g \in Serves, ListenerFails(g) PROVE CloseReach'
  BY <1>7, PipeAssumption DEF ListenerFails
<1>8. ASSUME NEW g \in Serves, NEW c \in Conns, NEW r \in Remotes, Arrive(g, c, r) PROVE CloseReach'
  BY <1>8, PipeAssumption DEF Arrive
<1>9. ASSUME NEW g \in Serves, NEW c \in Conns, Admits(g, c) PROVE CloseReach'
  BY <1>9, PipeAssumption DEF Admits, Admit
<1>10. ASSUME NEW g \in Serves, NEW c \in Conns, Demuxes(g, c) PROVE CloseReach'
  BY <1>10, PipeAssumption DEF Demuxes, Demux
<1>11. ASSUME NEW g \in Serves, NEW c \in Conns, UpgradeFails(g, c) PROVE CloseReach'
  BY <1>11, PipeAssumption DEF UpgradeFails
<1>12. ASSUME NEW c \in Conns, CallbackReturns(c) PROVE CloseReach'
  BY <1>12, PipeAssumption DEF CallbackReturns
<1>13. ASSUME NEW c \in Conns, Untrack(c) PROVE CloseReach'
  BY <1>13, PipeAssumption DEF Untrack
<1>14. ASSUME NEW c \in Handles, OwnerCloses(c) PROVE CloseReach'
  BY <1>14, PipeAssumption DEF OwnerCloses, ConnClose
<1>15. ASSUME NEW d \in Dials, DialRuns(d) PROVE CloseReach'
  BY <1>15, PipeAssumption DEF DialRuns, DialSteps, DialTracks, ConnClose
<1>16. ASSUME NEW s \in Shutdowns, ShutdownMark(s) PROVE CloseReach'
  BY <1>16, PipeAssumption DEF ShutdownMark
<1>17. ASSUME NEW s \in Shutdowns, ShutdownStop(s) PROVE CloseReach'
  BY <1>17, PipeAssumption DEF ShutdownStop, Cut
<1>18. ASSUME NEW s \in Shutdowns, ShutdownWait(s) PROVE CloseReach'
  BY <1>18, PipeAssumption DEF ShutdownWait, CallbacksOver
<1>19. ASSUME NEW s \in Shutdowns, ShutdownSweeps(s) PROVE CloseReach'
  BY <1>19, PipeAssumption DEF ShutdownSweeps, ShutdownExpire, ConnClose
<1>20. ASSUME NEW s \in Shutdowns, Expire(s) PROVE CloseReach'
  BY <1>20, PipeAssumption DEF Expire
<1>21. ASSUME NEW k \in Closes, CloseMark(k) PROVE CloseReach'
  <2>1. CASE closed
    BY <1>21, <2>1 DEF CloseMark
  <2>2. CASE ~closed
    <3>1. /\ closed' = TRUE /\ cl' = [cl EXCEPT ![k] = "stop"]
          /\ clOf' = [clOf EXCEPT ![k] = listener] /\ cl[k] = "idle"
          /\ UNCHANGED <<srv, sock, cb, conn, dial, clTodo>>
      BY <1>21, <2>2 DEF CloseMark
    <3>2. /\ \A g \in Serves : srv[g] = "loop" => listener = g
          /\ listener # None => srv[listener] \notin {"idle", "bound"}
      BY DEF ServeOwns
    <3>3. \A j \in Closes : cl[j] \in {"idle", "noop"}
      BY <2>2
    <3> QED
      BY <3>1, <3>2, <3>3
  <2> QED
    BY <2>1, <2>2
<1>22. ASSUME NEW k \in Closes, CloseStop(k) PROVE CloseReach'
  <2>1. /\ \A h \in Serves : sock'[h] = IF h = clOf[k] THEN "closed" ELSE sock[h]
        /\ cl[k] = "stop" /\ cl' = [cl EXCEPT ![k] = "snapshot"]
        /\ UNCHANGED <<closed, srv, cb, conn, dial, clOf, clTodo>>
    BY <1>22 DEF CloseStop, Cut
  <2>2. \A g \in Serves : sock[g] = "open" => srv[g] \in {"bound", "loop"}
    BY DEF ServeOwns
  <2>3. \A g \in Serves : sock'[g] = "open" => srv[g] = "bound"
    BY <2>1, <2>2
  <2> QED
    BY <2>1, <2>3
<1>23. ASSUME NEW k \in Closes, CloseSweep(k) PROVE CloseReach'
  <2>1. UNCHANGED <<closed, srv, sock, cb, dial, clOf>>
    BY <1>23 DEF CloseSweep
  <2>2. CASE cl[k] = "snapshot" /\ cl' = [cl EXCEPT ![k] = "sweep"]
              /\ clTodo' = [clTodo EXCEPT ![k] = tracked] /\ conn' = conn
    BY <2>1, <2>2 DEF ConnsKnown
  <2>3. ASSUME NEW x \in clTodo[k], ConnClose({x}), cl' = cl,
               clTodo' = [clTodo EXCEPT ![k] = clTodo[k] \ {x}]
        PROVE  CloseReach'
    BY <2>1, <2>3 DEF ConnClose
  <2>4. CASE cl[k] = "sweep" /\ clTodo[k] = {} /\ conn' = conn
              /\ cl' = [cl EXCEPT ![k] = "returned"] /\ clTodo' = clTodo
    BY <2>1, <2>4
  <2> QED
    BY <1>23, <2>2, <2>3, <2>4 DEF CloseSweep
<1>24. CASE UNCHANGED vars
  BY <1>24, PipeAssumption DEF vars
<1> QED
  BY StepsOfNext, <1>1, <1>2, <1>3, <1>4, <1>5, <1>6, <1>7, <1>8, <1>9, <1>10, <1>11, <1>12,
      <1>13, <1>14, <1>15, <1>16, <1>17, <1>18, <1>19, <1>20, <1>21, <1>22, <1>23, <1>24 DEF
      Steps

(* udp: one association per address. *)
LEMMA AddressStep == TypeOK /\ ConnsKnown /\ Addressed /\ [Next]_vars => Addressed'
<1> SUFFICES ASSUME TypeOK, ConnsKnown, Addressed, [Next]_vars PROVE Addressed'
  OBVIOUS
<1> USE DEF TypeOK, Addressed, Handles, flags, serveVars, connVars, shutVars, closeVars
<1>1. ASSUME NEW g \in Serves, Listen(g) PROVE Addressed'
  BY <1>1, PipeAssumption DEF Listen
<1>2. ASSUME NEW g \in Serves, Install(g) PROVE Addressed'
  BY <1>2, PipeAssumption DEF Install, Cut
<1>3. ASSUME NEW g \in Serves, Leaves(g) PROVE Addressed'
  BY <1>3, PipeAssumption DEF Leaves
<1>4. ASSUME NEW g \in Serves, NEW last \in BOOLEAN, Epilogue(g, last) PROVE Addressed'
  BY <1>4, PipeAssumption DEF Epilogue, Cut
<1>5. ASSUME NEW g \in Serves, Cancel(g) PROVE Addressed'
  BY <1>5, PipeAssumption DEF Cancel
<1>6. ASSUME NEW g \in Serves, StopAccept(g) PROVE Addressed'
  BY <1>6, PipeAssumption DEF StopAccept, Cut
<1>7. ASSUME NEW g \in Serves, ListenerFails(g) PROVE Addressed'
  BY <1>7, PipeAssumption DEF ListenerFails
<1>8. ASSUME NEW g \in Serves, NEW c \in Conns, NEW r \in Remotes, Arrive(g, c, r) PROVE Addressed'
  BY <1>8, PipeAssumption DEF Arrive
<1>9. ASSUME NEW g \in Serves, NEW c \in Conns, Admits(g, c) PROVE Addressed'
  BY <1>9, PipeAssumption DEF Admits, Admit
<1>10. ASSUME NEW g \in Serves, NEW c \in Conns, Demuxes(g, c) PROVE Addressed'
  <2>1. kind' = kind /\ conn[c] = "accepted" /\ Demux(g, c)
    BY <1>10 DEF Demuxes, Demux
  <2>2. CASE conn' = [conn EXCEPT ![c] = "none"] /\ cb' = cb
              /\ from' = [from EXCEPT ![c] = None] /\ remote' = [remote EXCEPT ![c] = None]
    BY <2>1, <2>2 DEF ConnsKnown
  <2>3. CASE conn' = [conn EXCEPT ![c] = "open"] /\ cb' = [cb EXCEPT ![c] = "running"]
              /\ UNCHANGED <<from, remote>>
    BY <2>1, <2>3
  <2> QED
    BY <2>1, <2>2, <2>3 DEF Demux
<1>11. ASSUME NEW g \in Serves, NEW c \in Conns, UpgradeFails(g, c) PROVE Addressed'
  BY <1>11, PipeAssumption DEF UpgradeFails
<1>12. ASSUME NEW c \in Conns, CallbackReturns(c) PROVE Addressed'
  BY <1>12, PipeAssumption DEF CallbackReturns
<1>13. ASSUME NEW c \in Conns, Untrack(c) PROVE Addressed'
  BY <1>13, PipeAssumption DEF Untrack
<1>14. ASSUME NEW c \in Handles, OwnerCloses(c) PROVE Addressed'
  BY <1>14, PipeAssumption DEF OwnerCloses, ConnClose
<1>15. ASSUME NEW d \in Dials, DialRuns(d) PROVE Addressed'
  BY <1>15, PipeAssumption DEF DialRuns, DialSteps, DialTracks, ConnClose
<1>16. ASSUME NEW s \in Shutdowns, ShutdownMark(s) PROVE Addressed'
  BY <1>16, PipeAssumption DEF ShutdownMark
<1>17. ASSUME NEW s \in Shutdowns, ShutdownStop(s) PROVE Addressed'
  BY <1>17, PipeAssumption DEF ShutdownStop, Cut
<1>18. ASSUME NEW s \in Shutdowns, ShutdownWait(s) PROVE Addressed'
  BY <1>18, PipeAssumption DEF ShutdownWait, CallbacksOver
<1>19. ASSUME NEW s \in Shutdowns, ShutdownSweeps(s) PROVE Addressed'
  BY <1>19, PipeAssumption DEF ShutdownSweeps, ShutdownExpire, ConnClose
<1>20. ASSUME NEW s \in Shutdowns, Expire(s) PROVE Addressed'
  BY <1>20, PipeAssumption DEF Expire
<1>21. ASSUME NEW k \in Closes, CloseMark(k) PROVE Addressed'
  BY <1>21, PipeAssumption DEF CloseMark
<1>22. ASSUME NEW k \in Closes, CloseStop(k) PROVE Addressed'
  BY <1>22, PipeAssumption DEF CloseStop, Cut
<1>23. ASSUME NEW k \in Closes, CloseSweep(k) PROVE Addressed'
  BY <1>23, PipeAssumption DEF CloseSweep, ConnClose
<1>24. CASE UNCHANGED vars
  BY <1>24, PipeAssumption DEF vars
<1> QED
  BY StepsOfNext, <1>1, <1>2, <1>3, <1>4, <1>5, <1>6, <1>7, <1>8, <1>9, <1>10, <1>11, <1>12,
      <1>13, <1>14, <1>15, <1>16, <1>17, <1>18, <1>19, <1>20, <1>21, <1>22, <1>23, <1>24 DEF
      Steps

LEMMA AssociationStep == TypeOK /\ ConnsKnown /\ Addressed /\ LiveAssociation /\ [Next]_vars => LiveAssociation'
<1> SUFFICES ASSUME TypeOK, ConnsKnown, Addressed, LiveAssociation, [Next]_vars PROVE LiveAssociation'
  OBVIOUS
<1> USE DEF TypeOK, Addressed, LiveAssociation, Handles, flags, serveVars, connVars,
    shutVars, closeVars
<1>1. ASSUME NEW g \in Serves, Listen(g) PROVE LiveAssociation'
  BY <1>1, PipeAssumption DEF Listen
<1>2. ASSUME NEW g \in Serves, Install(g) PROVE LiveAssociation'
  BY <1>2, PipeAssumption DEF Install, Cut
<1>3. ASSUME NEW g \in Serves, Leaves(g) PROVE LiveAssociation'
  BY <1>3, PipeAssumption DEF Leaves
<1>4. ASSUME NEW g \in Serves, NEW last \in BOOLEAN, Epilogue(g, last) PROVE LiveAssociation'
  BY <1>4, PipeAssumption DEF Epilogue, Cut
<1>5. ASSUME NEW g \in Serves, Cancel(g) PROVE LiveAssociation'
  BY <1>5, PipeAssumption DEF Cancel
<1>6. ASSUME NEW g \in Serves, StopAccept(g) PROVE LiveAssociation'
  BY <1>6, PipeAssumption DEF StopAccept, Cut
<1>7. ASSUME NEW g \in Serves, ListenerFails(g) PROVE LiveAssociation'
  BY <1>7, PipeAssumption DEF ListenerFails
<1>8. ASSUME NEW g \in Serves, NEW c \in Conns, NEW r \in Remotes, Arrive(g, c, r) PROVE LiveAssociation'
  BY <1>8, PipeAssumption DEF Arrive
<1>9. ASSUME NEW g \in Serves, NEW c \in Conns, Admits(g, c) PROVE LiveAssociation'
  BY <1>9, PipeAssumption DEF Admits, Admit
<1>10. ASSUME NEW g \in Serves, NEW c \in Conns, Demuxes(g, c) PROVE LiveAssociation'
  BY <1>10, PipeAssumption DEF Demuxes, Demux
<1>11. ASSUME NEW g \in Serves, NEW c \in Conns, UpgradeFails(g, c) PROVE LiveAssociation'
  BY <1>11, PipeAssumption DEF UpgradeFails
<1>12. ASSUME NEW c \in Conns, CallbackReturns(c) PROVE LiveAssociation'
  BY <1>12, PipeAssumption DEF CallbackReturns
<1>13. ASSUME NEW c \in Conns, Untrack(c) PROVE LiveAssociation'
  BY <1>13, PipeAssumption DEF Untrack
<1>14. ASSUME NEW c \in Handles, OwnerCloses(c) PROVE LiveAssociation'
  BY <1>14, PipeAssumption DEF OwnerCloses, ConnClose
<1>15. ASSUME NEW d \in Dials, DialRuns(d) PROVE LiveAssociation'
  BY <1>15, PipeAssumption DEF DialRuns, DialSteps, DialTracks, ConnClose
<1>16. ASSUME NEW s \in Shutdowns, ShutdownMark(s) PROVE LiveAssociation'
  BY <1>16, PipeAssumption DEF ShutdownMark
<1>17. ASSUME NEW s \in Shutdowns, ShutdownStop(s) PROVE LiveAssociation'
  BY <1>17, PipeAssumption DEF ShutdownStop, Cut
<1>18. ASSUME NEW s \in Shutdowns, ShutdownWait(s) PROVE LiveAssociation'
  BY <1>18, PipeAssumption DEF ShutdownWait, CallbacksOver
<1>19. ASSUME NEW s \in Shutdowns, ShutdownSweeps(s) PROVE LiveAssociation'
  BY <1>19, PipeAssumption DEF ShutdownSweeps, ShutdownExpire, ConnClose
<1>20. ASSUME NEW s \in Shutdowns, Expire(s) PROVE LiveAssociation'
  BY <1>20, PipeAssumption DEF Expire
<1>21. ASSUME NEW k \in Closes, CloseMark(k) PROVE LiveAssociation'
  BY <1>21, PipeAssumption DEF CloseMark
<1>22. ASSUME NEW k \in Closes, CloseStop(k) PROVE LiveAssociation'
  BY <1>22, PipeAssumption DEF CloseStop, Cut
<1>23. ASSUME NEW k \in Closes, CloseSweep(k) PROVE LiveAssociation'
  BY <1>23, PipeAssumption DEF CloseSweep, ConnClose
<1>24. CASE UNCHANGED vars
  BY <1>24, PipeAssumption DEF vars
<1> QED
  BY StepsOfNext, <1>1, <1>2, <1>3, <1>4, <1>5, <1>6, <1>7, <1>8, <1>9, <1>10, <1>11, <1>12,
      <1>13, <1>14, <1>15, <1>16, <1>17, <1>18, <1>19, <1>20, <1>21, <1>22, <1>23, <1>24 DEF
      Steps

LEMMA PipeInvariant == Spec => []PipeInv
<1>1. PipeInv /\ [Next]_vars => PipeInv'
  BY TypeStep, OwnStep, FlagStep, KnownStep, ShutdownStep, CloseStep, AddressStep,
     AssociationStep DEF PipeInv
<1> QED
  BY <1>1, PipeInit, PTL DEF Spec

-----------------------------------------------------------------------------
(* Once the Close that did the work has returned, no callback has a usable  *)
(* connection, no dialed one is left open and no listener is accepting, in  *)
(* whatever step Close met a Dial, an accept or a Serve (tcp, ws, udp,      *)
(* http1 and http2: Close).                                                 *)
THEOREM CloseIsComplete == Spec => []CloseClosesAll
<1>1. PipeInv => CloseClosesAll
  BY DEF PipeInv, CloseReach, CloseClosesAll
<1> QED
  BY <1>1, PipeInvariant, PTL

(* A Shutdown that returned nil left no callback of its Serve running, and  *)
(* one that ran into its deadline closed the connections of those that are  *)
(* (Shutdown of the five carriers).                                         *)
THEOREM ShutdownIsSettled == Spec => []ShutdownSettles
<1>1. PipeInv => ShutdownSettles
  <2> SUFFICES ASSUME PipeInv, NEW s \in Shutdowns, NEW c \in Conns,
                      cb[c] = "running", from[c] = shutOf[s], shutOf[s] = doneChan
               PROVE  shut[s] # "nil" /\ (shut[s] = "deadline" => conn[c] = "closed")
    BY DEF ShutdownSettles
  <2>1. from[c] # None
    BY PipeAssumption DEF PipeInv, Addressed
  <2> QED
    BY <2>1 DEF PipeInv, ShutdownReach
<1> QED
  BY <1>1, PipeInvariant, PTL

(* udp: while an association is live its address leads to it, and a sweep   *)
(* finds it, whatever older associations of the address are still doing     *)
(* (udp.go, Serve and untrackAssoc).                                        *)
THEOREM AssociationStaysLive == Spec => []LiveAssociation
<1>1. PipeInv => LiveAssociation
  BY DEF PipeInv
<1> QED
  BY <1>1, PipeInvariant, PTL

(* A step on which a Serve decides to report an accept error is one on      *)
(* which its listener has failed of itself.                                 *)
BlamesListener == \A g \in failed' \ failed : sock[g] = "failed"

(* A Serve that Shutdown, Close or its context stopped never reports an     *)
(* accept error, the safety part of StopEnds (Serve of the five carriers:   *)
(* the flags are read after the accept has failed).                         *)
THEOREM StopIsNoError == Spec => [][BlamesListener]_vars
<1>1. PipeInv /\ [Next]_vars => [BlamesListener]_vars
  <2> SUFFICES ASSUME PipeInv, Next PROVE BlamesListener
    OBVIOUS
  <2>1. ASSUME NEW g \in Serves, Leaves(g) PROVE BlamesListener
    BY <2>1 DEF Leaves, BlamesListener, PipeInv, ServeOwns, TypeOK
  <2>2. (\E g \in Serves : Leaves(g)) \/ failed' = failed
    BY StepsOfNext
    DEF Steps, Listen, Install, Epilogue, Cancel, StopAccept, ListenerFails, Arrive, Admits,
        Admit, Demuxes, Demux, UpgradeFails, CallbackReturns, Untrack, OwnerCloses, DialRuns,
        ShutdownMark, ShutdownStop, ShutdownWait, ShutdownSweeps, ShutdownExpire, Expire,
        CloseMark, CloseStop, CloseSweep, serveVars
  <2> QED
    BY <2>1, <2>2 DEF BlamesListener
<1> QED
  BY <1>1, PipeInvariant, PTL DEF Spec
=============================================================================
