-------------------------------- MODULE Pipe --------------------------------
(***************************************************************************)
(* The byte-level carriers below the transports: transport/tcp, ws, udp,   *)
(* http1 and http2, the five implementations of transport.Pipe.  Each has  *)
(* the same four operations over the same guarded state (the listener, the *)
(* tracked connections, serving / shutdown / closed, the callback          *)
(* WaitGroup and serveDone), written out five times with differences that  *)
(* matter: who owns the socket of an accepted connection, which tracked    *)
(* connections a sweep closes, when serveDone closes, and, for udp, the    *)
(* demultiplexing of datagrams by remote address.                          *)
(*                                                                         *)
(* A step is one critical section of the transport's mutex or one blocking *)
(* call outside it.  onConn is the caller's code: it may close its         *)
(* connection, return, or never return.                                    *)
(***************************************************************************)
EXTENDS Naturals, FiniteSets

CONSTANTS
    Kinds,       \* the carriers to check, a subset of Carriers
    NServes,     \* bound: calls of Serve on one transport
    NConns,      \* bound, per carrier: connections accepted (udp: associations)
    Dials,       \* calls of Dial, each also naming the Conn it makes
    Remotes,     \* remote addresses (udp)
    Shutdowns,   \* calls of Shutdown
    Closes,      \* calls of Close
    MaxCalls,    \* bound: calls and cancellations in one behaviour
    None

Serves == 1 .. NServes
Carriers == {"tcp", "ws", "udp", "http1", "http2"}
Conns == UNION {1 .. NConns[k] : k \in Kinds}
Http == {"http1", "http2"}

ASSUME PipeAssumption ==
    /\ Kinds \subseteq Carriers
    /\ {NServes, MaxCalls} \subseteq Nat
    /\ NConns \in [Kinds -> Nat]
    /\ None \notin Serves \cup Conns \cup Dials \cup Remotes
    /\ Dials \cap Conns = {}

VARIABLES
    kind,        \* which carrier this is
    serving, shutdown, closed,   \* the Transport's flags
    listener,    \* the Serve whose listener (socket, server) is installed
    doneChan,    \* the Serve whose serveDone is installed
    doneClosed,  \* the Serves whose serveDone is closed
    srv,         \* where each Serve is
    failed,      \* the Serves that end with an accept error
    sock,        \* its listener: "open", "closed" by the program, "failed"
    cancelled,   \* the Serves whose context is done
    conn,        \* every Conn: "none", "accepted", "open", "closed"
    from,        \* the Serve that accepted it
    remote,      \* its peer (udp)
    cb,          \* its onConn callback: counted by onConnWG while running
    tracked,     \* the transport's map of connections
    assocs,      \* udp: remote address -> association
    dial,        \* where each Dial is
    shut,        \* where each Shutdown is
    shutOf,      \* the Serve it captured
    expired,     \* the Shutdowns whose deadline has passed
    shutTodo,    \* connections it still has to close
    cl,          \* where each Close is
    clOf,        \* the Serve it captured
    clTodo       \* connections it still has to close

flags == <<kind, serving, shutdown, closed>>
serveVars == <<listener, doneChan, doneClosed, srv, failed>>
connVars == <<conn, from, remote, cb, tracked, assocs>>
shutVars == <<shut, shutOf, shutTodo>>
closeVars == <<cl, clOf, clTodo>>
vars == <<flags, serveVars, sock, cancelled, connVars, dial, shutVars, expired,
          closeVars>>

Handles == Conns \cup Dials

TypeOK ==
    /\ kind \in Kinds
    /\ {serving, shutdown, closed} \subseteq BOOLEAN
    /\ {listener, doneChan} \subseteq Serves \cup {None}
    /\ doneClosed \subseteq Serves /\ cancelled \subseteq Serves
    /\ failed \subseteq Serves
    /\ srv \in [Serves -> {"idle", "bound", "loop", "leaving", "releasing",
                           "returned"}]
    /\ sock \in [Serves -> {"none", "open", "closed", "failed"}]
    /\ conn \in [Handles -> {"none", "accepted", "open", "closed"}]
    /\ from \in [Conns -> Serves \cup {None}]
    /\ remote \in [Conns -> Remotes \cup {None}]
    /\ cb \in [Conns -> {"none", "running", "leaving", "done"}]
    /\ tracked \subseteq Handles
    /\ assocs \in [Remotes -> Conns \cup {None}]
    /\ dial \in [Dials -> {"idle", "dialing", "dialed", "returned", "failed"}]
    /\ shut \in [Shutdowns -> {"idle", "stop", "wait", "drained", "sweep",
                               "nil", "deadline", "noop"}]
    /\ shutOf \in [Shutdowns -> Serves \cup {None}]
    /\ expired \subseteq Shutdowns
    /\ shutTodo \in [Shutdowns -> SUBSET Handles]
    /\ cl \in [Closes -> {"idle", "stop", "snapshot", "sweep", "returned",
                          "noop"}]
    /\ clOf \in [Closes -> Serves \cup {None}]
    /\ clTodo \in [Closes -> SUBSET Handles]

\* New: an empty transport of one of the kinds, nothing called yet.
Init ==
    /\ kind \in Kinds
    /\ serving = FALSE /\ shutdown = FALSE /\ closed = FALSE
    /\ listener = None /\ doneChan = None /\ doneClosed = {}
    /\ srv = [g \in Serves |-> "idle"]
    /\ failed = {}
    /\ sock = [g \in Serves |-> "none"]
    /\ cancelled = {}
    /\ conn = [c \in Handles |-> "none"]
    /\ from = [c \in Conns |-> None]
    /\ remote = [c \in Conns |-> None]
    /\ cb = [c \in Conns |-> "none"]
    /\ tracked = {}
    /\ assocs = [r \in Remotes |-> None]
    /\ dial = [d \in Dials |-> "idle"]
    /\ shut = [s \in Shutdowns |-> "idle"]
    /\ shutOf = [s \in Shutdowns |-> None]
    /\ expired = {}
    /\ shutTodo = [s \in Shutdowns |-> {}]
    /\ cl = [k \in Closes |-> "idle"]
    /\ clOf = [k \in Closes |-> None]
    /\ clTodo = [k \in Closes |-> {}]

\* The sockets after the listener (http: the server) of g, if any, is closed.
\* Closing twice is harmless.
Cut(g) == [x \in Serves |-> IF x = g THEN "closed" ELSE sock[x]]

\* Whether one more operation may be called, or context cancelled.
MayCall ==
    Cardinality({g \in Serves : srv[g] # "idle"})
        + Cardinality(cancelled)
        + Cardinality({d \in Dials : dial[d] # "idle"})
        + Cardinality({s \in Shutdowns : shut[s] # "idle"})
        + Cardinality({k \in Closes : cl[k] # "idle"}) < MaxCalls

\* onConnWG.Wait would return.
CallbacksOver == \A c \in Conns : cb[c] \notin {"running", "leaving"}

-----------------------------------------------------------------------------
(* Serve.  Binding the address comes before the lock, so two Serves, or a  *)
(* Serve and a Close, race for it.                                         *)

Listen(g) ==
    /\ srv[g] = "idle" /\ MayCall
    /\ \A h \in Serves : h < g => srv[h] # "idle"   \* numbered in call order
    /\ \/ /\ srv' = [srv EXCEPT ![g] = "bound"]
          /\ sock' = [sock EXCEPT ![g] = "open"]
       \/ /\ srv' = [srv EXCEPT ![g] = "returned"]
          /\ UNCHANGED sock
    /\ UNCHANGED <<flags, listener, doneChan, doneClosed, failed, cancelled,
                   connVars, dial, shutVars, expired, closeVars>>

\* Under the lock: refused when closed or already serving; otherwise the
\* listener and a fresh serveDone are installed and the shutdown flag cleared.
Install(g) ==
    /\ srv[g] = "bound"
    /\ IF closed \/ serving
       THEN /\ srv' = [srv EXCEPT ![g] = "returned"]
            /\ sock' = Cut(g)
            /\ UNCHANGED <<flags, listener, doneChan>>
       ELSE /\ srv' = [srv EXCEPT ![g] = "loop"]
            /\ serving' = TRUE
            /\ shutdown' = FALSE
            /\ listener' = g
            /\ doneChan' = g
            /\ UNCHANGED <<kind, closed, sock>>
    /\ UNCHANGED <<doneClosed, failed, cancelled, connVars, dial, shutVars,
                   expired, closeVars>>

\* Accept (udp: ReadFrom; http: srv.Serve) fails: the listener was closed or
\* broke.  The flags are read under the lock and decide whether Serve returns
\* an accept error or (nil, or the context's error) that it was stopped.
\* `holding` says the loop still has a connection in hand; `quiet` that an
\* http.ErrServerClosed without a reason is not an error.
Stopped(g, holding, quiet) ==
    /\ srv[g] = "loop" /\ sock[g] # "open" /\ ~holding
    /\ srv' = [srv EXCEPT ![g] = "leaving"]
    /\ failed' = IF \/ shutdown \/ closed \/ g \in cancelled
                    \/ quiet /\ sock[g] = "closed"
                 THEN failed ELSE failed \cup {g}
    /\ UNCHANGED <<flags, listener, doneChan, doneClosed, sock, cancelled,
                   connVars, dial, shutVars, expired, closeVars>>

\* The deferred epilogue, first under the lock and then closing the listener.
\* http2 closes serveDone last, the others with the lock held.
Epilogue(g, doneLast) ==
    \/ /\ srv[g] = "leaving"
       /\ srv' = [srv EXCEPT ![g] = "releasing"]
       /\ serving' = FALSE
       /\ listener' = IF listener = g THEN None ELSE listener
       /\ doneClosed' = IF doneLast THEN doneClosed ELSE doneClosed \cup {g}
       /\ UNCHANGED <<kind, shutdown, closed, doneChan, failed, sock, cancelled,
                      connVars, dial, shutVars, expired, closeVars>>
    \/ /\ srv[g] = "releasing"
       /\ srv' = [srv EXCEPT ![g] = "returned"]
       /\ sock' = Cut(g)
       /\ doneClosed' = doneClosed \cup {g}
       /\ UNCHANGED <<flags, listener, doneChan, failed, cancelled, connVars, dial,
                      shutVars, expired, closeVars>>

\* A peer connects (udp: a datagram is read; http: a request arrives).  An
\* accept loop holds one at a time; http handlers run side by side, and go on
\* arriving over live connections when only the listener has broken.
Arrive(g, c, r) ==
    /\ c <= NConns[kind]
    /\ conn[c] = "none" /\ \A b \in Conns : b < c => conn[b] # "none"
    /\ \/ /\ kind \in {"tcp", "udp"}
          /\ srv[g] = "loop" /\ sock[g] = "open"
          /\ \A b \in Conns : conn[b] = "accepted" => from[b] # g
       \/ /\ kind \notin {"tcp", "udp"}
          /\ srv[g] \in {"loop", "leaving", "releasing"}
          /\ sock[g] \in {"open", "failed"}
    /\ conn' = [conn EXCEPT ![c] = "accepted"]
    /\ from' = [from EXCEPT ![c] = g]
    /\ remote' = [remote EXCEPT ![c] = IF kind = "udp" THEN r ELSE None]
    /\ UNCHANGED <<flags, serveVars, sock, cancelled, cb, tracked, assocs, dial,
                   shutVars, expired, closeVars>>

\* Admit without looking at the shutdown flag.
AdmitUnchecked(g, c) ==
    /\ conn[c] = "accepted" /\ from[c] = g
    /\ conn' = [conn EXCEPT ![c] = IF closed THEN "closed" ELSE "open"]
    /\ cb' = IF closed THEN cb ELSE [cb EXCEPT ![c] = "running"]
    /\ tracked' = IF closed THEN tracked ELSE tracked \cup {c}
    /\ UNCHANGED <<flags, serveVars, sock, cancelled, from, remote, assocs, dial,
                   shutVars, expired, closeVars>>

\* A connection is in hand.  Under the lock it is turned away when the
\* transport is stopping, otherwise tracked and counted, and onConn starts.
Admit(g, c) ==
    /\ conn[c] = "accepted" /\ from[c] = g
    /\ IF shutdown \/ closed
       THEN /\ conn' = [conn EXCEPT ![c] = "closed"]
            /\ UNCHANGED <<cb, tracked>>
       ELSE /\ conn' = [conn EXCEPT ![c] = "open"]
            /\ cb' = [cb EXCEPT ![c] = "running"]
            /\ tracked' = tracked \cup {c}
    /\ UNCHANGED <<flags, serveVars, sock, cancelled, from, remote, assocs, dial,
                   shutVars, expired, closeVars>>

\* udp: the datagram of c's remote address.  It is dropped when stopping, goes
\* to the live association of that address if there is one, and otherwise
\* becomes a new association, replacing a closed one whose callback is still
\* on its way out.
Demux(g, c) ==
    LET r == remote[c]
        old == assocs[r]
        kept == shutdown \/ closed \/ (old # None /\ conn[old] # "closed")
    IN  /\ conn[c] = "accepted" /\ from[c] = g
        /\ IF kept
           THEN /\ conn' = [conn EXCEPT ![c] = "none"]
                /\ from' = [from EXCEPT ![c] = None]
                /\ remote' = [remote EXCEPT ![c] = None]
                /\ UNCHANGED <<cb, tracked, assocs>>
           ELSE /\ conn' = [conn EXCEPT ![c] = "open"]
                /\ cb' = [cb EXCEPT ![c] = "running"]
                /\ tracked' = (tracked \ {old}) \cup {c}
                /\ assocs' = [assocs EXCEPT ![r] = c]
                /\ UNCHANGED <<from, remote>>
        /\ UNCHANGED <<flags, serveVars, sock, cancelled, dial, shutVars,
                       expired, closeVars>>

InHand(g) == \E c \in Conns : conn[c] = "accepted" /\ from[c] = g

TcpServe(g) ==
    /\ kind = "tcp"
    /\ \/ Install(g)
       \/ \E c \in Conns : Admit(g, c)
       \/ Stopped(g, InHand(g), FALSE)
       \/ Epilogue(g, FALSE)

UdpServe(g) ==
    /\ kind = "udp"
    /\ \/ Install(g)
       \/ \E c \in Conns : Demux(g, c)
       \/ Stopped(g, InHand(g), FALSE)
       \/ Epilogue(g, FALSE)

WsServe(g) ==
    /\ kind = "ws"
    /\ \/ Install(g)
       \/ Stopped(g, FALSE, TRUE)
       \/ Epilogue(g, FALSE)

Http1Serve(g) ==
    /\ kind = "http1"
    /\ \/ Install(g)
       \/ Stopped(g, FALSE, TRUE)
       \/ Epilogue(g, FALSE)

Http2Serve(g) ==
    /\ kind = "http2"
    /\ \/ Install(g)
       \/ Stopped(g, FALSE, TRUE)
       \/ Epilogue(g, TRUE)

\* ws: the upgrade takes the connection over from the http.Server.  It may
\* fail, and onConn then never hears of it.
WsUpgrade(g, c) ==
    /\ kind = "ws"
    /\ \/ Admit(g, c)
       \/ /\ conn[c] = "accepted" /\ from[c] = g
          /\ conn' = [conn EXCEPT ![c] = "closed"]
          /\ UNCHANGED <<flags, serveVars, sock, cancelled, from, remote, cb,
                         tracked, assocs, dial, shutVars, expired, closeVars>>

Http1Request(g, c) == kind = "http1" /\ Admit(g, c)

Http2Request(g, c) == kind = "http2" /\ Admit(g, c)

\* The context given to Serve ends; context.AfterFunc then closes the listener
\* (ws, http: the server).
Cancel(g) ==
    /\ srv[g] \in {"bound", "loop"} /\ g \notin cancelled /\ MayCall
    /\ cancelled' = cancelled \cup {g}
    /\ UNCHANGED <<flags, serveVars, sock, connVars, dial, shutVars, expired,
                   closeVars>>

StopAccept(g) ==
    /\ srv[g] = "loop" /\ g \in cancelled /\ sock[g] # "closed"
    /\ sock' = Cut(g)
    /\ UNCHANGED <<flags, serveVars, cancelled, connVars, dial, shutVars,
                   expired, closeVars>>

\* The operating system fails the listener.
ListenerFails(g) ==
    /\ srv[g] = "loop" /\ sock[g] = "open"
    /\ sock' = [sock EXCEPT ![g] = "failed"]
    /\ UNCHANGED <<flags, serveVars, cancelled, connVars, dial, shutVars,
                   expired, closeVars>>

-----------------------------------------------------------------------------
(* Connections.                                                            *)

\* onConn returns.  udp closes the association here, before it takes the lock
\* to forget it; the others leave closing to onConn.
CallbackReturns(c) ==
    /\ cb[c] = "running"
    /\ cb' = [cb EXCEPT ![c] = "leaving"]
    /\ conn' = IF kind = "udp" THEN [conn EXCEPT ![c] = "closed"] ELSE conn
    /\ UNCHANGED <<flags, serveVars, sock, cancelled, from, remote, tracked,
                   assocs, dial, shutVars, expired, closeVars>>

\* Untrack that forgets the address whoever it leads to.
UntrackAddress(c) ==
    /\ cb[c] = "leaving"
    /\ cb' = [cb EXCEPT ![c] = "done"]
    /\ tracked' = tracked \ {c}
    /\ assocs' = [r \in Remotes |-> IF r = remote[c] THEN None ELSE assocs[r]]
    /\ UNCHANGED <<flags, serveVars, sock, cancelled, conn, from, remote, dial,
                   shutVars, expired, closeVars>>

\* untrack / untrackServer / untrackAssoc, then onConnWG.Done.  The address is
\* forgotten only if it still leads to this association.
Untrack(c) ==
    /\ cb[c] = "leaving"
    /\ cb' = [cb EXCEPT ![c] = "done"]
    /\ tracked' = tracked \ {c}
    /\ assocs' = [r \in Remotes |-> IF r = remote[c] /\ assocs[r] = c THEN None
                                    ELSE assocs[r]]
    /\ UNCHANGED <<flags, serveVars, sock, cancelled, conn, from, remote, dial,
                   shutVars, expired, closeVars>>

\* What closing the connections in cs does to conn and tracked: a dialed one
\* detaches itself, an accepted one stays tracked until its callback is over.
\* (Between the swap of its closed flag and the detach a dialed Conn is only
\* visible to a sweep, for which closing it again is a no-op.)
ConnClose(cs) ==
    /\ conn' = [c \in Handles |-> IF c \in cs THEN "closed" ELSE conn[c]]
    /\ tracked' = tracked \ (cs \cap Dials)

\* The owner of an open connection (onConn, or whoever dialed) closes it.
OwnerCloses(c) ==
    /\ conn[c] = "open"
    /\ IF c \in Dials THEN dial[c] = "returned" ELSE cb[c] = "running"
    /\ ConnClose({c})
    /\ UNCHANGED <<flags, serveVars, sock, cancelled, from, remote, cb, assocs,
                   dial, shutVars, expired, closeVars>>

-----------------------------------------------------------------------------
(* Dial: closed is read, the connection made without the lock (http: an    *)
(* endpoint handle, no I/O), and closed read again before it is tracked.   *)

DialSteps(d) ==
    \/ /\ dial[d] = "idle" /\ MayCall
       /\ dial' = [dial EXCEPT ![d] = IF closed THEN "failed" ELSE "dialing"]
       /\ UNCHANGED <<conn, tracked>>
    \/ /\ dial[d] = "dialing" /\ kind \notin Http
       /\ dial' = [dial EXCEPT ![d] = "failed"]
       /\ UNCHANGED <<conn, tracked>>
    \/ /\ dial[d] = "dialing"
       /\ dial' = [dial EXCEPT ![d] = "dialed"]
       /\ conn' = [conn EXCEPT ![d] = "open"]
       /\ UNCHANGED tracked

\* DialTracks without the second look at closed.
DialTracksBlindly(d) ==
    /\ dial[d] = "dialed"
    /\ dial' = [dial EXCEPT ![d] = "returned"]
    /\ tracked' = tracked \cup {d}
    /\ UNCHANGED conn

DialTracks(d) ==
    /\ dial[d] = "dialed"
    /\ IF closed
       THEN /\ dial' = [dial EXCEPT ![d] = "failed"]
            /\ ConnClose({d})
       ELSE /\ dial' = [dial EXCEPT ![d] = "returned"]
            /\ tracked' = tracked \cup {d}
            /\ UNCHANGED conn

DialRuns(d) ==
    /\ DialSteps(d) \/ DialTracks(d)
    /\ UNCHANGED <<flags, serveVars, sock, cancelled, from, remote, cb, assocs,
                   shutVars, expired, closeVars>>

TcpDial(d) == kind = "tcp" /\ DialRuns(d)
WsDial(d) == kind = "ws" /\ DialRuns(d)
UdpDial(d) == kind = "udp" /\ DialRuns(d)
Http1Dial(d) == kind = "http1" /\ DialRuns(d)
Http2Dial(d) == kind = "http2" /\ DialRuns(d)

-----------------------------------------------------------------------------
(* Shutdown.                                                               *)

\* ShutdownMark that never raises the flag.
ShutdownUnmarked(s) ==
    /\ shut[s] = "idle" /\ MayCall
    /\ shut' = [shut EXCEPT ![s] = IF closed THEN "noop"
                                   ELSE IF listener = None THEN "wait"
                                   ELSE "stop"]
    /\ shutOf' = IF closed THEN shutOf ELSE [shutOf EXCEPT ![s] = doneChan]
    /\ UNCHANGED <<flags, serveVars, sock, cancelled, connVars, dial, shutTodo,
                   expired, closeVars>>

\* Under the lock: nothing to do on a closed transport; otherwise the flag is
\* raised and the listener (none between two Serves) and serveDone of the
\* moment captured.
ShutdownMark(s) ==
    /\ shut[s] = "idle" /\ MayCall
    /\ IF closed
       THEN /\ shut' = [shut EXCEPT ![s] = "noop"]
            /\ UNCHANGED <<shutdown, shutOf>>
       ELSE /\ shut' = [shut EXCEPT ![s] = IF listener = None THEN "wait"
                                           ELSE "stop"]
            /\ shutdown' = TRUE
            /\ shutOf' = [shutOf EXCEPT ![s] = doneChan]
    /\ UNCHANGED <<kind, serving, closed, serveVars, sock, cancelled, connVars,
                   dial, shutTodo, expired, closeVars>>

\* The captured listener (http: the server, and with it the connections it
\* holds) is closed: the one of the Serve whose serveDone was captured.
ShutdownStop(s) ==
    /\ shut[s] = "stop"
    /\ shut' = [shut EXCEPT ![s] = "wait"]
    /\ sock' = Cut(shutOf[s])
    /\ UNCHANGED <<flags, serveVars, cancelled, connVars, dial, shutOf, shutTodo,
                   expired, closeVars>>

\* onConnWG.Wait returns; then serveDone, or the deadline, ends the call.
ShutdownWait(s) ==
    /\ \/ /\ shut[s] = "wait" /\ CallbacksOver
          /\ shut' = [shut EXCEPT ![s] = "drained"]
       \/ /\ shut[s] = "drained"
          /\ shutOf[s] \in doneClosed \cup {None} \/ s \in expired
          /\ shut' = [shut EXCEPT ![s] = "nil"]
    /\ UNCHANGED <<flags, serveVars, sock, cancelled, connVars, dial, shutOf,
                   shutTodo, expired, closeVars>>

\* The deadline passes first: a snapshot of `swept` is closed one by one, and
\* the call ends without waiting for the callbacks any longer.
ShutdownExpire(s, swept) ==
    \/ /\ shut[s] \in {"wait", "drained"} /\ s \in expired
       /\ shut' = [shut EXCEPT ![s] = "sweep"]
       /\ shutTodo' = [shutTodo EXCEPT ![s] = swept]
       /\ UNCHANGED <<flags, serveVars, sock, cancelled, connVars, dial, shutOf,
                      expired, closeVars>>
    \/ \E c \in shutTodo[s] :
          /\ shutTodo' = [shutTodo EXCEPT ![s] = @ \ {c}]
          /\ ConnClose({c})
          /\ UNCHANGED <<flags, serveVars, sock, cancelled, from, remote, cb,
                         assocs, dial, shut, shutOf, expired, closeVars>>
    \/ /\ shut[s] = "sweep" /\ shutTodo[s] = {}
       /\ shut' = [shut EXCEPT ![s] = "deadline"]
       /\ UNCHANGED <<flags, serveVars, sock, cancelled, connVars, dial, shutOf,
                      shutTodo, expired, closeVars>>

ShutdownRuns(s, swept) ==
    \/ ShutdownMark(s) \/ ShutdownStop(s) \/ ShutdownWait(s)
    \/ ShutdownExpire(s, swept)

\* tcp, ws and udp track dialed connections in the same map and sweep them too;
\* http keeps them apart and sweeps the server's side only.
TcpShutdown(s) == kind = "tcp" /\ ShutdownRuns(s, tracked)
WsShutdown(s) == kind = "ws" /\ ShutdownRuns(s, tracked)
UdpShutdown(s) == kind = "udp" /\ ShutdownRuns(s, tracked)
Http1Shutdown(s) == kind = "http1" /\ ShutdownRuns(s, tracked \cap Conns)
Http2Shutdown(s) == kind = "http2" /\ ShutdownRuns(s, tracked \cap Conns)

Expire(s) ==
    /\ shut[s] \in {"stop", "wait", "drained"} /\ s \notin expired
    /\ expired' = expired \cup {s}
    /\ UNCHANGED <<flags, serveVars, sock, cancelled, connVars, dial, shutVars,
                   closeVars>>

-----------------------------------------------------------------------------
(* Close.                                                                  *)

CloseMark(k) ==
    /\ cl[k] = "idle" /\ MayCall
    /\ IF closed
       THEN /\ cl' = [cl EXCEPT ![k] = "noop"]
            /\ UNCHANGED <<closed, shutdown, clOf>>
       ELSE /\ cl' = [cl EXCEPT ![k] = "stop"]
            /\ closed' = TRUE
            /\ shutdown' = TRUE
            /\ clOf' = [clOf EXCEPT ![k] = listener]
    /\ UNCHANGED <<kind, serving, serveVars, sock, cancelled, connVars, dial,
                   shutVars, expired, clTodo>>

CloseStop(k) ==
    /\ cl[k] = "stop"
    /\ cl' = [cl EXCEPT ![k] = "snapshot"]
    /\ sock' = Cut(clOf[k])
    /\ UNCHANGED <<flags, serveVars, cancelled, connVars, dial, shutVars,
                   expired, clOf, clTodo>>

CloseSweep(k) ==
    \/ /\ cl[k] = "snapshot"
       /\ cl' = [cl EXCEPT ![k] = "sweep"]
       /\ clTodo' = [clTodo EXCEPT ![k] = tracked]
       /\ UNCHANGED <<flags, serveVars, sock, cancelled, connVars, dial,
                      shutVars, expired, clOf>>
    \/ \E c \in clTodo[k] :
          /\ clTodo' = [clTodo EXCEPT ![k] = @ \ {c}]
          /\ ConnClose({c})
          /\ UNCHANGED <<flags, serveVars, sock, cancelled, from, remote, cb,
                         assocs, dial, shutVars, expired, cl, clOf>>
    \/ /\ cl[k] = "sweep" /\ clTodo[k] = {}
       /\ cl' = [cl EXCEPT ![k] = "returned"]
       /\ UNCHANGED <<flags, serveVars, sock, cancelled, connVars, dial,
                      shutVars, expired, clOf, clTodo>>

CloseRuns(k) == CloseMark(k) \/ CloseStop(k) \/ CloseSweep(k)

TcpClose(k) == kind = "tcp" /\ CloseRuns(k)
WsClose(k) == kind = "ws" /\ CloseRuns(k)
UdpClose(k) == kind = "udp" /\ CloseRuns(k)
Http1Close(k) == kind = "http1" /\ CloseRuns(k)
Http2Close(k) == kind = "http2" /\ CloseRuns(k)

-----------------------------------------------------------------------------
ServeRuns(g) ==
    TcpServe(g) \/ UdpServe(g) \/ WsServe(g) \/ Http1Serve(g) \/ Http2Serve(g)

Request(g, c) == WsUpgrade(g, c) \/ Http1Request(g, c) \/ Http2Request(g, c)

DialCall(d) ==
    TcpDial(d) \/ WsDial(d) \/ UdpDial(d) \/ Http1Dial(d) \/ Http2Dial(d)

ShutdownCall(s) ==
    \/ TcpShutdown(s) \/ WsShutdown(s) \/ UdpShutdown(s)
    \/ Http1Shutdown(s) \/ Http2Shutdown(s)

CloseCall(k) ==
    TcpClose(k) \/ WsClose(k) \/ UdpClose(k) \/ Http1Close(k) \/ Http2Close(k)

Next ==
    \/ \E g \in Serves :
          \/ Listen(g) \/ ServeRuns(g)
          \/ Cancel(g) \/ StopAccept(g) \/ ListenerFails(g)
          \/ \E c \in Conns : Request(g, c) \/ \E r \in Remotes : Arrive(g, c, r)
    \/ \E c \in Conns : CallbackReturns(c) \/ Untrack(c)
    \/ \E c \in Handles : OwnerCloses(c)
    \/ \E d \in Dials : DialCall(d)
    \/ \E s \in Shutdowns : ShutdownCall(s) \/ Expire(s)
    \/ \E k \in Closes : CloseCall(k)

Spec == Init /\ [][Next]_vars

\* Goroutines that have been started run; onConn, peers, callers and deadlines
\* promise nothing.
Fairness ==
    /\ \A g \in Serves : /\ WF_vars(ServeRuns(g))
                         /\ WF_vars(StopAccept(g))
    /\ \A s \in Shutdowns : WF_vars(shut[s] # "idle" /\ ShutdownCall(s))
    /\ \A k \in Closes : WF_vars(cl[k] # "idle" /\ CloseCall(k))

FairSpec == Spec /\ Fairness

-----------------------------------------------------------------------------
(* Properties.                                                             *)

\* Once the Close that did the work has returned, nothing the transport gave
\* out is usable: every running callback has a closed connection, every Conn
\* returned by Dial is closed, and no listener is open but one that a Serve has
\* yet to bring under the lock, which will refuse it.  A Dial or an accept that
\* was in the middle when Close swept cannot slip past it.
CloseClosesAll ==
    /\ TypeOK
    /\ (\E k \in Closes : cl[k] = "returned") =>
          /\ \A c \in Conns : cb[c] = "running" => conn[c] = "closed"
          /\ \A d \in Dials : dial[d] = "returned" => conn[d] = "closed"
          /\ \A g \in Serves : sock[g] = "open" => srv[g] = "bound"

\* When Shutdown has returned, the callbacks of the Serve it stopped are over
\* (nil), or have had their connections closed under them (its deadline).  No
\* connection is admitted behind the back of the wait, unless a later Serve has
\* put the transport back into service, which clears the shutdown flag.
ShutdownSettles ==
    \A s \in Shutdowns, c \in Conns :
        cb[c] = "running" /\ from[c] = shutOf[s] /\ shutOf[s] = doneChan =>
            /\ shut[s] # "nil"
            /\ shut[s] = "deadline" => conn[c] = "closed"

\* udp: while an association is live, the datagrams of its remote address reach
\* it: the demultiplexer leads to it, whatever older associations of the same
\* address are still doing on their way out, and a sweep will find it.
LiveAssociation ==
    kind = "udp" =>
        \A c \in Conns : cb[c] = "running" /\ conn[c] = "open" =>
            assocs[remote[c]] = c /\ c \in tracked

\* Stopping works: a Serve that was told to stop returns, a Shutdown returns
\* once its deadline has passed even if onConn never does, and Close returns;
\* and a Serve that is stopped by Shutdown, by Close or by its context never
\* reports an accept error: it does so only for a listener that failed.
StopEnds ==
    /\ [][\A g \in failed' \ failed : sock[g] = "failed"]_vars
    /\ \A g \in Serves :
          (srv[g] = "loop" /\ (shutdown \/ closed \/ g \in cancelled))
              ~> srv[g] = "returned"
    /\ \A s \in Shutdowns : (s \in expired) ~> (shut[s] \in {"nil", "deadline"})
    /\ \A k \in Closes : (cl[k] = "stop") ~> (cl[k] = "returned")

=============================================================================
