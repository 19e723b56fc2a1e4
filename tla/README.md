# Verification of Argos

Argos is a Go runtime for client/server protocols: a *session axis* (gRPC,
HTTP unary, RESP, ...) is combined with a *carrier* (tcp, udp, ws, http1,
http2) into a transport; a `client.Client` opens calls over it and a
`server.Server` serves them.  This directory holds TLA+ modules of the runtime,
the TLC configurations that check them and the TLAPS proofs about them.

## 1. The system

| Part | State | Operations | Talks to |
|---|---|---|---|
| Session pool (`internal/sessionpool`) | buckets of entries, refcounts, idle queues, reserved dials, cold-start flights, `closed` | `OpenCall`, `Acquire`, `Release`, `Close`, reclaimer tick | dials connections, lends them to client calls |
| Server connection loop (`server/conn.go`, `admit.go`, `statusmap.go`) | `active`, accept and connection contexts, age and idle timers, admission slots, per-call state | `onConn`, `handleCall`, `handleRejected`, `tryAdmit`, `close` | called by a carrier's `Serve`, calls the session's `AcceptCall`, the handler, the call's `Finish` |
| Server lifecycle (`server/server.go`, `binding.go`) | `routes`, `running`, `ran`, `stopped`, `runCtx`, `serveErr`, wait group | `Register`, `Run`, `Shutdown`, one goroutine per surface | starts `Serve`, closes the admission gate |
| Client calls (`client`, `filter`) | `inFlight`, per-call context, `AfterFunc`, leak cleanup, header and closed channels | `Open`, `Send`, `Recv`, `Header`, `Close` | filters, the pool through `OpenCall` |
| Carriers (`transport/tcp`, `udp`, `ws`, `http1`, `http2`) | tracked connections, listener, serve/shutdown/closed flags, wait group | `Serve`, `Dial`, `Shutdown`, `Close`, connection I/O | net, net/http; call `onConn` |
| gRPC axis (`transport/grpc` over `transport/http2`) | per-call flags (headers, half-close, finished, terminal), session reuse | `OpenCall`, `AcceptCall`, `Send`, `Recv`, `HalfClose`, `Finish`, `Close` | HTTP/2 carrier streams |
| HTTP unary axis (`transport/httpunary` over `transport/http1`) | one request buffer and one response per call, the handle's in-flight count and carriers | as above, the RPC and REST routers | HTTP/1 exchanges |
| RESP axis (`example/resp`) | per session a read loop, a buffer, one in-flight slot, `reusable` | handshake (HELLO, AUTH), unary and streaming commands, `Close` | tcp |
| synth axis (`example/synth`) | per call a `recvLoop` and an inbox, per session `reusable`, `exclusive` | greeting, OPEN/DATA/END/STATUS frames, `Close` | tcp |
| Call metadata (`metadata`) and its wire forms | headers and trailers of both directions, three freeze flags | add, get, `SendHeaders`, freeze | filters, handlers, both HTTP axes |
| Status, options, descriptors, codecs, compressors, code generator | tables and conversions | validation, lookup, encoding | everyone |

What is hard here:

* *dials outside the lock*: several callers read a bucket, drop the lock, dial
  and come back; limits, counts and shared flights must survive failures,
  panics, cancellations and a `Close` in between;
* *two looks at a flag*: `tryAdmit` reads `closed`, takes a slot and reads
  `closed` again; `onConn` raises a counter before it knows whether it may stay;
* *contexts with causes*: the accept context, the connection context and the
  call context end for different reasons and in different orders, and the
  status on the wire is read off the cause;
* *startup and shutdown racing*: `Run` drops its lock three times before it
  blocks, `Shutdown` may arrive in every gap;
* *exchanges with two owners*: a call and its session both abort a carrier, a
  handler and the transport's sweep both close a connection, and the response
  writer belongs to net/http again once the handler has returned;
* *a stream with four users*: the application's `Recv`, `Header` and `Close`
  and the `AfterFunc` share one call without a common lock;
* *replies known by their place only*: a RESP connection pairs replies with
  commands by counting, so a session lent one reply too early pairs every later
  one wrongly;
* *goroutines parked in a read*: synth's `recvLoop` and RESP's read loop own the
  socket, and `Close` has to end them without killing a healthy connection;
* *getters and freezes*: the axes read a metadata handle, write the wire and
  freeze the handle in separate steps, and any goroutine may write in between.

PROJECT.json lists these hazards at their lines, with the properties aimed at
each, and every component with what is left out of it.

## 2. Modules

Every section of code between two scheduling points (a lock, an atomic, a
channel operation, a call out) is one action.  Data is abstracted to what the
properties tell apart.  Operators introduced by "Mutation:" are wrong variants
of the definition that follows them; they are part of no specification, and each
property is known to fail when the definition is replaced by its variant.

**SessionPool** models `pool.go`.  A caller runs `OpenCall` once: reclaim and
lend under the lock (`pc = "lend"`), join or start a flight, dial, publish or
retire the connection, open the call, retry on a spent connection, release.
`tracked`/`idle`/`refcount`/`pendingDial`/`flights` are the buckets,
`conn`/`reusable`/`aged`/`stale` the world outside.  `DialOk`, `DialFail` and
`DialPanic` are the ways a dial ends; `PoolClose` collects under the lock and
`PoolCloseConn` closes one connection at a time after it.

**ServerConn** models one listen surface: `onConn` per connection, `handleCall`
per call, the admission gate they share.  `AcceptCall`, `AcceptRejected`,
`AcceptEOF`, `AcceptWoken` and `AcceptError` are the returns of the session's
`AcceptCall`; `Admit`, `TakeSlot` and `Recheck` are the three sections of
`tryAdmit`; `Drain` is the deferred tail of `onConn`.

**ServerLifecycle** models `Register`, `Run`, `Shutdown` and the goroutine of
each surface.  `Serve` is external: it ends with its context, fails, or returns
nil because the transport's owner stopped it.

**ClientCall** models `Client.Open` with its filter chain, and the
`CallStream`.  The filter chain is evaluated by `ChainOpen`, a recursive
function over the list of filter behaviours; a filter may pass, refuse, return
nothing, call next twice, fail after next, or return a stream of its own.

**Pipe** models the five carriers' `Serve`, `Dial`, `Shutdown` and `Close` over
the state they all keep: the listener, the tracked connections, the flags, the
callback wait group and `serveDone`.  `kind` says which carrier a behaviour is
about; the steps that differ per carrier (what `Shutdown` sweeps, the socket an
accepted connection owns, udp's association table) branch on it.  `onConn` is
the caller's: it may close its connection, return, or never return.

**GrpcExchange** models a gRPC client session, its calls, the HTTP/2 exchange of
each call and the peer.  `sess` is `clientSession` with its `streamConn`, `call`
the initiator's call, `car` the `clientCarrier`, `wire` the response as it has
arrived, `resp` the responder's call with `serverCarrier` and `serverConn`.
`Recv` is five steps (wait for the headers, take a frame, find bytes that are no
frame, meet the end, resolve the status), `Abort` two, and `Close` one per lock
it takes; `CtxEnds` ends the ctx of one call.  `HandlerStarts` ... `HandlerOver` is `handleRequest` with `onConn`
inside it, `SweepCloses` ... `SweepAnswers` is `closeAllServerConns` racing it.
Bodies are sequences of what `ReadLPMLimited` tells apart, not bytes.  Left out:
the request as the server reads it, a message so large that the stream is not
realigned behind it, and the values of metadata, messages and codes.

**HttpUnary** models `httpunary` over `http1`: the calls of one endpoint share a
client session and its `StreamConn` handle (`sess`, `handle`), each with a
round-trip goroutine and a tracked carrier (`car`), the request as the server
sees it (`srv`) and the response as it arrives (`resp`).  `OpenCall` and
`Opening` are `OpenCall` with its error paths, `Using` and `Closing` the sections
of `HalfClose`, `Recv` and `Close` behind their first lock, `Sweep` the handle's
`Close`.  `ToHTTP` and `FromHTTP` are the two status tables.

**RespSession** models both ends of one RESP connection: the dial with HELLO and
AUTH, the server's handshake and accept loop, the read loop and its buffer, the
wake channel a reader parks on, `OpenCall`, `Recv`, `Finish`, `Close` and
`closeSession`.  Every critical section of `session.mu` and `call.mu` is a step.
A value on the wire is its kind and the call it is for; a read may end inside a
value, and bytes may be no value at all.  An error's text goes out as it is, so
behind a line break in it there may be Junk or one more value (`Rests`).

**SequentialSession** is an abstract specification: what a transport whose
`CallConcurrency` is `Sequential` promises.  One call holds the connection; a
call receives a prefix of what was sent for it; the connection goes on only
behind a call that has seen its end.

**SynthSession** models both ends of one synth connection: the greeting,
`OpenCall`, `AcceptCall`, `recvLoop` with its bounded inbox and its item in hand,
`Send` and `HalfClose` (which write after the unlock), `Recv`, `Finish`, and
`Close` with its wait for the loop, its abort and `detach`.  A frame over
`maxFrame` and an error text over 64 KiB are among what may come from outside:
`TooLarge` says why such a frame cannot be taken for another one.  It implements
SequentialSession under the mapping at the end of the module: the holder is the
call that has been opened and not detached, `usable` the client session's flags,
`answer` what handlers put on the wire, `received` what `Recv` returned.

**WireCodec** holds the pure conversions of the two HTTP axes as operators:
metadata as headers and back (with `-bin` values and reserved names), status
trailers and status details, the grpc-timeout with its unit ladder and its
overflow guard, compressor negotiation, method paths, REST pattern matching, and
what a request target becomes on its way through a URL: `streamURL` parses it or,
for a bad escape, takes all of it for a path (`OverURL`), the server sees
`RequestURI`, escapes and all, and the routers of httpunary cut it at a `?`
(`PathOnly`).  `Escapable` and `Escaped` stand for `net/url`'s choice of characters,
on five texts.  Go's map order is a parameter of the encoders.  Loops over headers and over the
routing table are written as what they compute (`FlatMap`, the last `Places` of a
name, the last of the `Binders` of a variable), which is what the proofs need and
TLC evaluates.  **CallMetadata** composes them:
the metadata handle with its freezes, a client opening a call with it, the server
accepting the request, a handler and a helper goroutine writing headers and
trailers through `SendHeaders`, the first `Send` and `Finish`, and the client
reading the answer.

`MC*.tla` give the instances their symmetry sets and non-trivial constants.

## 3. Runs

| Run | Instance | Shows |
|---|---|---|
| `pool_sequential` | 3 callers, 3 connections, limit 2, idle limit 1, one call per connection, both deadlines | `TypeOK`, `LeasesExact`, `ConnsAccounted`, `NoCloseUnderCall` |
| `pool_multiplexed` | 2 callers, 2 connections, limit 2, multiplexed, dial budget, lifetime | `FlightSound`, `OwnCancelOnly`, and under fairness `OpenReturns`, `CloseReleasesAll` |
| `server` | 2 connections of either kind, 3 calls, both limits 1, age and idle timers | `AdmissionExact`, `AnsweredOnce`, `DrainSound`, `NoAdmitAfterClose` |
| `accept_error_reported` | 2 connections, 2 calls | *violated*: `ConnErrorReported` |
| `lifecycle` | 2 Runs (the caller's ctx of one ends with a cause of its own), 1 Shutdown, 2 services (one without configuration), 2 surfaces | `OneRun`, `RunJoins`, `ResultExplained`, and under fairness `RunComesDown` |
| `client_call` | 2 calls (one of them also read), 2 closers, limit 1, every chain of at most 2 filters | `InFlightExact`, `OpenNeverLeaks`, `CallTruthful`, and under fairness `CallEnds` |
| `pipes` | each of the five carriers: 2 Serves, 1 accepted connection (udp: 2), 1 Dial, 1 Shutdown, 1 Close, at most 3 calls or cancellations | `CloseClosesAll`, `ShutdownSettles`, `LiveAssociation`, and under fairness `StopEnds` |
| `grpc` | 1 call, both kinds of peer, 10 response bodies, at most 1 message sent by an argos handler, a ctx that may end against the argos peer | `AnswerFaithful`, `SessionKept`, `ExchangeAccounted`, and under fairness `CloseUnblocks` |
| `resp` | 2 calls (the first GET, SUBSCRIBE or an unknown command, whose error text may break), 4 pairs of passwords, 1 push, 1 close, cut or expiry | `CleanHandover`, `NoReaderStranded`, and under fairness `CloseReturns` |
| `synth` | 2 calls (the first with 2 messages each way and perhaps exclusive), inbox of 1, 1 event | `MessagesKept`, `AbortsForCause`, `ImplementsSequential` (refinement) |
| `http` | 2 calls on one handle (one may go wrong in every way), 2 codes each, 1 event | `AnswerTruthful`, `HandleSound`, `NoWaiterStranded` |
| `metadata` | 2049 deadlines, 9 pairs of compressor settings, 7 REST tables with 73 presets of 8 path values (escaped, escapable, divided, cut, refused, empty), application keys `grpc-accept-encoding` and `grpc-status-details-bin`, details that say OK, foreign `-bin` headers, a handler and a helper | `MetadataArrives`, `RequestFaithful`, `StatusArrives` |

The conjunction properties name their parts: `ConnsAccounted`, `FlightSound`,
`DrainSound`, `RunComesDown`, `CallTruthful`, `AbortsForCause`, `HandleSound` and
`RequestFaithful` each join the definitions that make up one guarantee, and each
part has its own comment.

*Bounds.*  In `pool_sequential` three callers are the fewest with which one
dials, one holds and one finds the endpoint at its limit; three connections let
one be retired and replaced while two are open.  A flight needs a leader and a
follower, so two callers are enough in `pool_multiplexed`; with two connections
a failed or retired dial can be followed by another.  Two connections and three
calls let a call wait in `tryAdmit` on each side of a running one while a second
connection is refused.  Two surfaces are needed for one to fail while the other
serves.  With a limit of one and two calls an admission released twice would
let the second call in beside the first.  In `pipes` two Serves are needed to
start a carrier again after a stop, two udp associations to replace one, and
`MaxCalls` keeps any three of the operations and cancellations together.  In
`grpc` the bodies hold each kind of item on its own, a message behind a rejected
one and bytes that are no frame behind a message: `Recv` looks no further back
than "has a message come".  A foreign response's headers are plain or carry OK;
error statuses and other HTTP statuses come from the argos peer.  `Expiring` names
the peers against which a call's ctx may end: with the argos peer it meets
everything that ctx ends on the way, and with both of them the state space is half
as large again for the liveness check to go through.  (Safety was checked once with
both, 1.6 million states, and is proved for every value.)  One call meets
every race inside an exchange; two calls, whose only link is the session's reuse
flag and counter, are beyond what TLC finishes.  In `resp` and `synth` two calls
are what one needs to inherit something from the other; the inbox of one with
two messages catches `recvLoop` with an item in hand, which is what the code's
inbox of eight does with nine.  `MaxEvents` bounds what comes from outside (a
close, a cut, an expiry, a goroutine overtaken between its test and its write, a
frame over a limit)
to one: each of them ends the connection's useful life, so a second one finds
nothing to disturb but the first one's cleanup.  `Breaking` keeps the error texts
with a line break to the unknown command, the one error whose text holds what the
peer sent; a handler's error goes the same way through `Finish`.  In `http` the second call is a
plain neighbour: it is there to suffer from what the first does to the handle.

In `metadata` the clock is scaled down: units of 1, 4, 16, 64, 128 and 256, at
most 9 before the letter and 2047 as the longest duration keep the shape of the
grpc-timeout ladder (every unit rounds up, the largest value of a unit reaches
past the next, the parser can overflow), and every duration is tried.  The
constraint `Explored` keeps the concurrent part to one request per HTTP axis:
the handler's side is explored for these only, and metadata is added to these and to
one whose server has a compressor that only the application lists; all the
other requests are followed up to what the server makes of them.  Seven tables with
every pair of eight values meet each way a value can arrive, in each place of a
pattern, beside patterns that overlap, repeat a variable or match the shortened path.

Connections, calls and filter chains are inputs from finite sets; `MaxCalls` and
`MaxEvents` are the only bounds on counters.  Deadlock checking is off because
every instance ends: all callers done, all connections gone, every Run returned.

*Fairness.*  Weak fairness stands for a Go scheduler that runs every runnable
goroutine; the pool's callers get strong fairness because `sync.Mutex` hands
the lock to a starving waiter.  A dial ends because its budget, the peer or
`Close` ends it.  `Serve` returns once its context is done (the contract in
`transport/transport.go`).  A peer is never assumed to send anything, and nobody
is assumed to call `Run`, `Shutdown` or `Close`.  In `Pipe` the goroutines that
have started get weak fairness (`Serve` after binding, its context watcher,
`Shutdown` and `Close` after their first step); `onConn`, remote peers, callers
and deadlines get none.  In `GrpcExchange` the client's goroutines inside a
`Send`, `Recv`, `Close` or `client.Do` get weak fairness; the applications, the
peer, the handler and the sweep get none.  In `RespSession` the read loops and a
`closeSession` that has begun get weak fairness, nobody else.  `ServerConn`,
`SynthSession`, `HttpUnary` and `CallMetadata` assume none: `AbortsForCause` and
`NoWaiterStranded` say as invariants that whoever waits waits for something that
has a reason to come.

## 4. Where the code and its documentation disagree

With a run: `accept_error_reported`.  `onConn` calls `waitCancel()` before it asks
whether `waitCtx` is done, so every error of `AcceptCall` is taken for a timer
wake: it is never reported (`observer.go` promises one report per
connection-level error) and the calls in flight are not cancelled with
`ErrPeerGone`.

Named as an exception in a property, because the property fails without it:

* `AnswerFaithful` (`transport/grpc/lpm.go:105`): `io.ReadFull` returns `io.EOF`
  when nothing at all follows, so a body that ends right behind a frame header
  looks to `ReadLPMLimited` like one that ends before a header, and `Recv`
  reports the trailers' OK without the announced message.
* `CleanHandover` (`example/resp/call.go:121-128`): a failing `Recv` sets
  `terminal`, drops the lock and only then marks the session bad; a concurrent
  `Close` in between takes the call for finished and returns the session, whose
  next call may read the old reply.
* `CleanHandover` (`example/resp/wire.go:28`): `EncodeError` does not escape.  An
  error text with a line break (a handler's, or `unknown command '...'` with the name
  the peer sent) whose rest is a whole RESP value is two replies to one command: the
  call takes the first line, and the next call on the reusable session takes the rest
  for its own reply.  A rest that is no value ends the session instead.
* `SessionKept`: what one gRPC call meets can cost all the calls of its session the
  connection.  A call that fails on the metadata limit or on the message limit does
  not set `sawTerminal`, so the `Close` it owes marks the session bad
  (`grpc/call.go:806-815`), although the comments at `call.go:333-336` and `613-616`
  say that such a limit is the call's own business; only a frame over the frame limit
  sets it.  A call whose ctx ends before its status spoils the session in its `Send`,
  its `Recv` or its `Close`.  So does a `Recv` after EOF, which reads a closed body,
  and a `Send` or `Recv` still running when a call that has reached its end is closed.
* `HandleSound` (`transport/httpunary/call.go:425`): a call that failed on one of
  the client's limits spoils the handle in `Close`, although the comment at
  `call.go:80-84` says a limit error leaves it usable.
* `MetadataArrives` (`grpc/call.go:405-415, 569-570`, `httpunary/call.go:266-267`):
  a value added between the getter's snapshot and the freeze is accepted and
  never sent.
* `MetadataArrives` and `CompressionAgreed` (`grpc/preface.go:90-91`): the comment at
  `reserved.go:6-8` lists `grpc-accept-encoding` among the keys that may pass as
  metadata, and `EncodeMetadata` sends it.  `ParseRequestHeaders` takes it out, so the
  server's handler never sees it, and keeps the last one: the application's value
  takes the place of the client's own list, and the server may answer in a compression
  that the client does not have.
* `RestFaithful` (`httpunary/router_rest.go:57-61, 118-121, 133-155`): `buildPath` puts a
  path variable into the target as it is, and nothing on the server's side undoes what
  the URL makes of it.  `a b` arrives as `a%20b`, and so does `a%20b`; `a%` as `a%25`,
  and in a target that has such a bad escape every `?` is one more character of its
  segment.  Elsewhere a `?` ends the path: `a?b` in the last variable arrives as `a`, in
  an earlier one it shortens the path, so that the call finds no route or another
  method's.  A value with a slash makes two segments of one.  The property says what
  arrives (`Arriving`) where only the caller's own pattern binds the variable, that
  this pattern matches when the path is whole, and otherwise only that some matching
  pattern gave the value.  A literal with such characters never matches its own calls
  (`Reachable`), and on every axis a method name with them is lost (`PathFaithful`).
* `StatusArrives` (`grpc/statuswire.go`, `details.go:79-118`): an application entry
  named `grpc-status-details-bin` is not reserved; it can take the details of a
  status away, turn it into Internal, or put its own message and details in their
  place.  Behind a handler that returned nil, an entry of code OK, the empty one
  included, makes an error of code OK of a call that went well (`Overridden`).  A
  message that is not UTF-8 drops the details.

Seen in the models, without a property of their own:

* `transport/http2/server.go:165`: `serverCarrier.Abort` looks at `handlerDone`
  and then calls `WriteHeader`; the handler of a connection that is turned away
  can return in between, because its own `Close` finds `closed` set and does not
  wait.  net/http's HTTP/2 server panics on such a write.
* `transport/udp/udp.go:224`: `Shutdown` closes the shared `PacketConn` before it
  waits, so the callbacks it waits for can no longer receive or answer, while
  `transport.go:120` promises that live connections finish.
* `Server.Shutdown` waits for a wait group that is still zero while `Run` binds
  its surfaces, so it may return before `Run` does; `Run` does not return when
  its surfaces have ended without an error.
* A `Serve` started after a `Shutdown` clears `shutdown`, so an http request the
  stopped server had already accepted can be admitted under the new one;
  `ShutdownSettles` therefore speaks of the `Serve` that was stopped.  A udp
  association outlives its `Serve` and stays bound to the dead socket.
* `Server.Run` reports the end of its caller's ctx in two ways: as `ctx.Err()`, or,
  when that ctx ends with a cause other than `context.Canceled` before anything else
  does, as the bare cause (`server.go:236-238`).
* gRPC: a `Send` that races `SendHeaders` may return `ErrHeadersAlreadySent`; an
  expired deadline sends no grpc-timeout at all; a malformed `-bin` value
  rejects a request and is skipped in trailers.
* httpunary: trailers are accepted and never sent; a REST method bound twice
  keeps its last binding; path variables of every matching pattern are applied,
  whatever its verb; a nameless variable never matches.
* RESP: `Finish(nil)` without a `Send` writes nothing.
* synth: an error item dropped at a full inbox, and a peer that closes between
  two frames, both end a stream with `io.EOF`; a server that answers before the
  client's END costs the connection; `HalfClose` does not ask whether the call is
  closed; `flagOpenEnd` is read and never set.  A client that closes behind its
  STATUS without having sent END keeps its session in the pool, and the server's
  `recvLoop` finds the next call's OPEN inside the old one and ends the connection.
  `recvLoop` drops `errFrameTooLarge` without a word when its call is closed
  already (`call.go:238-243`): the body is still on the wire, and the session fails
  at its next `AcceptCall`.  An error text over 64 KiB cannot be encoded, and
  `Finish` takes that for a broken session.

Documented or harmless: without a dial budget a flight leader's cancellation
reaches its followers; `Pool.Close` closes connections with calls in flight;
`lb.active` counts refused connections for a moment; the handler of a Sequential
connection is not told when the connection's age ends.

## 5. Proofs

Eight modules hold theorems.  `XProofs` extends the module `X` and nothing else of
the project, `ServerProofs` the two modules of the server and `CallProofs`
ClientCall and CallMetadata, so what they prove is about the specifications the runs
check.  Every invariant and every action property that a passing run checks is
the subject of a theorem; what only TLC checks is liveness.  Every
theorem holds for all values of the constants that satisfy the module's
assumption: any number of callers, connections, calls, Serves, Runs or surfaces,
any limits, any filter chains and any response bodies.  The assumptions on
constants say that the sets of processes are finite where they are counted, that
the model values differ, and that limits are natural numbers; TLC evaluates them
in every run.

Each property follows from an inductive invariant.  Except where a paragraph below says
otherwise, TLC checked it on the run's instance first; what it adds to the property is
the interesting part, since it is what the code relies on without saying so.

| Module | Inductive invariant | Theorems |
|---|---|---|
| `SessionPoolProofs` | `TypeInv`, `FlightRegistered`, `BudgetKept`, `LeaseInv`, `BooksInv` | `TypeCorrect`, `FlightsAreSound`, `CancelIsOwn`, `LeasesAreExact`, `ConnsAreAccounted`, `NoCallLosesConn` |
| `ServerProofs` | `ServerInv` (ServerConn), `LifeInv` (ServerLifecycle) | `AdmissionIsExact`, `CallsAnsweredOnce`, `DrainIsSound`, `NoAdmissionBehindGate`; `RunIsUnique`, `RunJoinsSurfaces`, `ResultIsExplained`, `GateAndRunEndForGood` |
| `CallProofs` | `CallInv` (ClientCall), `MetadataInvariant` (CallMetadata) | `InFlightIsExact`, `OpenLeaksNothing`, `CallTellsTruth`; `MetadataIsInvariant`, `RequestIsFaithful`, `MetadataDoesArrive`, `StatusDoesArrive`, `FrozenForGood` |
| `PipeProofs` | `PipeInv` | `CloseIsComplete`, `ShutdownIsSettled`, `AssociationStaysLive`, `StopIsNoError` |
| `GrpcExchangeProofs` | `GrpcInv` | `AnswersAreFaithful`, `SessionIsKept`, `ExchangeIsAccounted` |
| `HttpUnaryProofs` | `HttpInv` | `AnswersAreTruthful`, `HandleIsSound`, `NobodyIsStranded` |
| `SynthSessionProofs` | `IInv` | `SessionInvariant`, `MessagesAreKept`, `AbortsAreForCause`, `SynthIsSequential` (refinement) |
| `RespSessionProofs` | `IInv` | `HandoverIsClean`, `NoReaderIsStranded`, `StrictlySequential`, `SpoiltForGood` |

*The pool.*  `TypeOK` is not inductive: a caller about to publish or use a
connection must have one in hand (`InHand`).  `FlightRegistered`: in a multiplexed
pool a caller is dialing exactly when it leads its endpoint's flight.
`BudgetKept`: with a dial budget no intermediate result of a flight carries
somebody else's cancellation.  `LeaseInv`: a lender under the lock sees an open
pool, a connection in a dialer's hands is nobody else's, a fresh one has no
holders.  `BooksInv` adds what the accounting of connections needs: an idle entry
is tracked, open and unreferenced, `pendingDial` counts the dials that may still
publish, a connection outside the pool is in exactly one caller's or in `Close`'s
hands, and tracked entries and reserved dials together stay within the limit
(`RoomKept`), whatever fails, panics or closes in between.  `NoCallLosesConn` is an
action property proved from the same invariant.

*The server.*  In `ServerInv`, `ActiveExact` counts the connections between the two
`Add`s of `onConn` and `SlotsExact` the calls with a slot, including the one that
took it and has not looked at `closed` again; both count steps of single
processes with the theorems on cardinalities.  `CallsHoused` says that a call in
flight has a connection that waits for it, and `NoPlainCancel` that no handler is
ended by the plain cancel that `Finish` would report as Canceled.
`NoAdmissionBehindGate` is an action property: behind a closed gate the calls past
`tryAdmit` only get fewer, which the second look makes true; the handler of a call
admitted before the gate closed may still start behind it.  `LifeInv` ties
`running`, `ran` and `runCtx` to the one Run that owns them, the surfaces to that
Run, and each cause to what brought it about; `WithCause` are the Runs whose caller
ends their ctx with a cause that is not `context.Canceled` (a deadline is one too).
ServerConn takes it that its environment closes the gate and ends the Run's ctx once
each (`GateCloses`, `RunEnds`); `GateAndRunEndForGood` shows that the life of the
server does: the gate never reopens, a done `runCtx` stays done, and the Run that
launched stays the one of `s.runCtx`.

*The client.*  `CallInv`: one goroutine at most is inside `closeOnce`, and how far
it is decides whether the transport call is open; a chain that failed has closed
what it had opened.  `ChainOpen` is a recursive function; the proofs use what
`Opened` reads off its result, never how it was computed.

*Metadata.*  The three properties of CallMetadata are about conversions as much as
about interleavings, so its proof has two halves.

The first is about WireCodec's operators, for every input.  `FlatMap` is a
`FlattenSeq`, which the community modules define by recursion; `Induct` and
`SeqInduct` give induction over a *set* of naturals or sequences, from the
well-foundedness of `<`, so no operator parameter is needed.  From these follow what
`FlatMap` makes of a concatenation, and then what a header list `Carries` of an
application's metadata whatever stands before and behind it, in whatever order the
map was iterated (`GatherEncoded`).  `NearestIsMin` says that decoding an encoded
timeout gives the least duration a header can say that is not shorter, from the
units' divisibility and the hours' guard alone; `StatusExact` what
`resolveCallStatus` finds behind any application headers; `PathArrives`
what a URL and the cut at a `?` leave of a target, and `RestFound` when the REST router
finds the route and the variables of the path it built.

The second is `MetadataInvariant`.  `Shape` gives the types.  `Order` says where each
goroutine of the server is and what is frozen or written by then: headers that are on
the wire are frozen, or somebody is between the write and the freeze.  `Handles`: a
handle holds what the goroutines added to it, each value under one key, besides what
was preset.  `Snapshots` is the heart: between a getter and its write a goroutine
holds a prefix of each list in the handle, and what the handle has beyond it is
recorded as late.  `Request` and `Response` carry that over the wire (the list
written carries *some* snapshot of the handle, and on the grpc axis says the timeout,
the compressors, its own or the snapshot's, or the status), and `Reading` says that the client's handle is what
its decoder makes of that list.  TLC checked `Shape`, `Order`, `Handles`, `Snapshots`
and `Reading` on a reduced instance of the run before they were proved; `Request` and
`Response` quantify over snapshots and were not checked that way.

The assumptions are WireCodec's and CallMetadata's.  `UnitAssumption` is the ladder of
units: Go's nanoseconds satisfy it (each unit divides the next, eight digits of minutes
fit a Duration, the hours of a Duration fit eight digits).  `RequestAssumption`:
the caller's deadline is a Duration, no verb and pattern are bound twice
(`newRESTRouter` refuses that), metadata set before the call has keys of its own, and
what another kind of client adds is neither the timeout nor the compressors.
`KeyAssumption` is a restriction the code does not enforce: the application's
concurrent additions do not use the keys of path variables (what is preset may).
`ErrorAssumption`: values decode as base64, the mark of bytes that are no Status is no
code, and an error has the fields of one; its code may be OK.  The theorems hold
for any metadata, requests, tables and orders; what they keep of the model's
conversions is that one key has an upper-case form (`Lower`), that the variables `x` and
`y` have keys of their own (`PathKey`), that one value has a slash (`Segments`), and
that five texts are those a URL escapes (`Escapable`).  Of the URL the model leaves out
other characters, an escaped slash next to a text that is escaped, and that a target
with a space behind its `?` is refused by the server's HTTP parser, where in the model
the request may simply not arrive.

*The carriers.*  In `PipeInv` the flags of a transport belong to the Serve in its
loop, a closed listener was closed for a reason still visible, and a `Shutdown` or
`Close` that has got past a step has left nothing of that step to do
(`ShutdownReach`, `CloseReach`).  The proof first shows that every step of the five
carriers is one of a few generic steps (`Steps`), and reasons about those.

*The exchanges.*  `GrpcInv` and `HttpInv` relate four processes per call: what an
argos server can have put on the wire, how far each side's abort has got, what is
in the handle's map, and what `Recv` has concluded.  `ErrorOk` gives every
error of a gRPC `Recv` a reason that lasts, so the `Close` behind it, which spoils
the session, has one too: the call was not given up, but it met a limit, an end of
its ctx, damage or an abort.  `AnswersAreFaithful` and
`AnswersAreTruthful` quantify over any bodies; `CountExact` makes the reuse
counter exact across two racing closers.  `HttpUnary` assumes besides
(`NoResultAssumption`) that the absence of a result is no result.

*The sequential session.*  `SynthSessionProofs` shows that both ends of a synth
connection with their read loops implement SequentialSession.  Its inductive
invariant `IInv` has twelve parts, `Types` the first.  `CtlInv` ties `recvLoop` to the
`Close` of its end: whoever waits in `Close` has cancelled, and has aborted the
connection unless the loop was past its last frame.  `CallInv` says that calls are opened in order
and that a session still usable behind a closed call has seen that call's STATUS.
`SentInv` and `LogInv` account for the answer: what `Recv` returned, what waits in
the inbox, what `recvLoop` has in hand and what is on the wire are, in this order,
what the handler wrote, and a STATUS read leaves nothing on the wire.  `UpInv` does
the same for the other direction: the ack, then at most one OPEN, of the call
opened last and before anything else of it.  `HandOk`, `Quiet` and `ClientKept`
cover the handshake and a connection nothing has happened to, for the initiator's
half of `HealthyKept`.  The responder's half, `ServerKept`, needs to know what the
server finds on its wire when nothing disturbs it.  `Order` says it: as long as no
client call was closed before its END was sent, what is under way are whole calls,
each OPEN right behind the ack or an END; the server is between two calls exactly
when that is where the wire goes on; and what was written so far ends a call exactly
when every call begun has sent its END.  So an `AcceptCall` finds an OPEN, no
`recvLoop` does, and the server has no reason to close (`OrderHead`, `ServerStep`).
In the refinement,
`OpenCall` is Lend; an `OpenCall` whose OPEN cannot be written and the `detach` of a
`Close` are Return; `Send` and `Finish` of the handler are Respond; a `Recv` that
returns an item of the answer is Receive; whatever ends the session's useful life
is Spoil; everything else stutters.  That the mapping's `CHOOSE` of a holder
behaves rests on `CallInv`: two calls that hold the connection are one.

*RESP.*  RESP2 has no identifiers, so what keeps replies apart is that a reusable
connection carries one value at most.  `IInv` of `RespSessionProofs` follows it
through seven `Stations`: the wire to the server, its buffer, its reader's hand,
the handler, and the same back.  `One`: at most one station `Has` a value, and no
sequence two.  `Expected`: if there is one, the last call opened waits for it, has
failed and not yet said so (`markBad`), or is about to be closed as poisoned.
`Owned` says whose it is: a request and a reply of the last call, or a greeting of
the dial before the first one.  `Ordered` says that only the last call is at work.
The exact part (`Exact`) is claimed only while the client's session is reusable,
and all of this only while neither of the two slips of section 4 has happened
(`slips`: a `Close` overtook a failing `Recv`, an error text left a value behind
it); `CallsOk`, the types, `Told` and `NoReaderStranded` hold
without either condition, and the step that spoils the session or slips has to
establish nothing more.  `Flows` shows that every action but the three that
write a request at most moves the value on; `RequestAlone` that a request is
written on a quiet connection; `TakenLast` that whoever takes the reply leaves the
connection quiet.  `StrictlySequential` is the result for a dialled session.
`NoReaderIsStranded` needs of all this only that a parked reader was starved when
it looked (`LookWaits`) and that every step that feeds it or ends its input closes
the channel it holds; it does not depend on the slips.  Two slips in the code, a failing
`Recv` that does not mark the session bad and an `EndCall` that forgets the poison,
make the proof fail at the steps that speak of them.  Proving this found that two
arms of the CASE in `LookResult` overlapped on Junk; the arms now exclude each
other.

*How to read the proofs.*  Each inductive proof has one step per action, and under
it one per part of the invariant the action disturbs; lemmas state once what an
operator does to the state.  The models update several fields of a record in one
nested `[f EXCEPT ![x] = [@ EXCEPT !.a = u, !.b = v]]`: the encoding this version of
the prover hands to its SMT solver is not sound for several deep paths in one
EXCEPT, so neither the models nor the proofs use that form.  As a cross-check, for
every action the proofs speak of the obligation "type invariant and action imply
FALSE" was tried and fails, as it must.

*Only model-checked.*  Every liveness property (fairness and `ENABLED` are outside
what TLAPS proves here): `OpenReturns`, `CloseReleasesAll`, `RunComesDown`,
`CallEnds`, the liveness part of `StopEnds`, `CloseUnblocks` and `CloseReturns`.
What a recursive function computes from a chain of any length, `ChainOpen`'s result,
is not proved either; the proofs use only what `Opened` reads off it.

## 6. Not modelled, and the plan

Worth proving next: that RESP implements SequentialSession, whose one call at a
time `StrictlySequential` already gives.

Left out:

* net, net/http, the Go runtime and the filters and handlers applications supply
  (external, modelled by what the code relies on);
* the request direction as a gRPC server reads it, and the reading and writing
  of tcp, websocket and udp connections: they hand bytes to a library one call at
  a time;
* health, reflection and retry add-ons, options, resolvers and descriptors:
  tables behind one mutex or none;
* codecs and compressors (stateless conversions of other libraries) and typed
  streams (wrappers around `Send` and `Recv`);
* test doubles (`internal/fake`) and the code generator, an offline text
  generator that alone is a quarter of the repository.
