----------------------------- MODULE WireCodec ------------------------------
(***************************************************************************)
(* What the two HTTP axes (transport/grpc, transport/httpunary) put on the *)
(* wire next to a call's messages, and what they read back: metadata as    *)
(* headers, the status trailers, the grpc-timeout, the choice of a         *)
(* compressor, the request target and the REST routing table.              *)
(*                                                                         *)
(* A Metadata is a function from keys to sequences of values; Go iterates  *)
(* it in any order, so an encoder takes the order as a parameter.          *)
(* Transport headers are a sequence of names with values.  Of base64 the   *)
(* model keeps that it never yields a comma and that some inputs do not    *)
(* decode: the wire value of a -bin key is the sequence of its             *)
(* comma-separated parts, Malformed among them.                            *)
(***************************************************************************)
EXTENDS Integers, Sequences, SequencesExt, FiniteSets, TLC

CONSTANTS
    Unit,          \* the six units of a grpc-timeout, in nanoseconds, by letter
    MaxTimeout,    \* maxTimeoutValue, the largest number before the letter
    MaxDuration,   \* math.MaxInt64, the longest time.Duration
    Malformed,     \* a part of a binary value that is not base64
    Nil

Letters == <<"n", "u", "m", "S", "M", "H">>

\* Scaled-down clocks keep what the argument needs: units grow and divide each
\* other, only hours can exceed a Duration, and its hours fit the digits.
ASSUME UnitAssumption ==
    /\ MaxTimeout \in Nat /\ MaxDuration \in Nat
    /\ DOMAIN Unit = ToSet(Letters) /\ \A l \in DOMAIN Unit : Unit[l] \in Nat \ {0}
    /\ \A i \in 1..5 : Unit[Letters[i]] < Unit[Letters[i + 1]]
    /\ \A i, j \in 1..6 : i <= j => Unit[Letters[j]] % Unit[Letters[i]] = 0
    /\ \A i \in 1..5 : MaxTimeout * Unit[Letters[i]] <= MaxDuration
    /\ (MaxDuration \div Unit["H"]) + 1 <= MaxTimeout

-----------------------------------------------------------------------------
(* Metadata: call.go's add, metadata.go, grpc/metadata.go, headers.go.     *)

NoMetadata == << >>
Values(md, k) == IF k \in DOMAIN md THEN md[k] ELSE <<>>
With(md, k, vs) ==
    [j \in DOMAIN md \cup {k} |-> IF j = k THEN Values(md, k) \o vs ELSE md[j]]

\* The keys of both; one that both have is the first's.
Merged(md, other) ==
    [k \in DOMAIN md \cup DOMAIN other |-> IF k \in DOMAIN md THEN md[k] ELSE other[k]]

\* The list of a client's compressors goes under a key that is not reserved.
AcceptKey == "grpc-accept-encoding"

\* strings.ToLower on the keys the models use.
Lower(k) == IF k = "Key" THEN "key" ELSE k
IsBin(k) == k \in {"key-bin", "grpc-status-details-bin"}

GrpcReserved ==
    {":authority", ":path", "content-type", "user-agent", "grpc-message-type",
     "grpc-encoding", "grpc-message", "grpc-status", "grpc-timeout", "te"}
Whitelisted == {":authority", "user-agent"}
HttpReserved ==
    {"content-type", "content-length", "transfer-encoding", "connection",
     "keep-alive", "proxy-connection", "te", "trailer", "upgrade", "host"}
Reserved(axis) == IF axis = "grpc" THEN GrpcReserved ELSE HttpReserved
Hidden(axis) == Reserved(axis) \ (IF axis = "grpc" THEN Whitelisted ELSE {})

Header(n, w) == [name |-> n, value |-> w]
EncodeValue(axis, k, v) == IF axis = "grpc" /\ IsBin(k) THEN <<v>> ELSE v
DecodeValues(axis, k, w) == IF axis = "grpc" /\ IsBin(k) THEN w ELSE <<w>>
IsMalformed(axis, h) == axis = "grpc" /\ IsBin(h.name) /\ Malformed \in ToSet(h.value)

\* What f makes of each element of a sequence, one after the other.
FlatMap(s, f) == FlattenSeq([i \in DOMAIN s |-> f[s[i]]])
Only(s, T) == FlatMap(s, [x \in ToSet(s) |-> IF x \in T THEN <<x>> ELSE <<>>])

\* Every header with its own value, keys lower-cased, reserved keys left out.
HeadersOfKey(axis, md, k) ==
    IF Lower(k) \in Reserved(axis) THEN <<>>
    ELSE [i \in DOMAIN md[k] |-> Header(Lower(k), EncodeValue(axis, Lower(k), md[k][i]))]
EncodeMetadata(axis, md, order) == FlatMap(order, [k \in DOMAIN md |-> HeadersOfKey(axis, md, k)])

\* A malformed value is skipped; the others of its key are kept.
IsKept(axis, h) == h.name \notin Hidden(axis) /\ ~IsMalformed(axis, h)
ValuesOfKey(axis, k, h) ==
    IF h.name = k /\ IsKept(axis, h) THEN DecodeValues(axis, k, h.value) ELSE <<>>
DecodeMetadata(axis, hs) ==
    [k \in {h.name : h \in {g \in ToSet(hs) : IsKept(axis, g)}} |->
        FlatMap(hs, [h \in ToSet(hs) |-> ValuesOfKey(axis, k, h)])]
\* ParseRequestHeaders and DecodeResponseHeaders give up on one instead.
AnyMalformed(axis, hs) ==
    \E h \in ToSet(hs) : h.name \notin Hidden(axis) /\ IsMalformed(axis, h)

\* metadata.WireSize, in values, and the checkInboundMeta of both axes.
WireSize(md) == MapThenSumSet(LAMBDA k : Len(md[k]), DOMAIN md)
OverLimit(md, limit) == limit > 0 /\ WireSize(md) > limit

\* The last of the headers with a name.
Places(hs, n) == {i \in DOMAIN hs : hs[i].name = n}
HasField(hs, n) == Places(hs, n) # {}
Field(hs, n) == hs[Max(Places(hs, n))].value

-----------------------------------------------------------------------------
(* grpc-timeout: timeout.go.                                               *)

\* A time.Duration is a signed 64-bit integer and wraps around.
Wrapped(n) == ((n + MaxDuration + 1) % (2 * (MaxDuration + 1))) - (MaxDuration + 1)

\* div rounds up.
RoundUp(d, u) == (d \div u) + (IF d % u > 0 THEN 1 ELSE 0)

EncodeTimeout(d) ==
    LET fits == {i \in 1..5 : RoundUp(d, Unit[Letters[i]]) <= MaxTimeout}
        l == IF fits = {} THEN "H"
             ELSE Letters[CHOOSE i \in fits : \A j \in fits : i <= j]
    IN  IF d <= 0 THEN [count |-> 0, letter |-> "n"]
        ELSE [count |-> RoundUp(d, Unit[l]), letter |-> l]

DecodeTimeout(t) ==
    IF t.letter = "H" /\ t.count > MaxDuration \div Unit["H"] THEN MaxDuration
    ELSE Wrapped(Unit[t.letter] * t.count)

-----------------------------------------------------------------------------
(* The status: statuswire.go, details.go, message.go.  An error is Nil or *)
(* [code, msg, details]; of its message the model keeps whether it is      *)
(* empty, plain, or not UTF-8.  The bytes of a google.rpc.Status are that  *)
(* record; bytes that are no Status have the code NoProto.                 *)

NoProto == "no protobuf"

\* status.CodeOf; an error may say OK too.
CodeOf(e) == IF e = Nil THEN "OK" ELSE e.code
\* An error without a message says its code.
StatusMessage(e) == IF e.msg = "" THEN "code name" ELSE e.msg
\* EncodeGrpcMessage replaces what is not UTF-8; percent signs come back.
OverWire(msg) == IF msg = "not utf-8" THEN "replaced" ELSE msg
\* proto.Marshal refuses a message that is not UTF-8.
HasDetails(e) == CodeOf(e) # "OK" /\ e.details # {} /\ StatusMessage(e) # "not utf-8"

\* The headers of EncodeStatusTrailers that are not the application's.
DetailsKey == "grpc-status-details-bin"
StatusHeaders(e) ==
    LET status == Header("grpc-status", e.code)
        message == Header("grpc-message", OverWire(StatusMessage(e)))
        details == Header(DetailsKey, <<[e EXCEPT !.msg = StatusMessage(e)]>>)
    IN  IF e = Nil THEN <<Header("grpc-status", "OK")>>
        ELSE IF HasDetails(e) THEN <<status, message, details>> ELSE <<status, message>>
EncodeStatusTrailers(e, user, order) == EncodeMetadata("grpc", user, order) \o StatusHeaders(e)

\* fallbackStatus: the status without details, and no error for OK ...
Fallback(code, msg) == IF code = "OK" THEN Nil ELSE [code |-> code, msg |-> msg, details |-> {}]
Mismatch == [code |-> "Internal", msg |-> "mismatch", details |-> {}]

\* ... but details that say OK, or nothing at all, make an error of an OK.
DecodeStatusDetailsBin(code, msg, hs) ==
    LET st == Field(hs, DetailsKey)[1]
    IN  IF \/ \A i \in DOMAIN hs : Places(hs, DetailsKey) # {i}
           \/ Len(Field(hs, DetailsKey)) # 1
           \/ st.code = NoProto
        THEN Fallback(code, msg)
        ELSE IF st.code # code THEN Mismatch
        ELSE [code |-> code, msg |-> st.msg, details |-> st.details]

HasStatus(hs) == HasField(hs, "grpc-status")
StatusFrom(hs) ==
    DecodeStatusDetailsBin(Field(hs, "grpc-status"),
                           IF HasField(hs, "grpc-message") THEN Field(hs, "grpc-message") ELSE "",
                           hs)
NoStatus == [code |-> "Unknown", msg |-> "missing grpc-status", details |-> {}]
\* Mutant: a response that is trailers only has its status in the headers.
ResolveCallStatusInTrailers(hs, ts) ==
    IF HasStatus(ts) THEN StatusFrom(ts) ELSE NoStatus
ResolveCallStatus(hs, ts) ==
    IF HasStatus(ts) THEN StatusFrom(ts)
    ELSE IF HasStatus(hs) THEN StatusFrom(hs)
    ELSE NoStatus

-----------------------------------------------------------------------------
(* Compressors: compress.go.  A list of names; "identity" is always known. *)

ResolveSendCompressor(list, name, accept, isServer) ==
    IF name \notin list \/ (isServer /\ name \notin accept \cup {"identity"})
    THEN "identity" ELSE name

-----------------------------------------------------------------------------
(* Request targets.  A target is the sequence of its segments; a method is *)
(* the segments of its service's name and its own name.                    *)

MethodPath(m) == Append(m.service, m.name)
ParseMethodPath(p) ==
    IF Len(p) < 2 \/ Last(p) = "" \/ Front(p) = <<"">> THEN Nil
    ELSE [service |-> Front(p), name |-> Last(p)]

\* A pattern segment is literal or a variable; a variable without a name is
\* written as it stands and matches nothing.
Literal(s) == [var |-> FALSE, name |-> s]
Variable(x) == [var |-> TRUE, name |-> x]
PathKey(x) == CASE x = "x" -> "x-argos-path-x" [] x = "y" -> "x-argos-path-y" [] OTHER -> "x-argos-path-"
PathKeys == {"x-argos-path-x", "x-argos-path-y", "x-argos-path-"}

\* The segments a value fills: nothing escapes the slashes it may have.
Segments(v) == IF v = "a/b" THEN <<"a", "b">> ELSE <<v>>

\* What a URL escapes in a path, and the texts it leaves alone.
Escapable == {"a b", "a?b", "a%", "a%20b", "{}"}
Escaped(s) == CASE s = "a b" -> "a%20b" [] s = "a?b" -> "a%3Fb" [] s = "a%" -> "a%25"
                [] s = "a%20b" -> "a%2520b" [] s = "{}" -> "%7B%7D" [] OTHER -> s
Plain(s) == s \notin Escapable
HasQuery(s) == s = "a?b"
Before(s) == IF HasQuery(s) THEN "a" ELSE s
\* The segment that the path ends in.
PathEnd(target) ==
    LET marks == {i \in 1..Len(target) : HasQuery(target[i])}
    IN  IF marks = {} THEN Len(target) ELSE Min(marks)

\* streamURL and RequestURI.  A target that parses keeps its escapes and its
\* query, and the rest of its path is escaped; one that does not, for a bad
\* escape, is escaped as a path from end to end.
Refused(target) == \E i \in 1..PathEnd(target) : target[i] = "a%"
Quoted(s) == IF s = "a%20b" \/ HasQuery(s) THEN s ELSE Escaped(s)
OverURL(target) ==
    [i \in 1..Len(target) |-> IF Refused(target) THEN Escaped(target[i])
                              ELSE IF i <= PathEnd(target) THEN Quoted(target[i]) ELSE target[i]]
\* pathOnly; what the server finds is never unescaped.
PathOnly(target) == [i \in 1..PathEnd(target) |-> Before(target[i])]
\* A segment of target as a router finds it.
Arriving(target, s) == IF Refused(target) THEN Escaped(s) ELSE Before(Quoted(s))

IsDuplicate(bindings) == \E i, j \in 1..Len(bindings) :
    i < j /\ bindings[i].verb = bindings[j].verb /\ bindings[i].pattern = bindings[j].pattern
\* newRESTRouter: a method has one binding, the last that names it.
ByMethod(bindings) ==
    [m \in {bindings[i].method : i \in 1..Len(bindings)} |->
        bindings[Max({i \in 1..Len(bindings) : bindings[i].method = m})]]

\* buildPath; Nil when a variable has no value, or an empty one.
BuildPath(pattern, out) ==
    LET Missing(s) == /\ s.var /\ s.name # ""
                      /\ Values(out, PathKey(s.name)) = <<>> \/ Values(out, PathKey(s.name))[1] = ""
        Filled(s) == IF ~s.var THEN <<s.name>> ELSE IF s.name = "" THEN <<"{}">>
                     ELSE Segments(Values(out, PathKey(s.name))[1])
    IN  IF \E i \in 1..Len(pattern) : Missing(pattern[i]) THEN Nil
        ELSE FlattenSeq([i \in 1..Len(pattern) |-> Filled(pattern[i])])

Matches(pattern, path) ==
    /\ Len(pattern) = Len(path)
    /\ \A i \in 1..Len(path) : IF pattern[i].var THEN pattern[i].name # ""
                               ELSE pattern[i].name = path[i]
\* The variables of a match, as the metadata applyPathVars sets.
PathVars(pattern, path) ==
    [k \in {PathKey(pattern[i].name) : i \in {j \in 1..Len(path) : pattern[j].var}} |->
        <<path[Max({j \in 1..Len(path) : pattern[j].var /\ PathKey(pattern[j].name) = k})]>>]

\* ResolveAccept: every binding whose pattern matches sets its variables, the
\* later one wins, and the first with the request's verb is the method.  order
\* is the order of the table's iteration.
Binders(table, path, order, k) ==
    {i \in DOMAIN order : /\ Matches(table[order[i]].pattern, path)
                          /\ k \in DOMAIN PathVars(table[order[i]].pattern, path)}
RoutedMetadata(table, path, order, in) ==
    LET bound == UNION {DOMAIN PathVars(table[m].pattern, path) :
                           m \in {n \in ToSet(order) : Matches(table[n].pattern, path)}}
    IN  [k \in DOMAIN in \cup bound |->
            IF k \in bound
            THEN PathVars(table[order[Max(Binders(table, path, order, k))]].pattern, path)[k]
            ELSE in[k]]
\* Mutant: the verbs are not compared.
RoutedMethodAnyVerb(table, verb, path, order) ==
    LET is == {i \in DOMAIN order : Matches(table[order[i]].pattern, path)}
    IN  IF is = {} THEN Nil ELSE order[Min(is)]
RoutedMethod(table, verb, path, order) ==
    LET is == {i \in DOMAIN order : /\ Matches(table[order[i]].pattern, path)
                                    /\ table[order[i]].verb = verb}
    IN  IF is = {} THEN Nil ELSE order[Min(is)]

=============================================================================
