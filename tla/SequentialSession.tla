-------------------------- MODULE SequentialSession --------------------------
(***************************************************************************)
(* What a transport with CallConcurrency() = Sequential promises its       *)
(* callers (transport.ClientConn, internal/session.ClientSession): the     *)
(* connection serves one call at a time; a call receives what was sent for *)
(* it, all of it and in order, and nothing else; and the connection goes   *)
(* to another call only when the previous one has seen its end.            *)
(***************************************************************************)
EXTENDS Naturals, Sequences

CONSTANTS
    Calls,       \* the calls
    Answers,     \* the sequences a responder may send for a call ...
    Ended(_),    \* ... and whether one holds the end of the call
    None

VARIABLES
    holder,      \* the call that has the connection, or None
    usable,      \* the connection may be lent (again)
    answer,      \* per call: what has been sent for it
    received     \* per call: what it has received

svars == <<holder, usable, answer, received>>

SInit ==
    /\ holder = None
    /\ usable = TRUE
    /\ answer = [k \in Calls |-> <<>>]
    /\ received = [k \in Calls |-> <<>>]

Lend(k) ==
    /\ holder = None /\ usable
    /\ holder' = k
    /\ usable' \in BOOLEAN
    /\ UNCHANGED <<answer, received>>

\* The responder sends one more item for k, or the connection fails as it does.
Respond(k) ==
    /\ answer[k] \in Answers /\ ~Ended(answer[k])
    /\ \E a \in Answers : /\ Len(a) = Len(answer[k]) + 1
                          /\ SubSeq(a, 1, Len(answer[k])) = answer[k]
                          /\ answer' = [answer EXCEPT ![k] = a]
    /\ usable' \in {usable, FALSE}
    /\ UNCHANGED <<holder, received>>

Receive(k) ==
    /\ holder = k
    /\ Len(received[k]) < Len(answer[k])
    /\ received' = [received EXCEPT ![k] = Append(@, answer[k][Len(@) + 1])]
    /\ UNCHANGED <<holder, usable, answer>>

\* A call gives the connection back; only the end of the call, sent, keeps it.
Return(k) ==
    /\ holder = k
    /\ holder' = None
    /\ usable' => usable /\ Ended(answer[k])
    /\ UNCHANGED <<answer, received>>

\* The connection fails or is closed, at any time.
Spoil ==
    /\ usable' = FALSE
    /\ UNCHANGED <<holder, answer, received>>

SNext == Spoil \/ \E k \in Calls : Lend(k) \/ Respond(k) \/ Receive(k) \/ Return(k)

SSpec == SInit /\ [][SNext]_svars
=============================================================================
