------------------------------ MODULE Exchanges ------------------------------
(***************************************************************************)
(* What a connection promises those who send requests over it, without a   *)
(* word about streams, frames, locks or pipes.  The contract is that of    *)
(* http.RoundTripper, which h2ClientConn has for its callers: a request is *)
(* answered or fails, once; a body is handed out in order and says it is   *)
(* over only when it is; a shut connection takes no more requests.         *)
(* H2Client is shown to implement this specification.                      *)
(***************************************************************************)
EXTENDS Integers

CONSTANTS Reqs,      \* requests
          MaxBody    \* bound: units in a response body

VARIABLES
    open,     \* the connection takes requests
    phase,    \* of each request: "new", "pending", "body", "ended"
    length,   \* units in the body of its response
    read,     \* units its caller has read
    outcome   \* "none", "noresp", "eof", "err", "aborted"

vars == <<open, phase, length, read, outcome>>

Init ==
    /\ open = TRUE
    /\ phase = [r \in Reqs |-> "new"] /\ outcome = [r \in Reqs |-> "none"]
    /\ length = [r \in Reqs |-> 0] /\ read = [r \in Reqs |-> 0]

Phase(r, from, to) == phase[r] = from /\ phase' = [phase EXCEPT ![r] = to]

\* The exchange is over; this happens once.
End(r, from, how) ==
    /\ Phase(r, from, "ended")
    /\ outcome' = [outcome EXCEPT ![r] = how]
    /\ UNCHANGED <<open, read>>

SetLength(r) == \E n \in 0..MaxBody : length' = [length EXCEPT ![r] = n]

\* The request is sent, on an open connection.
Issue(r) ==
    /\ open
    /\ Phase(r, "new", "pending")
    /\ SetLength(r)
    /\ UNCHANGED <<open, read, outcome>>

\* It is not: the connection is shut, or sending failed, in which case the
\* server may have seen the request all the same.
Refuse(r) ==
    /\ End(r, "new", "noresp")
    /\ (open /\ SetLength(r)) \/ UNCHANGED length

Answer(r) ==
    /\ Phase(r, "pending", "body")
    /\ UNCHANGED <<open, length, read, outcome>>

NoAnswer(r) == End(r, "pending", "noresp") /\ UNCHANGED length

Read(r) ==
    /\ phase[r] = "body" /\ read[r] < length[r]
    /\ read' = [read EXCEPT ![r] = @ + 1]
    /\ UNCHANGED <<open, phase, length, outcome>>

\* EOF comes after the last unit and not before.
Finish(r) == read[r] = length[r] /\ End(r, "body", "eof") /\ UNCHANGED length

Break(r) == End(r, "body", "err") /\ UNCHANGED length

Abandon(r) == End(r, "body", "aborted") /\ UNCHANGED length

Shut ==
    /\ open /\ open' = FALSE
    /\ UNCHANGED <<phase, length, read, outcome>>

Next ==
    \/ Shut
    \/ \E r \in Reqs :
          \/ Issue(r) \/ Refuse(r) \/ Answer(r) \/ NoAnswer(r)
          \/ Read(r) \/ Finish(r) \/ Break(r) \/ Abandon(r)

Spec == Init /\ [][Next]_vars
==============================================================================
