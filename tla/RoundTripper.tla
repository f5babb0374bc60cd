---------------------------- MODULE RoundTripper ----------------------------
(***************************************************************************)
(* The upstream transport, internal/upstream/roundtripper.go: concurrent   *)
(* calls of RoundTrip that share the pool of HTTP/2 connections, one per   *)
(* host, under rt.mu, with the dialling of dialer.go and the single-use    *)
(* HTTP/1.1 connections.                                                   *)
(*                                                                         *)
(* A connection is named by the request that dialled it, which dials at    *)
(* most once.  An HTTP/2 connection is seen from outside: cc.mu, which     *)
(* writeRequest holds while it writes to the socket and CanTakeNewRequest, *)
(* Close and failAll need; whether it is usable (cc.closed is false); and  *)
(* the answer or the error that a request on it gets (module H2Client).    *)
(***************************************************************************)
EXTENDS Integers

CONSTANTS Reqs,      \* calls of RoundTrip
          Hosts,
          HostOf,    \* the host of each request
          HasBody,   \* requests with req.Body # nil: all that forward builds
          None

ASSUME RTAssumption ==
    /\ HostOf \in [Reqs -> Hosts]
    /\ HasBody \subseteq Reqs
    /\ None \notin Reqs

VARIABLES
    mu,       \* holder of rt.mu
    ccmu,     \* holder of cc.mu of each connection
    pool,     \* rt.pool: a connection or None per host
    usable,   \* CanTakeNewRequest of each HTTP/2 connection
    sock,     \* "unused", "open" or "closed"
    pc,       \* where each request is in roundTrip
    conn,     \* the connection it is on
    victim,   \* the connection its evict took out of the pool
    fresh,    \* it is past the dial: no more retry
    attempts, \* connections its bytes may have reached (at most MaxAttempts)
    down      \* rt.Close has been called

vars == <<mu, ccmu, pool, usable, sock, pc, conn, victim, fresh, attempts, down>>

Ended == {"done", "failed"}
MaxAttempts == 3   \* bound of the counter; one more than the code allows

(* The types, and that no request is written to more than two connections: *)
(* the pooled one and the one dialled after it failed.                     *)
TypeOK ==
    /\ mu \in Reqs \cup {None}
    /\ ccmu \in [Reqs -> Reqs \cup {None}]
    /\ pool \in [Hosts -> Reqs \cup {None}]
    /\ usable \in [Reqs -> BOOLEAN]
    /\ sock \in [Reqs -> {"unused", "open", "closed"}]
    /\ pc \in [Reqs -> {"start", "lookup", "send", "writing", "wait", "evict",
                        "closing", "dial", "handshake", "h1", "connect",
                        "adopt", "adopting", "body", "h1body"} \cup Ended]
    /\ conn \in [Reqs -> Reqs \cup {None}]
    /\ victim \in [Reqs -> Reqs \cup {None}]
    /\ fresh \in [Reqs -> BOOLEAN]
    /\ attempts \in [Reqs -> 0..2]
    /\ down \in BOOLEAN

Init ==
    /\ mu = None /\ ccmu = [c \in Reqs |-> None]
    /\ pool = [h \in Hosts |-> None]
    /\ usable = [c \in Reqs |-> FALSE] /\ sock = [c \in Reqs |-> "unused"]
    /\ pc = [r \in Reqs |-> "start"]
    /\ conn = [r \in Reqs |-> None] /\ victim = [r \in Reqs |-> None]
    /\ fresh = [r \in Reqs |-> FALSE] /\ attempts = [r \in Reqs |-> 0]
    /\ down = FALSE

-----------------------------------------------------------------------------
Goto(r, at) == pc' = [pc EXCEPT ![r] = at]

Attempt(r) ==
    attempts' = [attempts EXCEPT ![r] = IF @ < MaxAttempts THEN @ + 1 ELSE @]

\* cc.Close, by whoever holds no cc.mu: later calls find it closed.
CloseConns(S) ==
    /\ \A c \in S : ccmu[c] = None
    /\ usable' = [c \in Reqs |-> usable[c] /\ c \notin S]
    /\ sock' = [c \in Reqs |-> IF c \in S THEN "closed" ELSE sock[c]]

\* conn.Close on a connection that is not in HTTP/2 use.
CloseSock(c) == sock' = [sock EXCEPT ![c] = "closed"]

-----------------------------------------------------------------------------
(* cachedH2: rt.mu is held while CanTakeNewRequest waits for cc.mu.        *)

LockPool(r) ==
    /\ pc[r] = "start" /\ ~down
    /\ mu = None
    /\ mu' = r
    /\ Goto(r, "lookup")
    /\ UNCHANGED <<ccmu, pool, usable, sock, conn, victim, fresh, attempts, down>>

Miss(r) ==
    /\ pc[r] = "lookup"
    /\ pool[HostOf[r]] = None
    /\ mu' = None
    /\ Goto(r, "dial")
    /\ UNCHANGED <<ccmu, pool, usable, sock, conn, victim, fresh, attempts, down>>

Hit(r) ==
    LET c == pool[HostOf[r]] IN
    /\ pc[r] = "lookup"
    /\ c # None /\ ccmu[c] = None /\ usable[c]
    /\ mu' = None
    /\ conn' = [conn EXCEPT ![r] = c]
    /\ Goto(r, "send")
    /\ UNCHANGED <<ccmu, pool, usable, sock, victim, fresh, attempts, down>>

DropUnusable(r) ==
    LET c == pool[HostOf[r]] IN
    /\ pc[r] = "lookup"
    /\ c # None /\ ccmu[c] = None /\ ~usable[c]
    /\ pool' = [pool EXCEPT ![HostOf[r]] = None]
    /\ CloseConns({c})
    /\ mu' = None
    /\ Goto(r, "dial")
    /\ UNCHANGED <<ccmu, conn, victim, fresh, attempts, down>>

-----------------------------------------------------------------------------
(* cc.RoundTrip.                                                           *)

\* writeRequest takes cc.mu, or finds the connection closed.
BeginWrite(r) ==
    LET c == conn[r] IN
    /\ pc[r] = "send"
    /\ ccmu[c] = None
    /\ \/ /\ usable[c]
          /\ ccmu' = [ccmu EXCEPT ![c] = r]
          /\ Attempt(r)
          /\ Goto(r, "writing")
       \/ /\ ~usable[c]
          /\ Goto(r, "evict")
          /\ UNCHANGED <<ccmu, attempts>>
    /\ UNCHANGED <<mu, pool, usable, sock, conn, victim, fresh, down>>

\* The frames are in the socket, or a write failed; neither happens while the
\* host takes no bytes, and nothing bounds the write.
EndWrite(r) ==
    /\ pc[r] = "writing"
    /\ ccmu' = [ccmu EXCEPT ![conn[r]] = None]
    /\ \E at \in {"wait", "evict"} : Goto(r, at)
    /\ UNCHANGED <<mu, pool, usable, sock, conn, victim, fresh, attempts, down>>

\* The response headers, or an error of this stream alone, or the connection
\* was closed under it.
Answer(r) ==
    /\ pc[r] = "wait"
    /\ \/ usable[conn[r]] /\ Goto(r, "body")
       \/ Goto(r, "evict")
    /\ UNCHANGED <<mu, ccmu, pool, usable, sock, conn, victim, fresh, attempts, down>>

\* readLoop's failAll (external): the peer closes an established connection.
PeerDown(c) ==
    /\ usable[c]
    /\ CloseConns({c})
    /\ UNCHANGED <<mu, ccmu, pool, pc, conn, victim, fresh, attempts, down>>

-----------------------------------------------------------------------------
(* evict(host), then retry or give up.                                     *)

\* What leaves the pool is what the pool holds for the host now.
Evict(r) ==
    /\ pc[r] = "evict"
    /\ mu = None
    /\ victim' = [victim EXCEPT ![r] = pool[HostOf[r]]]
    /\ pool' = [pool EXCEPT ![HostOf[r]] = None]
    /\ Goto(r, "closing")
    /\ UNCHANGED <<mu, ccmu, usable, sock, conn, fresh, attempts, down>>

\* A request is retried on a new connection once, and only without a body.
MutRetryBody(r) == ~fresh[r]
MutRetryForever(r) == r \notin HasBody
MayRetry(r) == ~fresh[r] /\ r \notin HasBody

CloseVictim(r) ==
    /\ pc[r] = "closing"
    /\ CloseConns({victim[r]} \ {None})
    /\ victim' = [victim EXCEPT ![r] = None]
    /\ Goto(r, IF MayRetry(r) THEN "dial" ELSE "failed")
    /\ UNCHANGED <<mu, ccmu, pool, conn, fresh, attempts, down>>

-----------------------------------------------------------------------------
(* Dialer.Dial: TCP, then TLS under a deadline; a failure closes the       *)
(* socket.  ALPN decides the protocol.                                     *)

DialTCP(r) ==
    /\ pc[r] = "dial"
    /\ \/ /\ sock' = [sock EXCEPT ![r] = "open"]
          /\ Goto(r, "handshake")
       \/ /\ Goto(r, "failed")
          /\ UNCHANGED sock
    /\ fresh' = [fresh EXCEPT ![r] = TRUE]
    /\ UNCHANGED <<mu, ccmu, pool, usable, conn, victim, attempts, down>>

MutKeepSocketOnError(r) == UNCHANGED sock
HandshakeError(r) == CloseSock(r)

Handshake(r) ==
    /\ pc[r] = "handshake"
    /\ \/ /\ \E proto \in {"h1", "connect"} : Goto(r, proto)
          /\ UNCHANGED sock
       \/ HandshakeError(r) /\ Goto(r, "failed")
    /\ UNCHANGED <<mu, ccmu, pool, usable, conn, victim, fresh, attempts, down>>

\* roundTripHTTP1: one request, one response, on a connection of its own.
RoundTripHTTP1(r) ==
    /\ pc[r] = "h1"
    /\ Attempt(r)
    /\ conn' = [conn EXCEPT ![r] = r]
    /\ \/ Goto(r, "h1body") /\ UNCHANGED sock
       \/ CloseSock(r) /\ Goto(r, "failed")
    /\ UNCHANGED <<mu, ccmu, pool, usable, victim, fresh, down>>

\* newH2ClientConn: the preface is written and readLoop started, or the
\* socket is closed.
NewH2ClientConn(r) ==
    /\ pc[r] = "connect"
    /\ \/ /\ usable' = [usable EXCEPT ![r] = TRUE]
          /\ Goto(r, "adopt") /\ UNCHANGED sock
       \/ CloseSock(r) /\ Goto(r, "failed") /\ UNCHANGED usable
    /\ UNCHANGED <<mu, ccmu, pool, conn, victim, fresh, attempts, down>>

\* adoptH2: rt.mu again held while CanTakeNewRequest waits for cc.mu.
LockAdopt(r) ==
    /\ pc[r] = "adopt"
    /\ mu = None
    /\ mu' = r
    /\ Goto(r, "adopting")
    /\ UNCHANGED <<ccmu, pool, usable, sock, conn, victim, fresh, attempts, down>>

\* Somebody pooled a usable connection meanwhile: it is shared, ours is closed.
JoinExisting(r) ==
    LET e == pool[HostOf[r]] IN
    /\ pc[r] = "adopting"
    /\ e # None /\ ccmu[e] = None /\ usable[e]
    /\ CloseConns({r})
    /\ conn' = [conn EXCEPT ![r] = e]
    /\ mu' = None
    /\ Goto(r, "send")
    /\ UNCHANGED <<ccmu, pool, victim, fresh, attempts, down>>

\* Ours enters the pool; an unusable one it replaces is closed.
Install(r) ==
    LET e == pool[HostOf[r]] IN
    /\ pc[r] = "adopting"
    /\ e # None => ccmu[e] = None /\ ~usable[e]
    /\ CloseConns({e} \ {None})
    /\ pool' = [pool EXCEPT ![HostOf[r]] = r]
    /\ conn' = [conn EXCEPT ![r] = r]
    /\ mu' = None
    /\ Goto(r, "send")
    /\ UNCHANGED <<ccmu, victim, fresh, attempts, down>>

-----------------------------------------------------------------------------
\* The caller, or RoundTrip itself when the body cannot be decoded, closes the
\* body; that closes an HTTP/1.1 connection and leaves an HTTP/2 one pooled.
CloseBody(r) ==
    /\ \/ pc[r] = "body" /\ UNCHANGED sock
       \/ pc[r] = "h1body" /\ CloseSock(r)
    /\ \E at \in Ended : Goto(r, at)
    /\ UNCHANGED <<mu, ccmu, pool, usable, conn, victim, fresh, attempts, down>>

Pooled == {pool[h] : h \in Hosts} \ {None}

\* rt.Close, deferred by cmdRun: Serve has returned, so no request is running.
Close ==
    /\ ~down
    /\ mu = None
    /\ \A r \in Reqs : pc[r] \in {"start"} \cup Ended
    /\ CloseConns(Pooled)
    /\ pool' = [h \in Hosts |-> None]
    /\ down' = TRUE
    /\ UNCHANGED <<mu, ccmu, pc, conn, victim, fresh, attempts>>

Terminated == down /\ UNCHANGED vars

-----------------------------------------------------------------------------
\* Steps of the request's goroutine, once it may run.
GoStep(r) ==
    \/ Miss(r) \/ Hit(r) \/ DropUnusable(r) \/ BeginWrite(r)
    \/ Evict(r) \/ CloseVictim(r) \/ NewH2ClientConn(r)
    \/ LockAdopt(r) \/ JoinExisting(r) \/ Install(r) \/ CloseBody(r)

\* Steps that wait for the network: dialling has a deadline, the rest an
\* answering peer.
NetStep(r) ==
    DialTCP(r) \/ Handshake(r) \/ RoundTripHTTP1(r) \/ EndWrite(r) \/ Answer(r)

Next ==
    \/ \E r \in Reqs : LockPool(r) \/ GoStep(r) \/ NetStep(r) \/ PeerDown(r)
    \/ Close \/ Terminated

Spec == Init /\ [][Next]_vars

(* A goroutine that can run does run, a mutex is handed to a waiter, and a *)
(* peer takes bytes, answers or breaks the connection.  New requests,      *)
(* Close and PeerDown are never forced.                                    *)
Fairness == \A r \in Reqs : WF_vars(GoStep(r)) /\ WF_vars(NetStep(r))
LiveSpec == Spec /\ Fairness

-----------------------------------------------------------------------------
(* Properties.                                                             *)

\* Who is still responsible for an open socket.
Owned(c) ==
    \/ \E h \in Hosts : pool[h] = c
    \/ pc[c] \in {"handshake", "h1", "h1body", "connect", "adopt", "adopting"}
    \/ \E r \in Reqs : victim[r] = c

(* No socket is lost: an open one is pooled, or the request that dialled   *)
(* it has not handed it over yet, or an evict is about to close it (every  *)
(* error path of dialer.go and roundtripper.go closes what it opened); and *)
(* after Close none is open at all (lines 85-93).                          *)
NoConnLeak == \A c \in Reqs : sock[c] = "open" => Owned(c) /\ ~down

(* A request with a body, which was consumed by the first attempt, never   *)
(* reaches a second connection (line 57).                                  *)
NoReplay == \A r \in HasBody : attempts[r] <= 1

(* Every request ends when peers take bytes and answer: the two locks,     *)
(* always taken in the order rt.mu, cc.mu, cannot block each other.        *)
RequestsEnd == \A r \in Reqs : (pc[r] # "start") ~> (pc[r] \in Ended)

(* A failed request evicts the connection it failed on, not a healthy one  *)
(* that another request has pooled since: "RoundTripper is safe for        *)
(* concurrent use" (line 19).                                              *)
EvictsFailedConn ==
    \A r \in Reqs : victim[r] # None => victim[r] = conn[r]
=============================================================================
