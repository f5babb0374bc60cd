------------------------- MODULE RoundTripperProofs --------------------------
(***************************************************************************)
(* Proofs about the upstream transport, for any number of requests and     *)
(* hosts.                                                                  *)
(***************************************************************************)
EXTENDS RoundTripper, TLAPS

Dialling == {"handshake", "h1", "connect", "adopt", "adopting"}
OnConn   == {"send", "writing", "wait", "body"}

\* Who holds which lock: rt.mu around a look-up, cc.mu around a write.
LocksOK ==
    /\ mu # None => pc[mu] \in {"lookup", "adopting"}
    /\ \A r \in Reqs : pc[r] \in {"lookup", "adopting"} => mu = r
    /\ \A c \in Reqs : ccmu[c] # None => pc[ccmu[c]] = "writing" /\ conn[ccmu[c]] = c
    /\ \A r \in Reqs : pc[r] = "writing" => ccmu[conn[r]] = r

\* The pool, and whoever took a connection from it, has one of its own host.
HostsOK ==
    /\ \A h \in Hosts : pool[h] # None => HostOf[pool[h]] = h
    /\ \A r \in Reqs : pc[r] \in OnConn => conn[r] \in Reqs /\ HostOf[conn[r]] = HostOf[r]

\* What evict took is held until it is closed.
VictimOK == \A r \in Reqs : victim[r] # None => pc[r] = "closing"

\* rt.Close finds no request running and lets none begin.
DownOK == down => \A r \in Reqs : pc[r] \in {"start"} \cup Ended

\* How many connections the request may have reached by now: none before the
\* first write, one before the dial that a retry may use, and none before it if
\* the request has a body, which is never retried.
AttemptsOK ==
    \A r \in Reqs :
        /\ pc[r] \in {"start", "lookup"} => attempts[r] = 0
        /\ pc[r] = "send" /\ ~fresh[r] => attempts[r] = 0
        /\ pc[r] \in {"dial", "send"} \cup Dialling =>
              attempts[r] <= 1 /\ (r \in HasBody => attempts[r] = 0)
        /\ ~fresh[r] \/ r \in HasBody => attempts[r] <= 1
        /\ pc[r] \in {"start", "lookup", "dial"} => ~fresh[r]
        /\ pc[r] \in Dialling => fresh[r]

IndInv ==
    TypeOK /\ LocksOK /\ HostsOK /\ VictimOK /\ DownOK /\ AttemptsOK /\ NoConnLeak

-----------------------------------------------------------------------------
(* Close of a set of connections: those are closed and unusable, and no    *)
(* other one changes.  Stated pointwise for the steps below.               *)
LEMMA CloseEffect ==
    ASSUME NEW S, CloseConns(S), TypeOK
    PROVE  /\ usable' \in [Reqs -> BOOLEAN]
           /\ sock' \in [Reqs -> {"unused", "open", "closed"}]
           /\ \A c \in Reqs : sock'[c] = IF c \in S THEN "closed" ELSE sock[c]
<1>1. usable' \in [Reqs -> BOOLEAN] BY Zenon DEF CloseConns, TypeOK
<1> QED BY <1>1 DEF CloseConns, TypeOK

LEMMA InitInd == Init => IndInv
<1> SUFFICES ASSUME Init PROVE IndInv
  OBVIOUS
<1>1. TypeOK
  <2>1. /\ usable \in [Reqs -> BOOLEAN] /\ fresh \in [Reqs -> BOOLEAN]
        /\ down \in BOOLEAN
    BY Zenon DEF Init
  <2> QED BY <2>1, RTAssumption DEF Init, TypeOK
<1>2. LocksOK /\ HostsOK /\ VictimOK /\ DownOK
  BY RTAssumption DEF Init, LocksOK, HostsOK, VictimOK, DownOK, OnConn
<1>3. AttemptsOK
  <2>1. \A r \in Reqs : ~fresh[r] BY Zenon DEF Init
  <2>2. \A r \in Reqs : pc[r] = "start" BY DEF Init
  <2>3. \A r \in Reqs : attempts[r] = 0 /\ attempts[r] <= 1
    <3>1. \A r \in Reqs : attempts[r] = 0 BY Zenon DEF Init
    <3>2. 0 <= 1 OBVIOUS
    <3> QED BY <3>1, <3>2, Zenon
  <2> QED BY <2>1, <2>2, <2>3, Zenon DEF AttemptsOK, Dialling
<1>4. NoConnLeak BY DEF Init, NoConnLeak
<1> QED BY <1>1, <1>2, <1>3, <1>4 DEF IndInv

(* cachedH2.                                                               *)
LEMMA LookupInd ==
    ASSUME IndInv, NEW r \in Reqs,
           LockPool(r) \/ Miss(r) \/ Hit(r) \/ DropUnusable(r)
    PROVE  IndInv'
<1> USE RTAssumption
    DEF IndInv, TypeOK, LocksOK, HostsOK, VictimOK, DownOK, AttemptsOK,
        NoConnLeak, Owned, Dialling, OnConn, Ended, Goto
<1>1. CASE LockPool(r) BY <1>1 DEF LockPool
<1>2. CASE Miss(r) BY <1>2 DEF Miss
<1>3. CASE Hit(r) BY <1>3 DEF Hit
<1>4. CASE DropUnusable(r) BY <1>4, CloseEffect DEF DropUnusable
<1> QED BY <1>1, <1>2, <1>3, <1>4

(* cc.RoundTrip and the end of the connection.                             *)
LEMMA ExchangeInd ==
    ASSUME IndInv, NEW r \in Reqs,
           BeginWrite(r) \/ EndWrite(r) \/ Answer(r) \/ PeerDown(r) \/ CloseBody(r)
    PROVE  IndInv'
<1> USE RTAssumption
    DEF IndInv, TypeOK, LocksOK, HostsOK, VictimOK, DownOK, AttemptsOK,
        NoConnLeak, Owned, Dialling, OnConn, Ended, Goto
<1>1. CASE BeginWrite(r) BY <1>1 DEF BeginWrite, Attempt, MaxAttempts
<1>2. CASE EndWrite(r) BY <1>2 DEF EndWrite
<1>3. CASE Answer(r) BY <1>3 DEF Answer
<1>4. CASE PeerDown(r) BY <1>4, CloseEffect DEF PeerDown
<1>5. CASE CloseBody(r) BY <1>5 DEF CloseBody, CloseSock
<1> QED BY <1>1, <1>2, <1>3, <1>4, <1>5

(* evict and the decision to retry.                                        *)
LEMMA EvictInd ==
    ASSUME IndInv, NEW r \in Reqs, Evict(r) \/ CloseVictim(r)
    PROVE  IndInv'
<1> USE RTAssumption
    DEF IndInv, TypeOK, LocksOK, HostsOK, VictimOK, DownOK, AttemptsOK,
        NoConnLeak, Owned, Dialling, OnConn, Ended, Goto
<1>1. CASE Evict(r) BY <1>1 DEF Evict
<1>2. CASE CloseVictim(r) BY <1>2, CloseEffect DEF CloseVictim, MayRetry
<1> QED BY <1>1, <1>2

(* Dialling, the HTTP/1.1 exchange and the start of an HTTP/2 connection.  *)
LEMMA DialInd ==
    ASSUME IndInv, NEW r \in Reqs,
           DialTCP(r) \/ Handshake(r) \/ RoundTripHTTP1(r) \/ NewH2ClientConn(r)
    PROVE  IndInv'
<1> USE RTAssumption
    DEF IndInv, TypeOK, LocksOK, HostsOK, VictimOK, DownOK, AttemptsOK,
        NoConnLeak, Owned, Dialling, OnConn, Ended, Goto, CloseSock
<1>1. CASE DialTCP(r) BY <1>1 DEF DialTCP
<1>2. CASE Handshake(r) BY <1>2 DEF Handshake, HandshakeError
<1>3. CASE RoundTripHTTP1(r) BY <1>3 DEF RoundTripHTTP1, Attempt, MaxAttempts
<1>4. CASE NewH2ClientConn(r)
  <2>1. CASE usable' = [usable EXCEPT ![r] = TRUE] /\ Goto(r, "adopt") /\ UNCHANGED sock
    <3>1. usable' \in [Reqs -> BOOLEAN] BY <2>1, Zenon
    <3> QED BY <1>4, <2>1, <3>1 DEF NewH2ClientConn
  <2>2. CASE CloseSock(r) /\ Goto(r, "failed") /\ UNCHANGED usable
    BY <1>4, <2>2 DEF NewH2ClientConn
  <2> QED BY <1>4, <2>1, <2>2 DEF NewH2ClientConn
<1> QED BY <1>1, <1>2, <1>3, <1>4

(* adoptH2.                                                                *)
LEMMA AdoptInd ==
    ASSUME IndInv, NEW r \in Reqs, LockAdopt(r) \/ JoinExisting(r) \/ Install(r)
    PROVE  IndInv'
<1> USE RTAssumption
    DEF IndInv, TypeOK, LocksOK, HostsOK, VictimOK, DownOK, AttemptsOK,
        NoConnLeak, Owned, Dialling, OnConn, Ended, Goto
<1>1. CASE LockAdopt(r) BY <1>1 DEF LockAdopt
<1>2. CASE JoinExisting(r) BY <1>2, CloseEffect DEF JoinExisting
<1>3. CASE Install(r) BY <1>3, CloseEffect DEF Install
<1> QED BY <1>1, <1>2, <1>3

(* rt.Close.                                                               *)
LEMMA CloseInd == ASSUME IndInv, Close PROVE IndInv'
BY RTAssumption, CloseEffect
   DEF Close, Pooled, IndInv, TypeOK, LocksOK, HostsOK, VictimOK, DownOK, AttemptsOK, NoConnLeak, Owned, Dialling, OnConn, Ended

LEMMA NextInd == IndInv /\ [Next]_vars => IndInv'
<1>1. ASSUME IndInv, UNCHANGED vars PROVE IndInv'
  BY <1>1 DEF vars, IndInv, TypeOK, LocksOK, HostsOK, VictimOK, DownOK, AttemptsOK, NoConnLeak, Owned
<1> QED
  BY <1>1, LookupInd, ExchangeInd, EvictInd, DialInd, AdoptInd, CloseInd
     DEF Next, GoStep, NetStep, Terminated

LEMMA Inductive == Spec => []IndInv
BY InitInd, NextInd, PTL DEF Spec

-----------------------------------------------------------------------------
(* No socket is ever lost, whatever requests race in the pool and wherever *)
(* they fail.                                                              *)
THEOREM SocketsAccounted == Spec => []NoConnLeak
<1>1. IndInv => NoConnLeak BY DEF IndInv
<1> QED BY <1>1, Inductive, PTL

(* A request whose body has been consumed is sent once.                    *)
THEOREM BodiesSentOnce == Spec => []NoReplay
<1>1. IndInv => NoReplay
  BY RTAssumption DEF IndInv, TypeOK, AttemptsOK, NoReplay, Dialling
<1> QED BY <1>1, Inductive, PTL

(* The locks are taken in the order rt.mu, cc.mu: whoever holds a cc.mu is *)
(* writing to that connection, so it waits for a peer and for no lock, and *)
(* whoever holds rt.mu is inside cachedH2 or adoptH2.                      *)
THEOREM LocksAreOrdered == Spec => []LocksOK
<1>1. IndInv => LocksOK BY DEF IndInv
<1> QED BY <1>1, Inductive, PTL

(* A request is only ever on a connection to its own host, through every   *)
(* race of look-up, eviction and adoption.                                 *)
THEOREM HostsNeverMixed == Spec => []HostsOK
<1>1. IndInv => HostsOK BY DEF IndInv
<1> QED BY <1>1, Inductive, PTL
=============================================================================
