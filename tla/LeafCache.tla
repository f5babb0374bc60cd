----------------------------- MODULE LeafCache ------------------------------
(***************************************************************************)
(* The cache of leaf certificates of internal/ca/ca.go: concurrent TLS     *)
(* handshakes that call LeafFor through the GetCertificate callback of     *)
(* ServerTLSConfig.  The lock is released between the lookup, the minting  *)
(* and the store.  A certificate is named by the call that minted it.      *)
(* Entries never expire and their age is never looked at, so there is no   *)
(* clock.                                                                  *)
(***************************************************************************)
CONSTANTS Calls,     \* handshakes
          Names,     \* host names as clients write them
          Hosts,     \* normalised hosts
          Norm,      \* normalizeHost: the port stripped, lower case
          Connect,   \* the host of the CONNECT request, per call
          SNI,       \* the server name of the ClientHello, or None
          None

ASSUME LeafAssumption ==
    /\ Norm \in [Names -> Hosts]
    /\ Connect \in [Calls -> Names]
    /\ SNI \in [Calls -> Names \cup {None}]
    /\ None \notin Calls /\ None \notin Names

VARIABLES cache,     \* a.cache: a certificate or None per host
          pc,        \* "start", "mint", "store", "done", "failed"
          cert,      \* the certificate a call returned
          madeFor    \* the host each minted certificate names

vars == <<cache, pc, cert, madeFor>>

\* The types.
TypeOK ==
    /\ cache \in [Hosts -> Calls \cup {None}]
    /\ pc \in [Calls -> {"start", "mint", "store", "done", "failed"}]
    /\ cert \in [Calls -> Calls \cup {None}]
    /\ madeFor \in [Calls -> Hosts \cup {None}]

Init ==
    /\ cache = [h \in Hosts |-> None]
    /\ pc = [c \in Calls |-> "start"]
    /\ cert = [c \in Calls |-> None]
    /\ madeFor = [c \in Calls |-> None]

\* GetCertificate: the SNI takes precedence over the CONNECT host.
MutConnectHost(c) == Connect[c]
NameOf(c) == IF SNI[c] # None THEN SNI[c] ELSE Connect[c]

HostOf(c) == Norm[NameOf(c)]

Return(c, x) ==
    /\ cert' = [cert EXCEPT ![c] = x]
    /\ pc' = [pc EXCEPT ![c] = "done"]

\* Under the read lock.
Lookup(c) ==
    LET x == cache[HostOf(c)] IN
    /\ pc[c] = "start"
    /\ \/ x # None /\ Return(c, x)
       \/ x = None /\ pc' = [pc EXCEPT ![c] = "mint"] /\ UNCHANGED cert
    /\ UNCHANGED <<cache, madeFor>>

\* mint, outside the lock; it may fail.
Mint(c) ==
    /\ pc[c] = "mint"
    /\ \/ /\ madeFor' = [madeFor EXCEPT ![c] = HostOf(c)]
          /\ pc' = [pc EXCEPT ![c] = "store"]
       \/ /\ pc' = [pc EXCEPT ![c] = "failed"]
          /\ UNCHANGED madeFor
    /\ UNCHANGED <<cache, cert>>

\* Under the write lock: whoever stored first wins.
MutLastWins(c) == c
Winner(c) == IF cache[HostOf(c)] # None THEN cache[HostOf(c)] ELSE c

Store(c) ==
    /\ pc[c] = "store"
    /\ cache' = [cache EXCEPT ![HostOf(c)] = Winner(c)]
    /\ Return(c, Winner(c))
    /\ UNCHANGED madeFor

Terminated == (\A c \in Calls : pc[c] \in {"done", "failed"}) /\ UNCHANGED vars

Next == (\E c \in Calls : Lookup(c) \/ Mint(c) \/ Store(c)) \/ Terminated

Spec == Init /\ [][Next]_vars

-----------------------------------------------------------------------------
(* However lookups, minting and stores interleave, all handshakes for one  *)
(* host are served the same certificate (LeafFor, lines 181-199).          *)
OneLeafPerHost ==
    \A c, d \in Calls :
        pc[c] = "done" /\ pc[d] = "done" /\ HostOf(c) = HostOf(d) => cert[c] = cert[d]

(* A handshake is served a certificate made for the name the client sent   *)
(* in its ClientHello, else for the CONNECT host.                          *)
LeafNamesClientsHost ==
    \A c \in Calls : pc[c] = "done" =>
        madeFor[cert[c]] = Norm[IF SNI[c] # None THEN SNI[c] ELSE Connect[c]]
=============================================================================
