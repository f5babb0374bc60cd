-------------------------- MODULE LeafCacheProofs ---------------------------
(***************************************************************************)
(* Proofs about the leaf cache, for any number of handshakes and hosts.    *)
(***************************************************************************)
EXTENDS LeafCache, TLAPS

\* A cached certificate was minted for the host it is cached under.
CacheOK == \A h \in Hosts : cache[h] # None => madeFor[cache[h]] = h

\* A call that has minted holds a certificate for its host.
MintedOK == \A c \in Calls : pc[c] = "store" => madeFor[c] = HostOf(c)

\* What a call returned is what the cache still holds for its host.
ReturnedOK ==
    \A c \in Calls : pc[c] = "done" => cert[c] # None /\ cert[c] = cache[HostOf(c)]

\* Only a call on its way to the store changes what is minted under its name.
FreshOK ==
    \A c \in Calls : pc[c] \in {"start", "mint"} => \A h \in Hosts : cache[h] # c

IndInv == TypeOK /\ CacheOK /\ MintedOK /\ ReturnedOK /\ FreshOK

(* The host of a call is a normalised host.                                *)
LEMMA HostTyped == \A c \in Calls : HostOf(c) \in Hosts
BY LeafAssumption DEF HostOf, NameOf

(* The invariant holds initially.                                          *)
LEMMA InitInd == Init => IndInv
BY LeafAssumption, HostTyped
   DEF Init, IndInv, TypeOK, CacheOK, MintedOK, ReturnedOK, FreshOK

(* Every step preserves it: the cache entry of a host, once set, stays.    *)
LEMMA NextInd == IndInv /\ [Next]_vars => IndInv'
<1> SUFFICES ASSUME IndInv, [Next]_vars PROVE IndInv'
  OBVIOUS
<1> USE LeafAssumption, HostTyped
    DEF IndInv, TypeOK, CacheOK, MintedOK, ReturnedOK, FreshOK
<1>1. ASSUME NEW c \in Calls, Lookup(c) PROVE IndInv'
  <2>1. CASE cache[HostOf(c)] # None
    BY <1>1, <2>1 DEF Lookup, Return
  <2>2. CASE cache[HostOf(c)] = None
    BY <1>1, <2>2 DEF Lookup, Return
  <2> QED BY <2>1, <2>2
<1>2. ASSUME NEW c \in Calls, Mint(c) PROVE IndInv'
  <2>1. CASE UNCHANGED madeFor
    BY <1>2, <2>1 DEF Mint
  <2>2. CASE madeFor' = [madeFor EXCEPT ![c] = HostOf(c)]
    BY <1>2, <2>2 DEF Mint
  <2> QED BY <1>2, <2>1, <2>2 DEF Mint
<1>3. ASSUME NEW c \in Calls, Store(c) PROVE IndInv'
  <2>1. Winner(c) \in Calls /\ madeFor[Winner(c)] = HostOf(c)
    BY <1>3 DEF Store, Winner
  <2>2. cache[HostOf(c)] # None => Winner(c) = cache[HostOf(c)]
    BY DEF Winner
  <2>3. Winner(c) = c \/ Winner(c) = cache[HostOf(c)]
    BY DEF Winner
  <2> QED BY <1>3, <2>1, <2>2, <2>3 DEF Store, Return
<1>4. CASE UNCHANGED vars
  BY <1>4 DEF vars
<1> QED BY <1>1, <1>2, <1>3, <1>4 DEF Next, Terminated

LEMMA Inductive == Spec => []IndInv
BY InitInd, NextInd, PTL DEF Spec

(* Type correctness of the leaf cache.                                     *)
THEOREM LeafTypes == Spec => []TypeOK
<1>1. IndInv => TypeOK BY DEF IndInv
<1> QED BY <1>1, Inductive, PTL

(* All handshakes for one host get one certificate, whatever their number  *)
(* and interleaving.                                                       *)
THEOREM SameLeaf == Spec => []OneLeafPerHost
<1>1. IndInv => OneLeafPerHost
  BY DEF IndInv, ReturnedOK, OneLeafPerHost
<1> QED BY <1>1, Inductive, PTL

(* Every handshake gets a certificate for the name it asked for.           *)
THEOREM LeafForRightHost == Spec => []LeafNamesClientsHost
<1>1. IndInv => LeafNamesClientsHost
  BY HostTyped DEF IndInv, CacheOK, ReturnedOK, LeafNamesClientsHost, HostOf, NameOf
<1> QED BY <1>1, Inductive, PTL
=============================================================================
