----------------------------- MODULE Authority ------------------------------
(***************************************************************************)
(* One running proxy beside every other invocation of doppel: the Authority*)
(* it has loaded (CAFiles) serves the handshakes of its clients with leaves*)
(* it mints and caches (LeafCache), while other invocations may rewrite the*)
(* files it was loaded from.  The files are read once, so what is minted   *)
(* depends on the pair in memory alone.                                    *)
(***************************************************************************)
EXTENDS LeafCache, CAFiles

CONSTANT Runner      \* the invocation that runs the proxy

ASSUME RunnerAssumption == Runner \in Procs /\ Command[Runner] = "load"

allVars == <<cache, pc, cert, madeFor,
             certFile, keyFile, step, caCert, caKey, writer>>

AuthorityInit == Init /\ CAInit

\* The proxy serves handshakes only once its CA is loaded.
Serving == step[Runner] = "ready"

\* x509.CreateCertificate refuses a key that does not match its parent.
CanSign == caCert[Runner] = caKey[Runner]

AuthorityLookup(c) == Serving /\ Lookup(c) /\ UNCHANGED caVars
AuthorityMint(c) ==
    /\ Serving
    /\ Mint(c)
    /\ pc'[c] = "store" => CanSign
    /\ UNCHANGED caVars
AuthorityStore(c) == Serving /\ Store(c) /\ UNCHANGED caVars

\* Any invocation, the proxy's own included, goes on.
Invocation(p) ==
    /\ \/ Start(p) \/ TruncCert(p) \/ WriteCert(p) \/ TruncKey(p) \/ WriteKey(p)
       \/ ReadCert(p) \/ ReadKey(p) \/ Die(p)
    /\ UNCHANGED vars

AuthorityDone ==
    /\ \A p \in Procs : step[p] \in Over
    /\ Serving => \A c \in Calls : pc[c] \in {"done", "failed"}
    /\ UNCHANGED allVars

AuthorityNext ==
    \/ \E c \in Calls : AuthorityLookup(c) \/ AuthorityMint(c) \/ AuthorityStore(c)
    \/ \E p \in Procs : Invocation(p)
    \/ AuthorityDone

AuthoritySpec == AuthorityInit /\ [][AuthorityNext]_allVars
=============================================================================
