----------------------------- MODULE MCAuthority ----------------------------
(* Instances of Authority for TLC.  Two first inits, an init -force and a  *)
(* proxy; four handshakes: two reach one host under two spellings, the     *)
(* third names that host in its SNI but another in its CONNECT request,    *)
(* the fourth reaches that other host.                                     *)
EXTENDS Authority, TLC

CONSTANTS p1, p2, p3, p4, c1, c2, c3, c4, lower, upper, other, a, b

MCCommand == (p1 :> "init") @@ (p2 :> "init") @@ (p3 :> "force") @@ (p4 :> "load")

MCNorm    == (lower :> a) @@ (upper :> a) @@ (other :> b)
MCConnect == (c1 :> lower) @@ (c2 :> upper) @@ (c3 :> other) @@ (c4 :> other)
MCSNI     == (c1 :> None) @@ (c2 :> None) @@ (c3 :> lower) @@ (c4 :> None)
=============================================================================
