--------------------------- MODULE MCRoundTripper ---------------------------
(* Instances of RoundTripper for TLC.                                      *)
EXTENDS RoundTripper, TLC

CONSTANTS r1, r2, r3, h1, h2

OneHost  == [r \in {r1, r2, r3} |-> h1]
=============================================================================
