--------------------------- MODULE MCProxyServer ----------------------------
(* Instances of ProxyServer for TLC.                                       *)
EXTENDS ProxyServer, TLC

CONSTANTS c1, c2, c3
=============================================================================
