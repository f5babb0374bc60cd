----------------------------- MODULE MCH2Client -----------------------------
(* Instances of H2Client for TLC.                                          *)
EXTENDS H2Client, TLC

CONSTANTS r1, r2
=============================================================================
