------------------------------ MODULE MCSession ------------------------------
(* Session with its bounds given in the configurations.                    *)
EXTENDS Session
==============================================================================
