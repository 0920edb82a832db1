---------------------------- MODULE MCWgTxRing ----------------------------
(* WgTxRing for TLC: the constants are given in the configurations.        *)
EXTENDS WgTxRing
=============================================================================
