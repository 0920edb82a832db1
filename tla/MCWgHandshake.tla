--------------------------- MODULE MCWgHandshake ---------------------------
(* The handshake for TLC, with small periods in the order of the code's:    *)
(* the first retry comes before REKEY_TIMEOUT, the keepalive before the     *)
(* session counts as stale, and that before it is rekeyed for its age.      *)
EXTENDS WgHandshake
=============================================================================
