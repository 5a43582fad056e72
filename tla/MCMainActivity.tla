--------------------------- MODULE MCMainActivity ---------------------------
(***************************************************************************)
(* MainActivity for TLC: two clients one after the other, each of which    *)
(* may reconnect once, and a ring.                                         *)
(***************************************************************************)
EXTENDS MainActivity
=============================================================================
