-------------------------- MODULE MCRtspClientLife --------------------------
(***************************************************************************)
(* RtspClientLife for TLC: up to two TCP connections in a client's life    *)
(* and two attempts per reconnecting thread.                               *)
(***************************************************************************)
EXTENDS RtspClientLife
=============================================================================
