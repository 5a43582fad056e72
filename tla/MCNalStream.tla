---------------------------- MODULE MCNalStream ----------------------------
(* NalStream for TLC.                                                      *)
EXTENDS NalStream
=============================================================================
