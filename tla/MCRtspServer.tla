---------------------------- MODULE MCRtspServer ----------------------------
(* RtspServer for TLC.                                                     *)
EXTENDS RtspServer
=============================================================================
