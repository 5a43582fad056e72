----------------------------- MODULE MCMicRing -----------------------------
(* MicRing for TLC.                                                        *)
EXTENDS MicRing

\* The lowest and the highest sample, both clipped after the gain.
LoudRaw == {-PCM_MAX - 1, PCM_MAX}
=============================================================================
