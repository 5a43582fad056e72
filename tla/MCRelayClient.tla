--------------------------- MODULE MCRelayClient ---------------------------
(* Instance of RelayClient for TLC: the real delays, a buffer and a receive *)
(* of four units (their real sizes are equal too, 8192 bytes), and two more *)
(* in flight, so that a BRIDGE line may arrive split, alone, or with client *)
(* bytes behind it, and the buffer may overflow.                            *)
EXTENDS RelayClient
=============================================================================
