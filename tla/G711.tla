-------------------------------- MODULE G711 --------------------------------
(***************************************************************************)
(* The mu-law coding of the audio: libre's encoder, which the device uses  *)
(* (re-4.6.0/include/rem_g711.h), the phone's encoder (AudioCapture.kt),   *)
(* and the decoders of the device (audio_out_win.c) and of the phone       *)
(* (AudioPlayer.kt).                                                       *)
(*                                                                         *)
(* Bytes are natural numbers below 256, shifts and masks are quotients and *)
(* remainders.                                                             *)
(***************************************************************************)
EXTENDS Integers, Sequences

IsSample(x) == -32768 <= x /\ x <= 32767

TwoTo == <<1, 2, 4, 8, 16, 32, 64, 128, 256, 512, 1024, 2048, 4096, 8192, 16384>>
Shr(x, k) == x \div TwoTo[k + 1]
Shl(x, k) == x * TwoTo[k + 1]
Bit(x, k) == Shr(x, k) % 2 = 1

Abs(x) == IF x < 0 THEN -x ELSE x
Sign(x) == IF x < 0 THEN 128 ELSE 0
----------------------------------------------------------------------------
(* libre.                                                                  *)

\* The table stops growing with the last segment, and each segment is twice as
\* long as the one before.
Biased(l) == IF l + 17 > 4095 THEN 4095 ELSE l + 17
segment(b) == CHOOSE s \in 0..7 : Shl(16, s) <= b /\ b < Shl(32, s)

\* The table's entry for l: its segment and its place within it, both inverted.
g711_l2u(l) ==
    LET b == Biased(l)
    IN  255 - (16 * segment(b) + (Shr(b, segment(b)) % 16))

\* Where the encoder looks.
TableIndex(x) == Shr(Abs(x) - 4, 3)

g711_pcm2ulaw(x) ==
    IF Abs(x) < 4 THEN 255 - Sign(x) ELSE g711_l2u(TableIndex(x)) - Sign(x)
----------------------------------------------------------------------------
(* The phone's encoder.                                                    *)

BIAS == 132
MAX == 32767

Clipped(x) == IF Abs(x) > MAX THEN MAX ELSE Abs(x)

\* The loop looks for the highest bit that is set, from bit 14 down to bit 8.
exponent(p) ==
    CHOOSE e \in 0..7 : (e = 0 \/ Bit(p, e + 7)) /\ \A f \in (e + 1)..7 : ~Bit(p, f + 7)

ulawEncode(x) ==
    LET p == Clipped(x) + BIAS
        e == exponent(p)
    IN  255 - (Sign(x) + 16 * e + (Shr(p, e + 3) % 16))
----------------------------------------------------------------------------
(* The decoders, of the device and of the phone.                           *)

magnitude(u) == Shl(8 * (u % 16) + BIAS, Shr(u, 4) % 8) - BIAS

ulaw_to_pcm(c) ==
    LET u == 255 - c
        sign == IF Bit(u, 7) THEN -1 ELSE 1
    IN  sign * magnitude(u)

ulawDecode(c) ==
    LET u == 255 - c
    IN  IF u \div 128 # 0 THEN -magnitude(u) ELSE magnitude(u)
=============================================================================
