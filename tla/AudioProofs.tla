---------------------------- MODULE AudioProofs ----------------------------
(***************************************************************************)
(* Theorems about the sound the device sends: the mu-law coding, and the   *)
(* ring buffer of the microphone.                                          *)
(*                                                                         *)
(* The coding: for all 65536 samples and all 256 codes.  Everything is     *)
(* decided per segment: the biased magnitudes whose highest bit is bit     *)
(* e + 7.                                                                  *)
(***************************************************************************)
EXTENDS G711, MicRing, SequenceTheorems, TLAPS

\* The powers of two that are needed.
LEMMA Powers ==
    /\ TwoTo[1] = 1 /\ TwoTo[2] = 2 /\ TwoTo[3] = 4 /\ TwoTo[4] = 8 /\ TwoTo[5] = 16
    /\ TwoTo[6] = 32 /\ TwoTo[7] = 64 /\ TwoTo[8] = 128 /\ TwoTo[9] = 256
    /\ TwoTo[10] = 512 /\ TwoTo[11] = 1024 /\ TwoTo[12] = 2048 /\ TwoTo[13] = 4096
    /\ TwoTo[14] = 8192 /\ TwoTo[15] = 16384
BY DEF TwoTo

\* The magnitude of a sample, which for the lowest is 32768 (rem_g711.h:23-26).
LEMMA Magnitudes ==
    ASSUME NEW x \in Int, IsSample(x)
    PROVE  /\ Abs(x) \in Int /\ 0 <= Abs(x) /\ Abs(x) <= 32768
           /\ \/ Sign(x) = 0 /\ x = Abs(x)
              \/ Sign(x) = 128 /\ x = -Abs(x)
<1>1. CASE x < 0
  BY <1>1 DEF Abs, IsSample, Sign
<1>2. CASE 0 <= x
  BY <1>2 DEF Abs, IsSample, Sign
<1> QED BY <1>1, <1>2

\* The table of 4096 entries is never read outside its bounds, not even for the
\* lowest sample, whose magnitude no sample has (rem_g711.h:25-32).
THEOREM IndexInTable ==
    ASSUME NEW x \in Int, IsSample(x), Abs(x) >= 4
    PROVE  TableIndex(x) \in 0..4095
<1>1. PICK b \in Int : b = Abs(x) - 4 /\ 0 <= b /\ b < 32768
  BY Magnitudes
<1>2. PICK d \in Int : d = b \div 8 /\ 0 <= d /\ d <= 4095
  BY <1>1
<1>3. TableIndex(x) = d
  BY <1>1, <1>2, Powers DEF TableIndex, Shr
<1>4. 0 <= d /\ d <= 4095
  BY <1>2
<1> QED BY <1>3, <1>4, SMTT(60)
----------------------------------------------------------------------------
(* The two encoders.                                                       *)

\* p has its highest bit at e + 7.
InSegment(p, e) == Shl(128, e) <= p /\ p < Shl(256, e)

\* Where the segments lie.
LEMMA Segments ==
    ASSUME NEW p \in Int
    PROVE  /\ InSegment(p, 0) <=> 128 <= p /\ p < 256
           /\ InSegment(p, 1) <=> 256 <= p /\ p < 512
           /\ InSegment(p, 2) <=> 512 <= p /\ p < 1024
           /\ InSegment(p, 3) <=> 1024 <= p /\ p < 2048
           /\ InSegment(p, 4) <=> 2048 <= p /\ p < 4096
           /\ InSegment(p, 5) <=> 4096 <= p /\ p < 8192
           /\ InSegment(p, 6) <=> 8192 <= p /\ p < 16384
           /\ InSegment(p, 7) <=> 16384 <= p /\ p < 32768
BY Powers DEF InSegment, Shl

\* The search for the highest bit ends at the only exponent that fits
\* (AudioCapture.kt:138-143).
LEMMA ExponentUnique ==
    ASSUME NEW p \in Int, NEW e \in 0..7,
           e = 0 \/ Bit(p, e + 7), \A f \in (e + 1)..7 : ~Bit(p, f + 7)
    PROVE  exponent(p) = e
<1> DEFINE Fits(d) == (d = 0 \/ Bit(p, d + 7)) /\ \A f \in (d + 1)..7 : ~Bit(p, f + 7)
<1>1. Fits(e)
  OBVIOUS
<1>2. ASSUME NEW d \in 0..7, Fits(d) PROVE d = e
  <2>1. ~(d < e)
    <3> SUFFICES ASSUME d < e PROVE FALSE
      OBVIOUS
    <3> QED BY <1>2
  <2>2. ~(e < d)
    <3> SUFFICES ASSUME e < d PROVE FALSE
      OBVIOUS
    <3> QED BY <1>2
  <2> QED BY <2>1, <2>2
<1>3. exponent(p) = CHOOSE d \in 0..7 : Fits(d)
  BY DEF exponent
<1> QED
  <2> HIDE DEF Fits
  <2> QED BY <1>1, <1>2, <1>3

\* The bits the search looks at, by comparison.
LEMMA HighBits ==
    ASSUME NEW p \in Int, 0 <= p
    PROVE  /\ (p < 128 => ~Bit(p, 7)) /\ (128 <= p /\ p < 256 => Bit(p, 7))
           /\ (p < 256 => ~Bit(p, 8)) /\ (256 <= p /\ p < 512 => Bit(p, 8))
           /\ (p < 512 => ~Bit(p, 9)) /\ (512 <= p /\ p < 1024 => Bit(p, 9))
           /\ (p < 1024 => ~Bit(p, 10)) /\ (1024 <= p /\ p < 2048 => Bit(p, 10))
           /\ (p < 2048 => ~Bit(p, 11)) /\ (2048 <= p /\ p < 4096 => Bit(p, 11))
           /\ (p < 4096 => ~Bit(p, 12)) /\ (4096 <= p /\ p < 8192 => Bit(p, 12))
           /\ (p < 8192 => ~Bit(p, 13)) /\ (8192 <= p /\ p < 16384 => Bit(p, 13))
           /\ (p < 16384 => ~Bit(p, 14)) /\ (16384 <= p /\ p < 32768 => Bit(p, 14))
<1>1. (p < 128 => ~Bit(p, 7)) /\ (128 <= p /\ p < 256 => Bit(p, 7))
  <2>1. Bit(p, 7) <=> (p \div 128) % 2 = 1
    BY Powers DEF Bit, Shr
  <2>2. p < 128 => (p \div 128) % 2 = 0
    OBVIOUS
  <2>3. 128 <= p /\ p < 256 => (p \div 128) % 2 = 1
    OBVIOUS
  <2> QED BY <2>1, <2>2, <2>3
<1>2. (p < 256 => ~Bit(p, 8)) /\ (256 <= p /\ p < 512 => Bit(p, 8))
  <2>1. Bit(p, 8) <=> (p \div 256) % 2 = 1
    BY Powers DEF Bit, Shr
  <2>2. p < 256 => (p \div 256) % 2 = 0
    OBVIOUS
  <2>3. 256 <= p /\ p < 512 => (p \div 256) % 2 = 1
    OBVIOUS
  <2> QED BY <2>1, <2>2, <2>3
<1>3. (p < 512 => ~Bit(p, 9)) /\ (512 <= p /\ p < 1024 => Bit(p, 9))
  <2>1. Bit(p, 9) <=> (p \div 512) % 2 = 1
    BY Powers DEF Bit, Shr
  <2>2. p < 512 => (p \div 512) % 2 = 0
    OBVIOUS
  <2>3. 512 <= p /\ p < 1024 => (p \div 512) % 2 = 1
    OBVIOUS
  <2> QED BY <2>1, <2>2, <2>3
<1>4. (p < 1024 => ~Bit(p, 10)) /\ (1024 <= p /\ p < 2048 => Bit(p, 10))
  <2>1. Bit(p, 10) <=> (p \div 1024) % 2 = 1
    BY Powers DEF Bit, Shr
  <2>2. p < 1024 => (p \div 1024) % 2 = 0
    OBVIOUS
  <2>3. 1024 <= p /\ p < 2048 => (p \div 1024) % 2 = 1
    OBVIOUS
  <2> QED BY <2>1, <2>2, <2>3
<1>5. (p < 2048 => ~Bit(p, 11)) /\ (2048 <= p /\ p < 4096 => Bit(p, 11))
  <2>1. Bit(p, 11) <=> (p \div 2048) % 2 = 1
    BY Powers DEF Bit, Shr
  <2>2. p < 2048 => (p \div 2048) % 2 = 0
    OBVIOUS
  <2>3. 2048 <= p /\ p < 4096 => (p \div 2048) % 2 = 1
    OBVIOUS
  <2> QED BY <2>1, <2>2, <2>3
<1>6. (p < 4096 => ~Bit(p, 12)) /\ (4096 <= p /\ p < 8192 => Bit(p, 12))
  <2>1. Bit(p, 12) <=> (p \div 4096) % 2 = 1
    BY Powers DEF Bit, Shr
  <2>2. p < 4096 => (p \div 4096) % 2 = 0
    OBVIOUS
  <2>3. 4096 <= p /\ p < 8192 => (p \div 4096) % 2 = 1
    OBVIOUS
  <2> QED BY <2>1, <2>2, <2>3
<1>7. (p < 8192 => ~Bit(p, 13)) /\ (8192 <= p /\ p < 16384 => Bit(p, 13))
  <2>1. Bit(p, 13) <=> (p \div 8192) % 2 = 1
    BY Powers DEF Bit, Shr
  <2>2. p < 8192 => (p \div 8192) % 2 = 0
    OBVIOUS
  <2>3. 8192 <= p /\ p < 16384 => (p \div 8192) % 2 = 1
    OBVIOUS
  <2> QED BY <2>1, <2>2, <2>3
<1>8. (p < 16384 => ~Bit(p, 14)) /\ (16384 <= p /\ p < 32768 => Bit(p, 14))
  <2>1. Bit(p, 14) <=> (p \div 16384) % 2 = 1
    BY Powers DEF Bit, Shr
  <2>2. p < 16384 => (p \div 16384) % 2 = 0
    OBVIOUS
  <2>3. 16384 <= p /\ p < 32768 => (p \div 16384) % 2 = 1
    OBVIOUS
  <2> QED BY <2>1, <2>2, <2>3
<1> QED BY <1>1, <1>2, <1>3, <1>4, <1>5, <1>6, <1>7, <1>8

\* The exponent of each segment.
LEMMA ExponentOf ==
    ASSUME NEW p \in Int, NEW e \in 0..7, InSegment(p, e)
    PROVE  exponent(p) = e
<1>1. CASE e = 0
  <2>1. 128 <= p /\ p < 256
    BY <1>1, Segments
  <2>2. ASSUME NEW f \in (e + 1)..7 PROVE ~Bit(p, f + 7)
    <3>1. f = 1 \/ f = 2 \/ f = 3 \/ f = 4 \/ f = 5 \/ f = 6 \/ f = 7
      BY <1>1
    <3> QED BY <2>1, <3>1, HighBits
  <2>3. Bit(p, e + 7)
    BY <1>1, <2>1, HighBits
  <2> QED BY <2>2, <2>3, ExponentUnique
<1>2. CASE e = 1
  <2>1. 256 <= p /\ p < 512
    BY <1>2, Segments
  <2>2. ASSUME NEW f \in (e + 1)..7 PROVE ~Bit(p, f + 7)
    <3>1. f = 2 \/ f = 3 \/ f = 4 \/ f = 5 \/ f = 6 \/ f = 7
      BY <1>2
    <3> QED BY <2>1, <3>1, HighBits
  <2>3. Bit(p, e + 7)
    BY <1>2, <2>1, HighBits
  <2> QED BY <2>2, <2>3, ExponentUnique
<1>3. CASE e = 2
  <2>1. 512 <= p /\ p < 1024
    BY <1>3, Segments
  <2>2. ASSUME NEW f \in (e + 1)..7 PROVE ~Bit(p, f + 7)
    <3>1. f = 3 \/ f = 4 \/ f = 5 \/ f = 6 \/ f = 7
      BY <1>3
    <3> QED BY <2>1, <3>1, HighBits
  <2>3. Bit(p, e + 7)
    BY <1>3, <2>1, HighBits
  <2> QED BY <2>2, <2>3, ExponentUnique
<1>4. CASE e = 3
  <2>1. 1024 <= p /\ p < 2048
    BY <1>4, Segments
  <2>2. ASSUME NEW f \in (e + 1)..7 PROVE ~Bit(p, f + 7)
    <3>1. f = 4 \/ f = 5 \/ f = 6 \/ f = 7
      BY <1>4
    <3> QED BY <2>1, <3>1, HighBits
  <2>3. Bit(p, e + 7)
    BY <1>4, <2>1, HighBits
  <2> QED BY <2>2, <2>3, ExponentUnique
<1>5. CASE e = 4
  <2>1. 2048 <= p /\ p < 4096
    BY <1>5, Segments
  <2>2. ASSUME NEW f \in (e + 1)..7 PROVE ~Bit(p, f + 7)
    <3>1. f = 5 \/ f = 6 \/ f = 7
      BY <1>5
    <3> QED BY <2>1, <3>1, HighBits
  <2>3. Bit(p, e + 7)
    BY <1>5, <2>1, HighBits
  <2> QED BY <2>2, <2>3, ExponentUnique
<1>6. CASE e = 5
  <2>1. 4096 <= p /\ p < 8192
    BY <1>6, Segments
  <2>2. ASSUME NEW f \in (e + 1)..7 PROVE ~Bit(p, f + 7)
    <3>1. f = 6 \/ f = 7
      BY <1>6
    <3> QED BY <2>1, <3>1, HighBits
  <2>3. Bit(p, e + 7)
    BY <1>6, <2>1, HighBits
  <2> QED BY <2>2, <2>3, ExponentUnique
<1>7. CASE e = 6
  <2>1. 8192 <= p /\ p < 16384
    BY <1>7, Segments
  <2>2. ASSUME NEW f \in (e + 1)..7 PROVE ~Bit(p, f + 7)
    <3>1. f = 7
      BY <1>7
    <3> QED BY <2>1, <3>1, HighBits
  <2>3. Bit(p, e + 7)
    BY <1>7, <2>1, HighBits
  <2> QED BY <2>2, <2>3, ExponentUnique
<1>8. CASE e = 7
  <2>1. 16384 <= p /\ p < 32768
    BY <1>8, Segments
  <2>2. ASSUME NEW f \in (e + 1)..7 PROVE ~Bit(p, f + 7)
    <3>1. FALSE
      BY <1>8
    <3> QED BY <2>1, <3>1, HighBits
  <2>3. Bit(p, e + 7)
    BY <1>8, <2>1, HighBits
  <2> QED BY <2>2, <2>3, ExponentUnique
<1> QED BY <1>1, <1>2, <1>3, <1>4, <1>5, <1>6, <1>7, <1>8

\* The place of p in its segment.
Mantissa(p, e) == Shr(p, e + 3) % 16

\* Places are numbers below 16.
LEMMA PlaceRange ==
    ASSUME NEW p \in Int, NEW e \in 0..7
    PROVE  Mantissa(p, e) \in 0..15
<1>1. CASE e = 0
  <2>1. Mantissa(p, e) = (p \div 8) % 16
    BY <1>1, Powers DEF Mantissa, Shr
  <2>2. (p \div 8) % 16 \in 0..15
    OBVIOUS
  <2> QED BY <2>1, <2>2
<1>2. CASE e = 1
  <2>1. Mantissa(p, e) = (p \div 16) % 16
    BY <1>2, Powers DEF Mantissa, Shr
  <2>2. (p \div 16) % 16 \in 0..15
    OBVIOUS
  <2> QED BY <2>1, <2>2
<1>3. CASE e = 2
  <2>1. Mantissa(p, e) = (p \div 32) % 16
    BY <1>3, Powers DEF Mantissa, Shr
  <2>2. (p \div 32) % 16 \in 0..15
    OBVIOUS
  <2> QED BY <2>1, <2>2
<1>4. CASE e = 3
  <2>1. Mantissa(p, e) = (p \div 64) % 16
    BY <1>4, Powers DEF Mantissa, Shr
  <2>2. (p \div 64) % 16 \in 0..15
    OBVIOUS
  <2> QED BY <2>1, <2>2
<1>5. CASE e = 4
  <2>1. Mantissa(p, e) = (p \div 128) % 16
    BY <1>5, Powers DEF Mantissa, Shr
  <2>2. (p \div 128) % 16 \in 0..15
    OBVIOUS
  <2> QED BY <2>1, <2>2
<1>6. CASE e = 5
  <2>1. Mantissa(p, e) = (p \div 256) % 16
    BY <1>6, Powers DEF Mantissa, Shr
  <2>2. (p \div 256) % 16 \in 0..15
    OBVIOUS
  <2> QED BY <2>1, <2>2
<1>7. CASE e = 6
  <2>1. Mantissa(p, e) = (p \div 512) % 16
    BY <1>7, Powers DEF Mantissa, Shr
  <2>2. (p \div 512) % 16 \in 0..15
    OBVIOUS
  <2> QED BY <2>1, <2>2
<1>8. CASE e = 7
  <2>1. Mantissa(p, e) = (p \div 1024) % 16
    BY <1>8, Powers DEF Mantissa, Shr
  <2>2. (p \div 1024) % 16 \in 0..15
    OBVIOUS
  <2> QED BY <2>1, <2>2
<1> QED BY <1>1, <1>2, <1>3, <1>4, <1>5, <1>6, <1>7, <1>8

\* Every biased magnitude up to the clipping point has a segment.
LEMMA SomeSegment ==
    ASSUME NEW p \in Int, 132 <= p, p <= 32767
    PROVE  \E e \in 0..7 : InSegment(p, e)
BY Segments

\* The phone's code of a sample below the clipping point (AudioCapture.kt:123-149).
LEMMA PhoneCode ==
    ASSUME NEW x \in Int, IsSample(x), NEW e \in 0..7, InSegment(Abs(x) + BIAS, e)
    PROVE  ulawEncode(x) = 255 - (Sign(x) + 16 * e + Mantissa(Abs(x) + BIAS, e))
<1>1. PICK a \in Int : a = Abs(x) /\ 0 <= a
  BY Magnitudes
<1>2. a + 132 < 32768
  BY <1>1, Segments DEF BIAS
<1>3. Clipped(x) = a
  BY <1>1, <1>2 DEF Clipped, MAX
<1>4. exponent(a + BIAS) = e
  BY <1>1, ExponentOf DEF BIAS
<1> QED BY <1>1, <1>3, <1>4 DEF ulawEncode, Mantissa

\* Segments do not overlap.
LEMMA SegmentUnique ==
    ASSUME NEW p \in Int, NEW e \in 0..7, NEW f \in 0..7, InSegment(p, e), InSegment(p, f)
    PROVE  e = f
BY Segments

\* The table is indexed by an eighth of the biased magnitude.
LEMMA Eighths ==
    ASSUME NEW p \in Int, NEW e \in 0..7
    PROVE  /\ (Shl(16, e) <= p \div 8 /\ p \div 8 < Shl(32, e)) <=> InSegment(p, e)
           /\ Shr(p \div 8, e) % 16 = Mantissa(p, e)
<1>1. CASE e = 0
  <2>1. /\ Shl(16, e) = 16 /\ Shl(32, e) = 32
        /\ InSegment(p, e) <=> 128 <= p /\ p < 256
    BY <1>1, Powers DEF Shl, InSegment
  <2>2. 16 <= p \div 8 /\ p \div 8 < 32 <=> 128 <= p /\ p < 256
    OBVIOUS
  <2>3. Shr(p \div 8, e) = (p \div 8) \div 1 /\ Shr(p, e + 3) = p \div 8
    BY <1>1, Powers DEF Shr
  <2>4. (p \div 8) \div 1 = p \div 8
    OBVIOUS
  <2> QED BY <2>1, <2>2, <2>3, <2>4 DEF Mantissa
<1>2. CASE e = 1
  <2>1. /\ Shl(16, e) = 32 /\ Shl(32, e) = 64
        /\ InSegment(p, e) <=> 256 <= p /\ p < 512
    BY <1>2, Powers DEF Shl, InSegment
  <2>2. 32 <= p \div 8 /\ p \div 8 < 64 <=> 256 <= p /\ p < 512
    OBVIOUS
  <2>3. Shr(p \div 8, e) = (p \div 8) \div 2 /\ Shr(p, e + 3) = p \div 16
    BY <1>2, Powers DEF Shr
  <2>4. (p \div 8) \div 2 = p \div 16
    OBVIOUS
  <2> QED BY <2>1, <2>2, <2>3, <2>4 DEF Mantissa
<1>3. CASE e = 2
  <2>1. /\ Shl(16, e) = 64 /\ Shl(32, e) = 128
        /\ InSegment(p, e) <=> 512 <= p /\ p < 1024
    BY <1>3, Powers DEF Shl, InSegment
  <2>2. 64 <= p \div 8 /\ p \div 8 < 128 <=> 512 <= p /\ p < 1024
    OBVIOUS
  <2>3. Shr(p \div 8, e) = (p \div 8) \div 4 /\ Shr(p, e + 3) = p \div 32
    BY <1>3, Powers DEF Shr
  <2>4. (p \div 8) \div 4 = p \div 32
    OBVIOUS
  <2> QED BY <2>1, <2>2, <2>3, <2>4 DEF Mantissa
<1>4. CASE e = 3
  <2>1. /\ Shl(16, e) = 128 /\ Shl(32, e) = 256
        /\ InSegment(p, e) <=> 1024 <= p /\ p < 2048
    BY <1>4, Powers DEF Shl, InSegment
  <2>2. 128 <= p \div 8 /\ p \div 8 < 256 <=> 1024 <= p /\ p < 2048
    OBVIOUS
  <2>3. Shr(p \div 8, e) = (p \div 8) \div 8 /\ Shr(p, e + 3) = p \div 64
    BY <1>4, Powers DEF Shr
  <2>4. (p \div 8) \div 8 = p \div 64
    OBVIOUS
  <2> QED BY <2>1, <2>2, <2>3, <2>4 DEF Mantissa
<1>5. CASE e = 4
  <2>1. /\ Shl(16, e) = 256 /\ Shl(32, e) = 512
        /\ InSegment(p, e) <=> 2048 <= p /\ p < 4096
    BY <1>5, Powers DEF Shl, InSegment
  <2>2. 256 <= p \div 8 /\ p \div 8 < 512 <=> 2048 <= p /\ p < 4096
    OBVIOUS
  <2>3. Shr(p \div 8, e) = (p \div 8) \div 16 /\ Shr(p, e + 3) = p \div 128
    BY <1>5, Powers DEF Shr
  <2>4. (p \div 8) \div 16 = p \div 128
    OBVIOUS
  <2> QED BY <2>1, <2>2, <2>3, <2>4 DEF Mantissa
<1>6. CASE e = 5
  <2>1. /\ Shl(16, e) = 512 /\ Shl(32, e) = 1024
        /\ InSegment(p, e) <=> 4096 <= p /\ p < 8192
    BY <1>6, Powers DEF Shl, InSegment
  <2>2. 512 <= p \div 8 /\ p \div 8 < 1024 <=> 4096 <= p /\ p < 8192
    OBVIOUS
  <2>3. Shr(p \div 8, e) = (p \div 8) \div 32 /\ Shr(p, e + 3) = p \div 256
    BY <1>6, Powers DEF Shr
  <2>4. (p \div 8) \div 32 = p \div 256
    OBVIOUS
  <2> QED BY <2>1, <2>2, <2>3, <2>4 DEF Mantissa
<1>7. CASE e = 6
  <2>1. /\ Shl(16, e) = 1024 /\ Shl(32, e) = 2048
        /\ InSegment(p, e) <=> 8192 <= p /\ p < 16384
    BY <1>7, Powers DEF Shl, InSegment
  <2>2. 1024 <= p \div 8 /\ p \div 8 < 2048 <=> 8192 <= p /\ p < 16384
    OBVIOUS
  <2>3. Shr(p \div 8, e) = (p \div 8) \div 64 /\ Shr(p, e + 3) = p \div 512
    BY <1>7, Powers DEF Shr
  <2>4. (p \div 8) \div 64 = p \div 512
    OBVIOUS
  <2> QED BY <2>1, <2>2, <2>3, <2>4 DEF Mantissa
<1>8. CASE e = 7
  <2>1. /\ Shl(16, e) = 2048 /\ Shl(32, e) = 4096
        /\ InSegment(p, e) <=> 16384 <= p /\ p < 32768
    BY <1>8, Powers DEF Shl, InSegment
  <2>2. 2048 <= p \div 8 /\ p \div 8 < 4096 <=> 16384 <= p /\ p < 32768
    OBVIOUS
  <2>3. Shr(p \div 8, e) = (p \div 8) \div 128 /\ Shr(p, e + 3) = p \div 1024
    BY <1>8, Powers DEF Shr
  <2>4. (p \div 8) \div 128 = p \div 1024
    OBVIOUS
  <2> QED BY <2>1, <2>2, <2>3, <2>4 DEF Mantissa
<1> QED BY <1>1, <1>2, <1>3, <1>4, <1>5, <1>6, <1>7, <1>8

\* The entry of the table for a segment and a place (rem/g711/g711.c:11-524).
LEMMA TableEntry ==
    ASSUME NEW l \in Int, NEW p \in Int, l + 17 = p \div 8, p \div 8 <= 4095,
           NEW e \in 0..7, InSegment(p, e)
    PROVE  g711_l2u(l) = 255 - (16 * e + Mantissa(p, e))
<1>1. PICK b \in Int : b = p \div 8
  OBVIOUS
<1>2. Biased(l) = b
  BY <1>1 DEF Biased
<1>3. \A f \in 0..7 : (Shl(16, f) <= b /\ b < Shl(32, f)) <=> InSegment(p, f)
  BY <1>1, Eighths
<1>4. \A f \in 0..7 : (Shl(16, f) <= b /\ b < Shl(32, f)) <=> f = e
  BY <1>3, SegmentUnique
<1>5. segment(b) = e
  BY <1>4 DEF segment
<1>6. Shr(b, e) % 16 = Mantissa(p, e)
  BY <1>1, Eighths
<1> QED BY <1>2, <1>5, <1>6 DEF g711_l2u

\* libre's code of a sample below the clipping point (rem_g711.h:21-33).
LEMMA LibreCode ==
    ASSUME NEW x \in Int, IsSample(x), NEW e \in 0..7, InSegment(Abs(x) + BIAS, e)
    PROVE  g711_pcm2ulaw(x) = 255 - (Sign(x) + 16 * e + Mantissa(Abs(x) + BIAS, e))
<1>1. PICK a \in Int : a = Abs(x) /\ 0 <= a
  BY Magnitudes
<1>2. a + 132 < 32768 /\ InSegment(a + 132, e)
  BY <1>1, Segments DEF BIAS
<1>3. PICK s \in Int : s = Sign(x)
  BY DEF Sign
<1>4. CASE a < 4
  <2>1. e = 0
    BY <1>1, <1>2, <1>4, Segments
  <2>2. Mantissa(a + 132, 0) = ((a + 132) \div 8) % 16
    BY Powers DEF Mantissa, Shr
  <2>3. ((a + 132) \div 8) % 16 = 0
    BY <1>1, <1>4
  <2> QED BY <1>1, <1>3, <1>4, <2>1, <2>2, <2>3 DEF g711_pcm2ulaw, BIAS
<1>5. CASE 4 <= a
  <2> DEFINE l == (a - 4) \div 8
             p == a + 132
  <2>1. TableIndex(x) = l
    BY <1>1, Powers DEF TableIndex, Shr
  <2>2. l \in Int /\ p \in Int /\ l + 17 = p \div 8 /\ p \div 8 <= 4095 /\ p = Abs(x) + BIAS
    BY <1>1, <1>2 DEF BIAS
  <2>3. InSegment(p, e)
    BY <1>2
  <2> HIDE DEF l, p
  <2>4. g711_l2u(l) = 255 - (16 * e + Mantissa(p, e))
    BY <2>2, <2>3, TableEntry
  <2>5. PICK m \in Int : m = Mantissa(p, e)
    <3>1. p \in Int
      BY <2>2
    <3>2. Mantissa(p, e) \in 0..15
      BY <3>1, PlaceRange
    <3> QED BY <3>2
  <2>6. g711_pcm2ulaw(x) = g711_l2u(l) - s
    BY <1>1, <1>3, <1>5, <2>1 DEF g711_pcm2ulaw
  <2>7. g711_pcm2ulaw(x) = (255 - (16 * e + m)) - s
    BY <2>4, <2>5, <2>6
  <2>8. g711_pcm2ulaw(x) = 255 - (s + 16 * e + m)
    BY <1>3, <2>5, <2>7
  <2> QED BY <1>3, <2>2, <2>5, <2>8
<1> QED BY <1>1, <1>4, <1>5

\* Below the clipping point of mu-law the phone's encoder computes what libre's
\* table holds (AudioCapture.kt:123-149, rem_g711.h:21-33).
THEOREM PhoneAgrees ==
    ASSUME NEW x \in Int, IsSample(x), Abs(x) <= 32635
    PROVE  ulawEncode(x) = g711_pcm2ulaw(x)
<1>1. Abs(x) + BIAS \in Int /\ 132 <= Abs(x) + BIAS /\ Abs(x) + BIAS <= 32767
  BY Magnitudes DEF BIAS
<1>2. PICK e \in 0..7 : InSegment(Abs(x) + BIAS, e)
  BY <1>1, SomeSegment
<1> QED BY <1>2, PhoneCode, LibreCode
----------------------------------------------------------------------------
(* The decoders.                                                           *)

\* What a code says: its sign, and the magnitude of its segment and place.
LEMMA Parts ==
    ASSUME NEW s \in {0, 128}, NEW e \in 0..7, NEW m \in Int, 0 <= m, m <= 15
    PROVE  LET u == 255 - (255 - (s + 16 * e + m))
           IN  /\ magnitude(u) = Shl(8 * m + BIAS, e) - BIAS
               /\ Bit(u, 7) <=> s = 128
               /\ u \div 128 # 0 <=> s = 128
<1> DEFINE u == 255 - (255 - (s + 16 * e + m))
<1>1. u \in Int /\ u % 16 = m /\ (u \div 16) % 8 = e
  <2>1. CASE s = 0
    BY <2>1
  <2>2. CASE s = 128
    BY <2>2
  <2> QED BY <2>1, <2>2
<1>2. /\ (u \div 128) % 2 = 1 <=> s = 128
      /\ u \div 128 # 0 <=> s = 128
  <2>1. CASE s = 0
    BY <2>1
  <2>2. CASE s = 128
    BY <2>2
  <2> QED BY <2>1, <2>2
<1> HIDE DEF u
<1>3. Shr(u, 4) = u \div 16 /\ (Bit(u, 7) <=> (u \div 128) % 2 = 1)
  BY <1>1, Powers DEF Shr, Bit
<1>4. magnitude(u) = Shl(8 * m + BIAS, e) - BIAS
  BY <1>1, <1>3 DEF magnitude
<1> QED BY <1>2, <1>3, <1>4 DEF u

\* The middle of a segment's step is within a 32nd of every magnitude in it.
LEMMA Middle ==
    ASSUME NEW p \in Int, NEW e \in 0..7, InSegment(p, e)
    PROVE  LET v == Shl(8 * Mantissa(p, e) + BIAS, e)
           IN  v \in Int /\ 132 <= v /\ 32 * (v - p) <= p /\ 32 * (p - v) <= p
<1>1. CASE e = 0
  <2>1. PICK q \in Int : q = p \div 8
    OBVIOUS
  <2>2. 128 <= p /\ p < 256
    BY <1>1, Powers DEF Shl, InSegment
  <2>3. 16 <= q /\ q <= 31 /\ 8 * q <= p /\ p < 8 * q + 8
    BY <2>1, <2>2
  <2>4. q % 16 = q - 16
    BY <2>3
  <2>5. Mantissa(p, e) = q - 16
    BY <1>1, <2>1, <2>4, Powers DEF Mantissa, Shr
  <2>6. Shl(8 * Mantissa(p, e) + BIAS, e) = 8 * q + 4
    BY <1>1, <2>5, Powers DEF Shl, BIAS
  <2>7. PICK v \in Int : v = 8 * q + 4
    OBVIOUS
  <2>8. 132 <= v /\ 32 * (v - p) <= p /\ 32 * (p - v) <= p
    BY <2>2, <2>3, <2>7
  <2> QED BY <2>6, <2>7, <2>8
<1>2. CASE e = 1
  <2>1. PICK q \in Int : q = p \div 16
    OBVIOUS
  <2>2. 256 <= p /\ p < 512
    BY <1>2, Powers DEF Shl, InSegment
  <2>3. 16 <= q /\ q <= 31 /\ 16 * q <= p /\ p < 16 * q + 16
    BY <2>1, <2>2
  <2>4. q % 16 = q - 16
    BY <2>3
  <2>5. Mantissa(p, e) = q - 16
    BY <1>2, <2>1, <2>4, Powers DEF Mantissa, Shr
  <2>6. Shl(8 * Mantissa(p, e) + BIAS, e) = 16 * q + 8
    BY <1>2, <2>5, Powers DEF Shl, BIAS
  <2>7. PICK v \in Int : v = 16 * q + 8
    OBVIOUS
  <2>8. 132 <= v /\ 32 * (v - p) <= p /\ 32 * (p - v) <= p
    BY <2>2, <2>3, <2>7
  <2> QED BY <2>6, <2>7, <2>8
<1>3. CASE e = 2
  <2>1. PICK q \in Int : q = p \div 32
    OBVIOUS
  <2>2. 512 <= p /\ p < 1024
    BY <1>3, Powers DEF Shl, InSegment
  <2>3. 16 <= q /\ q <= 31 /\ 32 * q <= p /\ p < 32 * q + 32
    BY <2>1, <2>2
  <2>4. q % 16 = q - 16
    BY <2>3
  <2>5. Mantissa(p, e) = q - 16
    BY <1>3, <2>1, <2>4, Powers DEF Mantissa, Shr
  <2>6. Shl(8 * Mantissa(p, e) + BIAS, e) = 32 * q + 16
    BY <1>3, <2>5, Powers DEF Shl, BIAS
  <2>7. PICK v \in Int : v = 32 * q + 16
    OBVIOUS
  <2>8. 132 <= v /\ 32 * (v - p) <= p /\ 32 * (p - v) <= p
    BY <2>2, <2>3, <2>7
  <2> QED BY <2>6, <2>7, <2>8
<1>4. CASE e = 3
  <2>1. PICK q \in Int : q = p \div 64
    OBVIOUS
  <2>2. 1024 <= p /\ p < 2048
    BY <1>4, Powers DEF Shl, InSegment
  <2>3. 16 <= q /\ q <= 31 /\ 64 * q <= p /\ p < 64 * q + 64
    BY <2>1, <2>2
  <2>4. q % 16 = q - 16
    BY <2>3
  <2>5. Mantissa(p, e) = q - 16
    BY <1>4, <2>1, <2>4, Powers DEF Mantissa, Shr
  <2>6. Shl(8 * Mantissa(p, e) + BIAS, e) = 64 * q + 32
    BY <1>4, <2>5, Powers DEF Shl, BIAS
  <2>7. PICK v \in Int : v = 64 * q + 32
    OBVIOUS
  <2>8. 132 <= v /\ 32 * (v - p) <= p /\ 32 * (p - v) <= p
    BY <2>2, <2>3, <2>7
  <2> QED BY <2>6, <2>7, <2>8
<1>5. CASE e = 4
  <2>1. PICK q \in Int : q = p \div 128
    OBVIOUS
  <2>2. 2048 <= p /\ p < 4096
    BY <1>5, Powers DEF Shl, InSegment
  <2>3. 16 <= q /\ q <= 31 /\ 128 * q <= p /\ p < 128 * q + 128
    BY <2>1, <2>2
  <2>4. q % 16 = q - 16
    BY <2>3
  <2>5. Mantissa(p, e) = q - 16
    BY <1>5, <2>1, <2>4, Powers DEF Mantissa, Shr
  <2>6. Shl(8 * Mantissa(p, e) + BIAS, e) = 128 * q + 64
    BY <1>5, <2>5, Powers DEF Shl, BIAS
  <2>7. PICK v \in Int : v = 128 * q + 64
    OBVIOUS
  <2>8. 132 <= v /\ 32 * (v - p) <= p /\ 32 * (p - v) <= p
    BY <2>2, <2>3, <2>7
  <2> QED BY <2>6, <2>7, <2>8
<1>6. CASE e = 5
  <2>1. PICK q \in Int : q = p \div 256
    OBVIOUS
  <2>2. 4096 <= p /\ p < 8192
    BY <1>6, Powers DEF Shl, InSegment
  <2>3. 16 <= q /\ q <= 31 /\ 256 * q <= p /\ p < 256 * q + 256
    BY <2>1, <2>2
  <2>4. q % 16 = q - 16
    BY <2>3
  <2>5. Mantissa(p, e) = q - 16
    BY <1>6, <2>1, <2>4, Powers DEF Mantissa, Shr
  <2>6. Shl(8 * Mantissa(p, e) + BIAS, e) = 256 * q + 128
    BY <1>6, <2>5, Powers DEF Shl, BIAS
  <2>7. PICK v \in Int : v = 256 * q + 128
    OBVIOUS
  <2>8. 132 <= v /\ 32 * (v - p) <= p /\ 32 * (p - v) <= p
    BY <2>2, <2>3, <2>7
  <2> QED BY <2>6, <2>7, <2>8
<1>7. CASE e = 6
  <2>1. PICK q \in Int : q = p \div 512
    OBVIOUS
  <2>2. 8192 <= p /\ p < 16384
    BY <1>7, Powers DEF Shl, InSegment
  <2>3. 16 <= q /\ q <= 31 /\ 512 * q <= p /\ p < 512 * q + 512
    BY <2>1, <2>2
  <2>4. q % 16 = q - 16
    BY <2>3
  <2>5. Mantissa(p, e) = q - 16
    BY <1>7, <2>1, <2>4, Powers DEF Mantissa, Shr
  <2>6. Shl(8 * Mantissa(p, e) + BIAS, e) = 512 * q + 256
    BY <1>7, <2>5, Powers DEF Shl, BIAS
  <2>7. PICK v \in Int : v = 512 * q + 256
    OBVIOUS
  <2>8. 132 <= v /\ 32 * (v - p) <= p /\ 32 * (p - v) <= p
    BY <2>2, <2>3, <2>7
  <2> QED BY <2>6, <2>7, <2>8
<1>8. CASE e = 7
  <2>1. PICK q \in Int : q = p \div 1024
    OBVIOUS
  <2>2. 16384 <= p /\ p < 32768
    BY <1>8, Powers DEF Shl, InSegment
  <2>3. 16 <= q /\ q <= 31 /\ 1024 * q <= p /\ p < 1024 * q + 1024
    BY <2>1, <2>2
  <2>4. q % 16 = q - 16
    BY <2>3
  <2>5. Mantissa(p, e) = q - 16
    BY <1>8, <2>1, <2>4, Powers DEF Mantissa, Shr
  <2>6. Shl(8 * Mantissa(p, e) + BIAS, e) = 1024 * q + 512
    BY <1>8, <2>5, Powers DEF Shl, BIAS
  <2>7. PICK v \in Int : v = 1024 * q + 512
    OBVIOUS
  <2>8. 132 <= v /\ 32 * (v - p) <= p /\ 32 * (p - v) <= p
    BY <2>2, <2>3, <2>7
  <2> QED BY <2>6, <2>7, <2>8
<1> QED BY <1>1, <1>2, <1>3, <1>4, <1>5, <1>6, <1>7, <1>8

\* The device and the phone read every code the same way
\* (audio_out_win.c:22-31, AudioPlayer.kt:90-102).
THEOREM DecodersAgree ==
    ASSUME NEW c \in 0..255
    PROVE  ulaw_to_pcm(c) = ulawDecode(c)
<1>1. PICK u \in Int : u = 255 - c /\ 0 <= u /\ u <= 255
  OBVIOUS
<1>2. (u \div 128) % 2 = 1 <=> u \div 128 # 0
  BY <1>1
<1>3. Bit(u, 7) <=> (u \div 128) % 2 = 1
  BY <1>1, Powers DEF Bit, Shr
<1>4. PICK v \in Int : v = magnitude(u)
  <2>1. PICK m \in Int, e \in 0..7 : m = u % 16 /\ 0 <= m /\ e = (u \div 16) % 8
    BY <1>1
  <2>2. magnitude(u) = Shl(8 * m + BIAS, e) - BIAS
    BY <1>1, <2>1, Powers DEF magnitude, Shr
  <2>3. Shl(8 * m + BIAS, e) \in Int
    BY <2>1, Powers DEF Shl, BIAS
  <2> QED BY <2>2, <2>3 DEF BIAS
<1>5. ulaw_to_pcm(c) = IF Bit(u, 7) THEN (-1) * v ELSE 1 * v
  BY <1>1, <1>4 DEF ulaw_to_pcm
<1>6. ulawDecode(c) = IF u \div 128 # 0 THEN -v ELSE v
  BY <1>1, <1>4 DEF ulawDecode
<1>7. (-1) * v = -v /\ 1 * v = v
  BY <1>4
<1> QED BY <1>2, <1>3, <1>5, <1>6, <1>7

\* A code of sign s, segment e and place m decodes to the middle of its step.
LEMMA Decoded ==
    ASSUME NEW s \in {0, 128}, NEW e \in 0..7, NEW m \in Int, 0 <= m, m <= 15,
           NEW v \in Int, v = Shl(8 * m + BIAS, e) - BIAS
    PROVE  ulawDecode(255 - (s + 16 * e + m)) = IF s = 128 THEN -v ELSE v
BY Parts DEF ulawDecode

\* Above the clipping point libre's table holds one code.
LEMMA Loudest ==
    ASSUME NEW x \in Int, IsSample(x), Abs(x) > 32635
    PROVE  g711_pcm2ulaw(x) = 255 - (Sign(x) + 16 * 7 + 15)
<1>1. PICK a \in Int, s \in {0, 128} : a = Abs(x) /\ 32635 < a /\ s = Sign(x)
  BY Magnitudes DEF Sign
<1>2. TableIndex(x) = (a - 4) \div 8
  BY <1>1, Powers DEF TableIndex, Shr
<1>3. PICK l \in Int : l = (a - 4) \div 8 /\ l + 17 > 4095
  BY <1>1
<1>4. Biased(l) = 4095
  BY <1>3 DEF Biased
<1>5. InSegment(32767, 7)
  BY Powers DEF InSegment, Shl
<1>6. \A f \in 0..7 : (Shl(16, f) <= 4095 /\ 4095 < Shl(32, f)) <=> f = 7
  <2>1. \A f \in 0..7 : (Shl(16, f) <= 32767 \div 8 /\ 32767 \div 8 < Shl(32, f)) <=> InSegment(32767, f)
    BY Eighths
  <2> QED BY <1>5, <2>1, SegmentUnique
<1>7. segment(4095) = 7
  BY <1>6 DEF segment
<1>8. Shr(4095, 7) % 16 = 15
  BY Powers DEF Shr
<1>9. g711_l2u(l) = 255 - (16 * 7 + 15)
  BY <1>4, <1>7, <1>8 DEF g711_l2u
<1> QED BY <1>1, <1>2, <1>3, <1>9 DEF g711_pcm2ulaw

\* What the device's encoder makes of a sample, decoded by the phone, is within
\* a 32nd of the sample's biased magnitude, clipping included
\* (rem_g711.h:21-33, AudioPlayer.kt:90-102).
THEOREM RoundTrip ==
    ASSUME NEW x \in Int, IsSample(x)
    PROVE  32 * Abs(ulawDecode(g711_pcm2ulaw(x)) - x) <= Abs(x) + BIAS
<1>1. PICK a \in Int, s \in {0, 128} :
          /\ a = Abs(x) /\ 0 <= a /\ a <= 32768 /\ s = Sign(x)
          /\ x = IF s = 128 THEN -a ELSE a
  BY Magnitudes DEF Abs, Sign, IsSample
<1>2. SUFFICES ASSUME NEW v \in Int,
                      ulawDecode(g711_pcm2ulaw(x)) = IF s = 128 THEN -v ELSE v,
                      32 * (v - a) <= a + 132, 32 * (a - v) <= a + 132
               PROVE  32 * Abs(ulawDecode(g711_pcm2ulaw(x)) - x) <= a + 132
  <2>1. CASE a <= 32635
    <3>1. a + BIAS \in Int /\ 132 <= a + BIAS /\ a + BIAS <= 32767
      BY <1>1, <2>1 DEF BIAS
    <3>2. PICK e \in 0..7 : InSegment(a + BIAS, e)
      BY <3>1, SomeSegment
    <3>3. PICK m \in Int : m = Mantissa(a + BIAS, e) /\ 0 <= m /\ m <= 15
      <4>1. Mantissa(a + BIAS, e) \in 0..15
        BY <3>1, PlaceRange
      <4> QED BY <4>1
    <3>4. g711_pcm2ulaw(x) = 255 - (s + 16 * e + m)
      <4>1. InSegment(Abs(x) + BIAS, e) /\ s = Sign(x) /\ m = Mantissa(Abs(x) + BIAS, e)
        <5>1. a = Abs(x) /\ s = Sign(x)
          BY <1>1
        <5>2. m = Mantissa(a + BIAS, e)
          BY <3>3
        <5> QED BY <3>2, <5>1, <5>2
      <4>2. g711_pcm2ulaw(x) = 255 - (Sign(x) + 16 * e + Mantissa(Abs(x) + BIAS, e))
        BY <4>1, LibreCode
      <4> QED BY <4>1, <4>2
    <3>5. PICK w \in Int : /\ w = Shl(8 * m + BIAS, e)
                           /\ 32 * (w - (a + BIAS)) <= a + BIAS
                           /\ 32 * ((a + BIAS) - w) <= a + BIAS
      BY <3>1, <3>2, <3>3, Middle
    <3>6. PICK v \in Int : v = w - 132
      OBVIOUS
    <3>7. ulawDecode(g711_pcm2ulaw(x)) = IF s = 128 THEN -v ELSE v
      BY <3>3, <3>4, <3>5, <3>6, Decoded DEF BIAS
    <3>8. 32 * (v - a) <= a + 132 /\ 32 * (a - v) <= a + 132
      BY <3>5, <3>6 DEF BIAS
    <3> QED BY <1>1, <1>2, <3>7, <3>8 DEF BIAS
  <2>2. CASE a > 32635
    <3>1. g711_pcm2ulaw(x) = 255 - (s + 16 * 7 + 15)
      BY <1>1, <2>2, Loudest
    <3>2. Shl(8 * 15 + BIAS, 7) - BIAS = 32124
      BY Powers DEF Shl, BIAS
    <3>3. ulawDecode(255 - (s + 16 * 7 + 15)) = IF s = 128 THEN -32124 ELSE 32124
      BY <3>2, Decoded, SMTT(60)
    <3>4. PICK v \in Int : v = 32124
      OBVIOUS
    <3>5. ulawDecode(g711_pcm2ulaw(x)) = IF s = 128 THEN -v ELSE v
      BY <3>1, <3>3, <3>4
    <3>6. 32 * (v - a) <= a + 132 /\ 32 * (a - v) <= a + 132
      BY <1>1, <2>2, <3>4
    <3> QED BY <1>1, <1>2, <3>5, <3>6 DEF BIAS
  <2> QED BY <1>1, <2>1, <2>2
<1>3. CASE s = 128
  BY <1>1, <1>2, <1>3 DEF Abs
<1>4. CASE s = 0
  BY <1>1, <1>2, <1>4 DEF Abs
<1> QED BY <1>3, <1>4

\* The phone's encoder clips before it adds the bias, at a bound that does not
\* keep the sum within 15 bits: the 132 loudest magnitudes wrap round to codes
\* for near silence (AudioCapture.kt:125-136).
THEOREM LoudestIsSilent ==
    ASSUME NEW x \in Int, IsSample(x), Abs(x) > 32635
    PROVE  Abs(ulawDecode(ulawEncode(x))) <= 120
<1>1. PICK p \in Int : p = Clipped(x) + BIAS /\ 32768 <= p /\ p <= 32899
  BY Magnitudes DEF Clipped, MAX, BIAS
<1>2. \A f \in 1..7 : ~Bit(p, f + 7)
  <2>1. /\ (p \div 256) % 2 = 0 /\ (p \div 512) % 2 = 0 /\ (p \div 1024) % 2 = 0
        /\ (p \div 2048) % 2 = 0 /\ (p \div 4096) % 2 = 0 /\ (p \div 8192) % 2 = 0
        /\ (p \div 16384) % 2 = 0
    BY <1>1
  <2> QED BY <2>1, Powers DEF Bit, Shr
<1>3. exponent(p) = 0
  BY <1>2 DEF exponent
<1>4. PICK m \in Int, s \in {0, 128} :
          m = (p \div 8) % 16 /\ 0 <= m /\ m <= 15 /\ s = Sign(x)
  BY <1>1 DEF Sign
<1>5. ulawEncode(x) = 255 - (s + 16 * 0 + m)
  BY <1>1, <1>3, <1>4, Powers DEF ulawEncode, Shr
<1>6. Shl(8 * m + BIAS, 0) - BIAS = 8 * m
  BY <1>4, Powers DEF Shl, BIAS
<1>7. ulawDecode(ulawEncode(x)) = IF s = 128 THEN -(8 * m) ELSE 8 * m
  BY <1>4, <1>5, <1>6, Decoded
<1> QED BY <1>4, <1>7 DEF Abs
----------------------------------------------------------------------------
(***************************************************************************)
(* The ring, for any ring and packet size, gain and recording: it is a     *)
(* queue that drops its oldest sample, and audio_send_timer keeps its      *)
(* latency down.                                                           *)
(***************************************************************************)

\* The critical section is held by who is inside, and only while the device is
\* open; what a holder found in the indices is still so when it uses it.
Locking ==
    /\ Reading <=> cs = "reader"
    /\ todo > 0 \/ room => cs = "callback"
    /\ room => todo > 0 /\ After(wr) # rd
    /\ copied => Reading /\ More /\ tmp = ring[rd]
    /\ cs # "free" \/ ~Quiet => opened
    /\ pc = "draining" => want <= skip

RingInv == TypeOK /\ Locking

\* The clipped product is a 16-bit sample.
LEMMA GainType ==
    ASSUME NEW s \in Raw
    PROVE  Gain(s) \in Pcm
<1>1. s \in Int /\ PCM_MAX \in Nat /\ MIC_GAIN \in Int
  BY MicRingAssumption DEF Pcm
<1> DEFINE g == s * MIC_GAIN
<1>2. g \in Int
  BY <1>1
<1> HIDE DEF g
<1>3. (IF g > PCM_MAX THEN PCM_MAX ELSE IF g < -PCM_MAX - 1 THEN -PCM_MAX - 1 ELSE g)
      \in (-PCM_MAX - 1)..PCM_MAX
  BY <1>1, <1>2
<1> QED BY <1>3, ZenonT(60) DEF g, Gain, Pcm

\* Indices stay indices.
LEMMA AfterType ==
    ASSUME NEW i \in Index
    PROVE  After(i) \in Index
BY MicRingAssumption DEF After, Index

\* How many samples there are, and how a step of an index changes that.
LEMMA Counting ==
    ASSUME rd \in Index, wr \in Index
    PROVE  /\ Available \in 0..(RING_SIZE - 1)
           /\ Available = 0 <=> rd = wr
           /\ Available = RING_SIZE - 1 <=> After(wr) = rd
BY MicRingAssumption DEF Index, Available, After

\* A sample written is one more (enqueue_to_ring).
LEMMA CountingUp ==
    ASSUME rd \in Index, wr \in Index, After(wr) # rd, wr' = After(wr), rd' = rd
    PROVE  Available' = Available + 1
BY MicRingAssumption DEF Index, Available, After

\* A sample read or dropped is one less (audio_in_read, enqueue_to_ring).
LEMMA CountingDown ==
    ASSUME rd \in Index, wr \in Index, rd # wr, rd' = After(rd), wr' = wr
    PROVE  Available' = Available - 1
BY MicRingAssumption DEF Index, Available, After

\* RingInv holds initially.
LEMMA RingInit == Init => RingInv
<1> SUFFICES ASSUME Init PROVE RingInv
  BY ZenonT(60)
<1>1. 0 \in Index /\ 0 \in Pcm /\ 0 \in 0..AUDIO_SAMPLES /\ 0 \in 0..RING_SIZE
  BY MicRingAssumption DEF Index, Pcm
<1>2. TypeOK
  BY <1>1, ZenonT(60) DEF Init, TypeOK
<1>3. Locking
  BY DEF Init, Locking, Reading, Quiet
<1> QED BY <1>2, <1>3, ZenonT(60) DEF RingInv

\* Every step keeps RingInv.
LEMMA RingStep == RingInv /\ [Next]_vars => RingInv'
<1> SUFFICES ASSUME RingInv, [Next]_vars PROVE RingInv'
  BY ZenonT(60)
<1> USE DEF RingInv
<1>0. 0 \in Index /\ 0 \in Pcm /\ AUDIO_SAMPLES \in Nat \ {0} /\ RING_SIZE \in Nat
  BY MicRingAssumption DEF Index, Pcm
<1>1. CASE audio_in_open \/ audio_in_close
  <2>1. TypeOK'
    BY <1>0, <1>1, ZenonT(60) DEF audio_in_open, audio_in_close, TypeOK, readVars
  <2>2. cs = "free" /\ todo = 0 /\ ~room /\ ~copied
    BY <1>1 DEF audio_in_open, audio_in_close, TypeOK, Locking, Quiet, Reading
  <2>3. Locking'
    BY <1>1, <2>2 DEF audio_in_open, audio_in_close, Locking, readVars, Quiet, Reading,
                      TypeOK
  <2> QED BY <2>1, <2>3, ZenonT(60)
<1>2. CASE wave_in_proc
  <2>1. TypeOK'
    BY <1>0, <1>2 DEF wave_in_proc, TypeOK, readVars, ringVars
  <2>2. Locking'
    BY <1>2, ZenonT(60) DEF wave_in_proc, Locking, readVars, ringVars, Quiet, Reading, More, TypeOK,
                After
  <2> QED BY <2>1, <2>2, ZenonT(60)
<1>3. CASE MakeRoom
  <2>1. rd' \in Index
    BY <1>3, AfterType, ZenonT(60) DEF MakeRoom, TypeOK
  <2>2. TypeOK'
    BY <1>3, <2>1, ZenonT(60) DEF MakeRoom, TypeOK, readVars
  <2>3. After(wr) # rd'
    BY <1>3, MicRingAssumption DEF MakeRoom, TypeOK, After, Index
  <2>4. Locking'
    BY <1>3, <2>3, ZenonT(60) DEF MakeRoom, Locking, readVars, Quiet, Reading, After
  <2> QED BY <2>2, <2>4, ZenonT(60)
<1>4. CASE enqueue_to_ring
  <2>1. wr' \in Index
    BY <1>4, AfterType, ZenonT(60) DEF enqueue_to_ring, TypeOK
  <2>2. ring' \in [Index -> Pcm]
    BY <1>4, GainType, ZenonT(60) DEF enqueue_to_ring, TypeOK
  <2>3. todo' \in 0..AUDIO_SAMPLES
    BY <1>0, <1>4 DEF enqueue_to_ring, TypeOK
  <2>4. arrived' \in 0..RING_SIZE
    BY <1>0, <1>4 DEF enqueue_to_ring, TypeOK, Least
  <2>5. TypeOK'
    BY <1>4, <2>1, <2>2, <2>3, <2>4, ZenonT(60) DEF enqueue_to_ring, TypeOK, readVars
  <2>6. Locking'
    BY <1>4, ZenonT(60) DEF enqueue_to_ring, Locking, readVars, Quiet, Reading, TypeOK
  <2> QED BY <2>5, <2>6, ZenonT(60)
<1>5. CASE CallbackLeaves
  <2>1. TypeOK'
    BY <1>5, ZenonT(60) DEF CallbackLeaves, TypeOK, readVars, ringVars
  <2>2. Locking'
    BY <1>5 DEF CallbackLeaves, Locking, readVars, ringVars, Quiet, Reading, TypeOK
  <2> QED BY <2>1, <2>2, ZenonT(60)
<1>6. CASE audio_send_timer \/ handle_play
  <2>1. Excess(Available) \in Nat
    BY <1>0, Counting DEF TypeOK, Excess
  <2>2. TypeOK'
    BY <1>0, <1>6, <2>1 DEF audio_send_timer, handle_play, TypeOK, ringVars
  <2>3. Locking'
    BY <1>6 DEF audio_send_timer, handle_play, Locking, ringVars, Quiet, Reading, TypeOK
  <2> QED BY <2>2, <2>3, ZenonT(60)
<1>7. CASE audio_in_read
  <2>1. want' \in 0..AUDIO_SAMPLES
    BY <1>0, <1>7 DEF audio_in_read, TypeOK, Least
  <2>2. pc' \in {"draining", "reading", "playing"}
    BY <1>7 DEF audio_in_read, Inside
  <2>3. TypeOK'
    BY <1>7, <2>1, <2>2, ZenonT(60) DEF audio_in_read, TypeOK, ringVars
  <2>4. pc' = "draining" => want' <= skip'
    BY <1>0, <1>7 DEF audio_in_read, Inside, Least, TypeOK
  <2>5. Locking'
    BY <1>7, <2>2, <2>4, ZenonT(60) DEF audio_in_read, Locking, ringVars, Quiet, Reading, TypeOK
  <2> QED BY <2>3, <2>5, ZenonT(60)
<1>8. CASE CopySample
  <2>1. TypeOK'
    BY <1>8, ZenonT(60) DEF CopySample, TypeOK, ringVars
  <2>2. Locking'
    BY <1>8, ZenonT(60) DEF CopySample, Locking, ringVars, Quiet, Reading, More
  <2> QED BY <2>1, <2>2, ZenonT(60)
<1>9. CASE Advance
  <2>1. rd' \in Index
    BY <1>9, AfterType, ZenonT(60) DEF Advance, TypeOK
  <2>2. want' \in 0..AUDIO_SAMPLES
    BY <1>0, <1>9 DEF Advance, TypeOK, Locking, More
  <2>3. skip' \in Nat /\ (pc = "draining" => want' <= skip')
    BY <1>0, <1>9 DEF Advance, Discarded, TypeOK, Locking, More
  <2>0. tmp' \in Pcm
    BY <1>9, MicRingAssumption DEF Advance, Pcm
  <2>4. TypeOK'
    BY <1>9, <2>0, <2>1, <2>2, <2>3, ZenonT(60) DEF Advance, TypeOK
  <2>5. Locking'
    BY <1>9, <2>3, ZenonT(60) DEF Advance, Locking, Quiet, Reading, TypeOK
  <2> QED BY <2>4, <2>5, ZenonT(60)
<1>10. CASE ReadReturns
  <2>0. want' \in 0..AUDIO_SAMPLES /\ got' \in BOOLEAN
    <3>1. want' = 0 /\ got' = FALSE
      BY <1>10, ZenonT(60) DEF ReadReturns
    <3>2. 0 \in 0..AUDIO_SAMPLES
      BY <1>0
    <3> QED BY <3>1, <3>2, ZenonT(60)
  <2>3. pc' \in {"drain", "read", "sent", "idle"} /\ cs' = "free"
    BY <1>10, ZenonT(60) DEF ReadReturns
  <2>1. TypeOK'
    BY <1>10, <2>0, <2>3, ZenonT(60) DEF ReadReturns, TypeOK, ringVars
  <2>2. Locking'
    BY <1>10, ZenonT(60) DEF ReadReturns, Locking, ringVars, Quiet, Reading, TypeOK
  <2> QED BY <2>1, <2>2, ZenonT(60)
<1>11. CASE UNCHANGED vars
  BY <1>11, ZenonT(60) DEF vars, ringVars, readVars, TypeOK, Locking, Reading, Quiet, More, After
<1> QED BY <1>1, <1>2, <1>3, <1>4, <1>5, <1>6, <1>7, <1>8, <1>9, <1>10, <1>11, ZenonT(60) DEF Next

\* Types and locking hold always (audio_in_win.c:52-82, 187-213).
LEMMA RingAlways == Spec => []RingInv
BY RingInit, RingStep, PTL DEF Spec

\* The indices stay inside the ring and the sample count below its size under
\* every interleaving of the callback with the timer (audio_in_win.c:52-82).
THEOREM RingTypes == Spec => []TypeOK
BY RingAlways, PTL DEF RingInv
----------------------------------------------------------------------------
(* The ring is a queue.                                                    *)

\* Where the i-th oldest sample is.
Place(i) == IF rd + i - 1 < RING_SIZE THEN rd + i - 1 ELSE rd + i - 1 - RING_SIZE

\* Content is a sequence of samples.
LEMMA ContentType ==
    ASSUME TypeOK
    PROVE  /\ Content \in Seq(Pcm)
           /\ Len(Content) = Available
           /\ Available \in Nat
           /\ \A i \in 1..Available : Place(i) \in Index /\ Content[i] = ring[Place(i)]
<1>1. Available \in 0..(RING_SIZE - 1)
  BY Counting, ZenonT(60) DEF TypeOK
<1>2. \A i \in 1..Available : Place(i) \in Index
  BY <1>1, MicRingAssumption DEF TypeOK, Index, Place
<1>3. Content = [i \in 1..Available |-> ring[Place(i)]]
  BY ZenonT(60) DEF Content, Place
<1>4. \A i \in 1..Available : ring[Place(i)] \in Pcm
  BY <1>2, ZenonT(60) DEF TypeOK
<1>5. Available \in Nat
  BY <1>1, MicRingAssumption
<1> HIDE DEF Content, Available, Place
<1> QED BY <1>2, <1>3, <1>4, <1>5

\* Moving rd on takes the oldest sample off.
LEMMA TakeOff ==
    ASSUME TypeOK, TypeOK', rd # wr, rd' = After(rd), wr' = wr, ring' = ring
    PROVE  /\ Content # <<>>
           /\ Head(Content) = ring[rd]
           /\ Content' = Tail(Content)
<1>1. /\ Content \in Seq(Pcm) /\ Len(Content) = Available /\ Available \in Nat
      /\ \A i \in 1..Available : Content[i] = ring[Place(i)]
  BY ContentType, ZenonT(60)
<1>2. Available' = Available - 1 /\ Available > 0
  BY <1>1, CountingDown, Counting DEF TypeOK
<1>3. \A i \in 1..(Available - 1) : Place(i)' = Place(i + 1)
  BY <1>1, <1>2, MicRingAssumption, Counting, SMTT(60) DEF Place, TypeOK, Index, After
<1>4. Place(1) = rd
  BY MicRingAssumption DEF Place, TypeOK, Index
<1>5. Content' = [i \in 1..(Available - 1) |-> ring[Place(i + 1)]]
  <2>1. Content' = [i \in 1..Available' |-> ring'[Place(i)']]
    BY ZenonT(60) DEF Content, Place
  <2> QED BY <1>2, <1>3, <2>1, ZenonT(60)
<1> HIDE DEF Content, Available, Place
<1>6. Content # <<>> /\ Head(Content) = ring[rd]
  BY <1>1, <1>2, <1>4
<1>7. /\ Tail(Content) \in Seq(Pcm)
      /\ Len(Tail(Content)) = Available - 1
      /\ \A i \in 1..(Available - 1) : Tail(Content)[i] = Content[i + 1]
  BY <1>1, <1>6, HeadTailProperties
<1>8. \A i \in 1..(Available - 1) : Content[i + 1] \in Pcm /\ Content[i + 1] = ring[Place(i + 1)]
  BY <1>1, <1>2
<1>9. Content' \in Seq(Pcm) /\ Len(Content') = Available - 1
  <2>1. Available - 1 \in Nat
    BY <1>1, <1>2
  <2> QED BY <1>5, <1>8, <2>1
<1>10. \A i \in 1..(Available - 1) : Content'[i] = Tail(Content)[i]
  BY <1>5, <1>7, <1>8, ZenonT(60)
<1>11. Content' = Tail(Content)
  BY <1>7, <1>9, <1>10, SeqEqual, ZenonT(60)
<1> QED BY <1>6, <1>11, ZenonT(60)

\* Writing at wr and moving it on puts a sample at the end.
LEMMA PutOn ==
    ASSUME TypeOK, TypeOK', After(wr) # rd, rd' = rd, wr' = After(wr), NEW s \in Pcm,
           ring' = [ring EXCEPT ![wr] = s]
    PROVE  /\ Len(Content) < RING_SIZE - 1
           /\ Content' = Append(Content, s)
<1>1. /\ Content \in Seq(Pcm) /\ Len(Content) = Available /\ Available \in Nat
      /\ \A i \in 1..Available : Place(i) \in Index /\ Content[i] = ring[Place(i)]
  BY ContentType, ZenonT(60)
<1>2. Available' = Available + 1 /\ Available < RING_SIZE - 1
  BY <1>1, CountingUp, Counting, MicRingAssumption DEF TypeOK
<1>3. Place(Available + 1) = wr
  BY MicRingAssumption DEF Place, TypeOK, Index, Available
<1>4. \A i \in 1..Available : Place(i) # wr
  BY MicRingAssumption DEF Place, TypeOK, Index, Available
<1>5. Content' = [i \in 1..(Available + 1) |-> ring'[Place(i)]]
  <2>1. Content' = [i \in 1..Available' |-> ring'[Place(i)']]
    BY ZenonT(60) DEF Content, Place
  <2>2. \A i \in 1..(Available + 1) : Place(i)' = Place(i)
    BY ZenonT(60) DEF Place
  <2> QED BY <1>2, <2>1, <2>2
<1>6. wr \in Index /\ ring \in [Index -> Pcm]
  BY ZenonT(60) DEF TypeOK
<1> HIDE DEF Content, Available, Place
<1>7. \A i \in 1..Available : ring'[Place(i)] = Content[i]
  BY <1>1, <1>4, <1>6, ZenonT(60)
<1>8. ring'[Place(Available + 1)] = s
  BY <1>3, <1>6, ZenonT(60)
<1>9. /\ Append(Content, s) \in Seq(Pcm)
      /\ Len(Append(Content, s)) = Available + 1
      /\ \A i \in 1..Available : Append(Content, s)[i] = Content[i]
      /\ Append(Content, s)[Available + 1] = s
  BY <1>1, AppendProperties
<1>10. \A i \in 1..(Available + 1) :
          ring'[Place(i)] \in Pcm /\ ring'[Place(i)] = Append(Content, s)[i]
  <2> SUFFICES ASSUME NEW i \in 1..(Available + 1)
               PROVE  ring'[Place(i)] \in Pcm /\ ring'[Place(i)] = Append(Content, s)[i]
    BY ZenonT(60)
  <2>1. CASE i = Available + 1
    BY <1>8, <1>9, <2>1, ZenonT(60)
  <2>2. CASE i \in 1..Available
    BY <1>1, <1>7, <1>9, <2>2
  <2> QED BY <1>1, <2>1, <2>2
<1>11. Content' \in Seq(Pcm) /\ Len(Content') = Available + 1
  BY <1>1, <1>5, <1>10
<1>12. \A i \in 1..(Available + 1) : Content'[i] = Append(Content, s)[i]
  BY <1>5, <1>10, ZenonT(60)
<1>13. Content' = Append(Content, s)
  BY <1>9, <1>11, <1>12, SeqEqual, ZenonT(60)
<1> QED BY <1>1, <1>2, <1>13, ZenonT(60)

\* An empty ring, which is what opening and closing the device leave.
LEMMA Emptied == rd = 0 /\ wr = 0 => Content = <<>>
BY DEF Content, Available

\* Every step of the two threads is a step of the queue or leaves it alone:
\* MakeRoom is DropOldest, enqueue_to_ring is Put, Advance is Get, and
\* opening and closing are Clear.
LEMMA QueueStep ==
    RingInv /\ RingInv' /\ [Next]_vars => [Queue!Next]_<<Content, last>>
<1> SUFFICES ASSUME RingInv, RingInv', [Next]_vars
             PROVE  [Queue!Next]_<<Content, last>>
  BY ZenonT(60)
<1>0. TypeOK /\ Locking /\ TypeOK'
  BY ZenonT(60) DEF RingInv
<1>1. CASE audio_in_open \/ audio_in_close
  <2>1. Content' = <<>>
    <3>1. rd' = 0 /\ wr' = 0
      BY <1>1, ZenonT(60) DEF audio_in_open, audio_in_close
    <3> QED BY <3>1 DEF Content, Available
  <2>2. last' = last
    BY <1>1, ZenonT(60) DEF audio_in_open, audio_in_close, readVars
  <2> QED BY <2>1, <2>2, ZenonT(60) DEF Queue!Next, Queue!Clear
<1>2. CASE MakeRoom
  <2>1. wr' = wr /\ ring' = ring /\ last' = last
    BY <1>2, ZenonT(60) DEF MakeRoom, readVars
  <2>2. CASE After(wr) = rd
    <3>1. rd' = After(rd) /\ rd # wr
      BY <1>0, <1>2, <2>2, MicRingAssumption DEF MakeRoom, TypeOK, After, Index
    <3>2. Content' = Tail(Content)
      BY <1>0, <2>1, <3>1, TakeOff, ZenonT(60)
    <3>3. Len(Content) = RING_SIZE - 1
      BY <1>0, <2>2, Counting, ContentType, ZenonT(60) DEF TypeOK
    <3> QED BY <2>1, <3>2, <3>3, ZenonT(60) DEF Queue!Next, Queue!DropOldest
  <2>3. CASE After(wr) # rd
    <3>1. rd' = rd
      BY <1>2, <2>3, ZenonT(60) DEF MakeRoom
    <3> QED BY <2>1, <3>1, ZenonT(60) DEF Content, Available
  <2> QED BY <2>2, <2>3, ZenonT(60)
<1>3. CASE enqueue_to_ring
  <2>1. PICK s \in Raw : ring' = [ring EXCEPT ![wr] = Gain(s)]
    BY <1>3, ZenonT(60) DEF enqueue_to_ring
  <2>2. Gain(s) \in Pcm
    BY GainType, ZenonT(60)
  <2>3. rd' = rd /\ wr' = After(wr) /\ After(wr) # rd /\ last' = last
    BY <1>0, <1>3, ZenonT(60) DEF enqueue_to_ring, Locking, readVars
  <2>4. Len(Content) < RING_SIZE - 1 /\ Content' = Append(Content, Gain(s))
    BY <1>0, <2>1, <2>2, <2>3, PutOn, ZenonT(60)
  <2> QED BY <2>2, <2>3, <2>4, ZenonT(60) DEF Queue!Next, Queue!Put
<1>4. CASE Advance
  <2>1. rd # wr /\ tmp = ring[rd]
    BY <1>0, <1>4, ZenonT(60) DEF Advance, Locking, More
  <2>2. rd' = After(rd) /\ wr' = wr /\ ring' = ring /\ last' = tmp
    BY <1>4, ZenonT(60) DEF Advance
  <2>3. Content # <<>> /\ Head(Content) = ring[rd] /\ Content' = Tail(Content)
    BY <1>0, <2>1, <2>2, TakeOff, ZenonT(60)
  <2> QED BY <2>1, <2>2, <2>3, ZenonT(60) DEF Queue!Next, Queue!Get
<1>5. CASE wave_in_proc \/ CallbackLeaves \/ audio_send_timer \/ handle_play
           \/ audio_in_read \/ CopySample \/ ReadReturns \/ UNCHANGED vars
  <2>1. ring' = ring /\ rd' = rd /\ wr' = wr /\ last' = last
    BY <1>5, ZenonT(60) DEF wave_in_proc, CallbackLeaves, audio_send_timer, handle_play, audio_in_read,
                CopySample, ReadReturns, vars, ringVars, readVars
  <2> QED BY <2>1, ZenonT(60) DEF Content, Available
<1> QED BY <1>1, <1>2, <1>3, <1>4, <1>5, ZenonT(60) DEF Next

\* The ring buffer of audio_in_win.c, filled by the waveIn callback and read by
\* the event loop, implements the queue of SampleQueue for any sizes.
THEOREM RingIsQueue == Spec => IsQueue
<1>1. Init => Queue!Init
  BY Emptied, ZenonT(60) DEF Init, Queue!Init
<1> QED BY <1>1, QueueStep, RingAlways, PTL DEF Spec, IsQueue, Queue!Spec
----------------------------------------------------------------------------
(* The latency of the ring.                                                *)

\* How much may be in the ring at each place of audio_send_timer.
Latency ==
    /\ pc \in {"drain", "draining"} => Available <= skip + AUDIO_SAMPLES + arrived
    /\ pc = "drain" => skip > 0
    /\ pc = "draining" /\ ~got => want > 0
    /\ pc = "read" => Available <= 2 * AUDIO_SAMPLES + arrived
    /\ pc = "reading" => Available <= AUDIO_SAMPLES + want + arrived
    /\ LatencyBounded

\* Every step keeps Latency: what the callback adds it adds to arrived, unless
\* that is saturated, and then the ring holds less; what a read leaves behind
\* is what it was not allowed to take.
LEMMA LatencyStep == RingInv /\ RingInv' /\ Latency /\ [Next]_vars => Latency'
<1> SUFFICES ASSUME RingInv, RingInv', Latency, [Next]_vars
             PROVE  Latency'
  BY ZenonT(60)
<1>0. /\ TypeOK /\ Locking /\ TypeOK'
      /\ AUDIO_SAMPLES \in Nat \ {0} /\ RING_SIZE \in Nat /\ RING_SIZE >= 2
  BY MicRingAssumption, ZenonT(60) DEF RingInv
<1>n. AUDIO_SAMPLES \in Nat /\ RING_SIZE \in Nat /\ RING_SIZE >= 2
  BY MicRingAssumption, ZenonT(60)
<1>a. Available \in 0..(RING_SIZE - 1) /\ (Available = 0 <=> rd = wr)
  BY <1>0, Counting, ZenonT(60) DEF TypeOK
<1>b. Available' \in 0..(RING_SIZE - 1) /\ (rd' = wr' => Available' = 0)
  <2>1. rd' \in 0..(RING_SIZE - 1) /\ wr' \in 0..(RING_SIZE - 1)
    BY <1>0, ZenonT(60) DEF TypeOK, Index
  <2>2. \A r, w \in 0..(RING_SIZE - 1) :
           LET n == IF w >= r THEN w - r ELSE w - r + RING_SIZE
           IN  n \in 0..(RING_SIZE - 1) /\ (r = w => n = 0)
    BY <1>n
  <2> QED BY <2>1, <2>2, ZenonT(60) DEF Available
<1>c. /\ skip \in Nat /\ want \in Nat /\ arrived \in 0..RING_SIZE
      /\ skip' \in Nat /\ want' \in Nat /\ arrived' \in 0..RING_SIZE
  BY <1>0 DEF TypeOK
<1>d. ASSUME rd' = rd, wr' = wr
      PROVE  Available' = Available
  BY <1>d, ZenonT(60) DEF Available
<1> HIDE DEF Available
<1> USE DEF Latency, LatencyBounded
<1>1. CASE audio_in_open \/ audio_in_close
  <2>1. Available' = 0 /\ pc' \in {"idle", "sent"}
    BY <1>1, <1>b, ZenonT(60) DEF audio_in_open, audio_in_close, readVars, Quiet
  <2>2. Available' <= AUDIO_SAMPLES + arrived'
    <3>1. \A a \in 0..RING_SIZE : 0 <= AUDIO_SAMPLES + a
      BY <1>n
    <3> QED BY <1>c, <2>1, <3>1, ZenonT(60)
  <2> QED BY <2>1, <2>2, ZenonT(60)
<1>2. CASE MakeRoom
  <2>1. Available' <= Available
    <3>1. CASE After(wr) = rd
      <4>1. rd' = After(rd) /\ rd # wr /\ wr' = wr
        BY <1>0, <1>2, <3>1, MicRingAssumption, SMTT(60) DEF MakeRoom, TypeOK, After, Index
      <4>2. Available' = Available - 1
        BY <1>0, <4>1, CountingDown, ZenonT(60) DEF TypeOK
      <4> QED BY <1>a, <4>2
    <3>2. CASE After(wr) # rd
      BY <1>2, <1>a, <1>d, <3>2 DEF MakeRoom
    <3> QED BY <3>1, <3>2, ZenonT(60)
  <2>2. pc' = pc /\ skip' = skip /\ want' = want /\ got' = got /\ arrived' = arrived
    BY <1>2, ZenonT(60) DEF MakeRoom, readVars
  <2> QED BY <1>0, <1>a, <1>b, <1>c, <2>1, <2>2
<1>3. CASE enqueue_to_ring
  <2>1. Available' = Available + 1
    BY <1>0, <1>3, CountingUp, ZenonT(60) DEF enqueue_to_ring, TypeOK, Locking
  <2>2. pc' = pc /\ skip' = skip /\ want' = want /\ got' = got
    BY <1>3, ZenonT(60) DEF enqueue_to_ring, readVars
  <2>3. arrived' = arrived + 1 \/ arrived' = RING_SIZE
    BY <1>3, ZenonT(60) DEF enqueue_to_ring, Least
  <2>4. CASE arrived' = arrived + 1
    BY <1>0, <1>a, <1>c, <2>1, <2>2, <2>4
  <2>5. CASE arrived' = RING_SIZE
    BY <1>0, <1>b, <1>c, <2>2, <2>5
  <2> QED BY <2>3, <2>4, <2>5, ZenonT(60)
<1>4. CASE audio_send_timer
  <2>1. Available' = Available
    BY <1>4, <1>d, ZenonT(60) DEF audio_send_timer, ringVars
  <2>2. /\ arrived' = 0 /\ skip' = Excess(Available)
        /\ pc' = IF skip' > 0 THEN "drain" ELSE "read"
    BY <1>4, ZenonT(60) DEF audio_send_timer
  <2> QED BY <1>0, <1>a, <1>c, <2>1, <2>2, SMTT(60) DEF Excess
<1>5. CASE audio_in_read
  <2>1. Available' = Available
    BY <1>5, <1>d, ZenonT(60) DEF audio_in_read, ringVars
  <2>2. CASE pc = "drain"
    <3>1. /\ pc' = "draining" /\ skip' = skip /\ arrived' = arrived
          /\ want' = Least(skip, AUDIO_SAMPLES)
      BY <1>5, <2>2, ZenonT(60) DEF audio_in_read, Inside
    <3> QED BY <1>0, <1>a, <1>c, <2>1, <2>2, <3>1 DEF Least
  <2>3. CASE pc = "read"
    <3>1. pc' = "reading" /\ arrived' = arrived /\ want' = AUDIO_SAMPLES
      BY <1>5, <2>3, ZenonT(60) DEF audio_in_read, Inside
    <3> QED BY <1>0, <1>a, <1>c, <2>1, <2>3, <3>1
  <2>4. CASE pc = "play"
    <3>1. pc' = "playing"
      BY <1>5, <2>4, ZenonT(60) DEF audio_in_read, Inside
    <3> QED BY <3>1, ZenonT(60)
  <2> QED BY <1>5, <2>2, <2>3, <2>4, ZenonT(60) DEF audio_in_read
<1>6. CASE Advance
  <2>1. Available' = Available - 1
    BY <1>0, <1>6, CountingDown, ZenonT(60) DEF Advance, TypeOK, Locking, More
  <2>2. /\ pc' = pc /\ got' = TRUE /\ arrived' = arrived /\ want' = want - 1
        /\ pc \in {"draining", "reading", "playing"}
        /\ skip' = IF pc = "draining" THEN skip - 1 ELSE skip
    BY <1>6, ZenonT(60) DEF Advance, Reading, Discarded
  <2> QED BY <1>0, <1>a, <1>c, <2>1, <2>2, SMTT(60)
<1>7. CASE ReadReturns
  <2>1. Available' = Available
    BY <1>7, <1>d, ZenonT(60) DEF ReadReturns, ringVars
  <2>2. skip' = skip /\ arrived' = arrived
    BY <1>7, ZenonT(60) DEF ReadReturns
  <2>3. want = 0 \/ Available = 0
    BY <1>7, <1>a, <1>c DEF ReadReturns, More
  <2>4. CASE pc = "draining"
    <3>1. pc' = IF got /\ skip > 0 THEN "drain" ELSE "read"
      BY <1>7, <2>4, ZenonT(60) DEF ReadReturns
    <3>2. ~(got /\ skip > 0) => skip = 0 \/ Available = 0
      BY <1>a, <1>c, <2>3, <2>4
    <3> QED BY <1>0, <1>a, <1>c, <2>1, <2>2, <2>4, <3>1, <3>2, SMTT(60)
  <2>5. CASE pc = "reading"
    <3>1. pc' = "sent"
      BY <1>7, <2>5, ZenonT(60) DEF ReadReturns
    <3> QED BY <1>0, <1>a, <1>c, <2>1, <2>2, <2>3, <2>5, <3>1, SMTT(60)
  <2>6. CASE pc = "playing"
    <3>1. pc' = "idle"
      BY <1>7, <2>6, ZenonT(60) DEF ReadReturns
    <3> QED BY <3>1, ZenonT(60)
  <2> QED BY <1>7, <2>4, <2>5, <2>6, ZenonT(60) DEF ReadReturns
<1>8. CASE handle_play
  BY <1>8, ZenonT(60) DEF handle_play
<1>9. CASE wave_in_proc \/ CallbackLeaves \/ CopySample \/ UNCHANGED vars
  <2>1. rd' = rd /\ wr' = wr
    BY <1>9, ZenonT(60) DEF wave_in_proc, CallbackLeaves, CopySample, vars, ringVars
  <2>2. pc' = pc /\ skip' = skip /\ want' = want /\ got' = got /\ arrived' = arrived
    BY <1>9, ZenonT(60) DEF wave_in_proc, CallbackLeaves, CopySample, vars, readVars
  <2> QED BY <1>d, <2>1, <2>2, ZenonT(60)
<1> QED BY <1>1, <1>2, <1>3, <1>4, <1>5, <1>6, <1>7, <1>8, <1>9, ZenonT(60) DEF Next

\* However the callback interleaves, audio_send_timer leaves at most one packet
\* besides what arrived since it measured the ring (rtsp_server.c:1158-1182).
THEOREM LatencyIsBounded == Spec => []LatencyBounded
<1>1. Init => Latency
  BY ZenonT(60) DEF Init, Latency, LatencyBounded
<1>2. Latency => LatencyBounded
  BY ZenonT(60) DEF Latency
<1> QED BY <1>1, <1>2, LatencyStep, RingAlways, PTL DEF Spec
=============================================================================
