-------------------------- MODULE NalStreamProofs --------------------------
(***************************************************************************)
(* Proofs about NalStream, for units, packets and queues of any size.  The *)
(* invariant NalInv follows a unit from the device to the decoder: the     *)
(* fragments of a unit that lost none are under way one after the other    *)
(* (Chained), what the read thread already had of it is in fuBuffer (Open, *)
(* Chained), it has been put together or some of it is still under way     *)
(* (Delivered), and what was put together wrongly has a byte of a unit     *)
(* that lost a packet or did not fit (Explained).  Queued is the invariant *)
(* of the queue behind it.                                                 *)
(***************************************************************************)
EXTENDS NalStream, SequenceTheorems, TLAPS

----------------------------------------------------------------------------
(* Fragments.                                                              *)

\* Division by a positive number.
LEMMA Division ==
    ASSUME NEW a \in Nat, NEW d \in Nat, d > 0
    PROVE  /\ a \div d \in Nat
           /\ (a \div d) * d <= a
           /\ a < (a \div d) * d + d
OBVIOUS

\* How many bytes of the body the first i fragments carry.
Carried(i) == i * Chunk

\* One fragment after the other.
LEMMA CarriedStep ==
    /\ Chunk \in Nat /\ Chunk > 0
    /\ \A i \in Nat : /\ Carried(i) \in Nat
                      /\ Carried(i + 1) = Carried(i) + Chunk
                      /\ (i + 1 - 1) * Chunk = Carried(i)
    /\ Carried(0) = 0
    /\ \A i, j \in Nat : i <= j => Carried(i) <= Carried(j)
<1>1. Chunk \in Nat /\ Chunk > 0
  BY NalStreamAssumption DEF Chunk
<1>2. \A i \in Nat : i * Chunk \in Nat /\ (i + 1) * Chunk = i * Chunk + Chunk
  BY <1>1
<1>3. 0 * Chunk = 0
  BY <1>1
<1>4. ASSUME NEW i \in Nat, NEW j \in Nat, i <= j PROVE i * Chunk <= j * Chunk
  <2>1. j - i \in Nat /\ (j - i) * Chunk \in Nat
    BY <1>1, <1>4
  <2>2. j * Chunk = i * Chunk + (j - i) * Chunk
    BY <1>1
  <2> QED BY <1>2, <2>1, <2>2
<1> QED BY <1>1, <1>2, <1>3, <1>4 DEF Carried

\* A unit longer than a packet makes at least two fragments, and only the last
\* may be shorter than the others.
LEMMA FragmentCount ==
    ASSUME NEW len \in Nat, len > RTP_MTU
    PROVE  /\ Fragments(len) \in Nat /\ Fragments(len) >= 2
           /\ Carried(Fragments(len) - 1) < len - 1
           /\ len - 1 <= Carried(Fragments(len))
<1> DEFINE a == len - 1 + Chunk - 1
           q == a \div Chunk
           t == q * Chunk
<1>1. RTP_MTU = Chunk + 2 /\ RTP_MTU \in Nat
  BY NalStreamAssumption DEF Chunk
<1>2. a \in Nat /\ a >= Chunk + Chunk
  BY <1>1, CarriedStep
<1>3. q \in Nat /\ t <= a /\ a < t + Chunk
  BY <1>2, CarriedStep, Division, ZenonT(60)
<1>4. t \in Nat /\ (q = 0 => t = 0) /\ (q = 1 => t = Chunk)
  BY <1>3, CarriedStep
<1>5. q # 0 => q - 1 \in Nat /\ Carried(q) = Carried(q - 1) + Chunk /\ Carried(q) = t
                /\ Carried(q - 1) \in Nat
  BY <1>3, CarriedStep DEF Carried
<1>6. a = len - 1 + Chunk - 1
  BY ZenonT(60)
<1> HIDE DEF a, q, t
<1>7. q >= 2
  BY <1>2, <1>3, <1>4, CarriedStep
<1>8. Chunk \in Nat /\ Chunk > 0
  BY CarriedStep, ZenonT(60)
<1>9. Carried(q - 1) < len - 1 /\ len - 1 <= Carried(q)
  BY <1>3, <1>4, <1>5, <1>6, <1>7, <1>8
<1> QED BY <1>3, <1>7, <1>9, ZenonT(60) DEF Fragments, q, a

\* Bytes from + 1 to to of the body of unit n.
Bytes(n, from, to) == [j \in 1..(to - from) |-> <<n, from + j>>]

\* Byte sequences are cut and joined at any place.
LEMMA BytesJoin ==
    ASSUME NEW n \in Nat, NEW a \in Nat, NEW b \in Nat, a <= b
    PROVE  /\ Bytes(n, a, b) \in Seq(Nat \X Nat) /\ Len(Bytes(n, a, b)) = b - a
           /\ \A c \in Nat : b <= c => Bytes(n, a, b) \o Bytes(n, b, c) = Bytes(n, a, c)
<1>1. \A x, y \in Nat : x <= y => /\ Bytes(n, x, y) \in Seq(Nat \X Nat)
                                  /\ Len(Bytes(n, x, y)) = y - x
                                  /\ \A j \in 1..(y - x) : Bytes(n, x, y)[j] = <<n, x + j>>
  BY DEF Bytes
<1>2. ASSUME NEW c \in Nat, b <= c PROVE Bytes(n, a, b) \o Bytes(n, b, c) = Bytes(n, a, c)
  <2> DEFINE u == Bytes(n, a, b)
             v == Bytes(n, b, c)
             w == Bytes(n, a, c)
  <2>1. /\ u \in Seq(Nat \X Nat) /\ Len(u) = b - a /\ \A j \in 1..(b - a) : u[j] = <<n, a + j>>
        /\ v \in Seq(Nat \X Nat) /\ Len(v) = c - b /\ \A j \in 1..(c - b) : v[j] = <<n, b + j>>
        /\ w \in Seq(Nat \X Nat) /\ Len(w) = c - a /\ \A j \in 1..(c - a) : w[j] = <<n, a + j>>
    <3>1. a <= c
      BY <1>2
    <3> QED BY <1>1, <1>2, <3>1, ZenonT(60)
  <2> HIDE DEF u, v, w
  <2>2. /\ u \o v \in Seq(Nat \X Nat) /\ Len(u \o v) = c - a
        /\ \A j \in 1..(c - a) : (u \o v)[j] = IF j <= b - a THEN u[j] ELSE v[j - (b - a)]
    <3>1. Len(u) + Len(v) = c - a
      BY <2>1
    <3>2. /\ u \o v \in Seq(Nat \X Nat) /\ Len(u \o v) = Len(u) + Len(v)
          /\ \A j \in 1..(Len(u) + Len(v)) :
               (u \o v)[j] = IF j <= Len(u) THEN u[j] ELSE v[j - Len(u)]
      BY <2>1, ConcatProperties, ZenonT(60)
    <3> QED BY <2>1, <3>1, <3>2, ZenonT(60)
  <2>3. \A j \in 1..(c - a) : (u \o v)[j] = w[j]
    <3> SUFFICES ASSUME NEW j \in 1..(c - a) PROVE (u \o v)[j] = w[j]
      BY ZenonT(60)
    <3>1. CASE j <= b - a
      <4>1. j \in 1..(b - a)
        BY <3>1
      <4> QED BY <2>1, <2>2, <3>1, <4>1, ZenonT(60)
    <3>2. CASE ~(j <= b - a)
      <4>1. j - (b - a) \in 1..(c - b) /\ b + (j - (b - a)) = a + j
        BY <1>2, <3>2
      <4> QED BY <2>1, <2>2, <3>2, <4>1, ZenonT(60)
    <3> QED BY <3>1, <3>2, ZenonT(60)
  <2>4. u \o v = w
    BY <2>1, <2>2, <2>3, SeqEqual, ZenonT(60)
  <2> QED BY <2>4, ZenonT(60) DEF u, v, w
<1> QED BY <1>1, <1>2, ZenonT(60)

\* The same from the first byte on.
LEMMA BytesFromStart ==
    ASSUME NEW n \in Nat, NEW a \in Nat, NEW b \in Nat, a <= b
    PROVE  /\ Len(Bytes(n, 0, a)) = a /\ Len(Bytes(n, a, b)) = b - a
           /\ Bytes(n, 0, a) \o Bytes(n, a, b) = Bytes(n, 0, b)
<1>1. 0 \in Nat /\ 0 <= a /\ a - 0 = a
  OBVIOUS
<1>2. Len(Bytes(n, 0, a)) = a - 0 /\ Bytes(n, 0, a) \o Bytes(n, a, b) = Bytes(n, 0, b)
  BY <1>1, BytesJoin, ZenonT(60)
<1>3. Len(Bytes(n, a, b)) = b - a
  BY BytesJoin, ZenonT(60)
<1> QED BY <1>1, <1>2, <1>3, ZenonT(60)

\* The body of a unit, and of a fragment.
LEMMA UnitBody ==
    ASSUME NEW n \in Nat, NEW hdr, NEW len \in Nat, len > 0
    PROVE  Unit(n, hdr, len) = [hdr |-> hdr, body |-> Bytes(n, 0, len - 1)]
<1>1. Bytes(n, 0, len - 1) = [j \in 1..(len - 1) |-> <<n, j>>]
  BY DEF Bytes
<1> QED BY <1>1, ZenonT(60) DEF Unit

\* Where fragment i of a unit ends.
UpTo(len, i) == IF i = Fragments(len) THEN len - 1 ELSE Carried(i)

\* The fragments cut the body in order, and none is empty.
LEMMA Cut ==
    ASSUME NEW len \in Nat, len > RTP_MTU, NEW i \in 1..Fragments(len)
    PROVE  /\ Carried(i - 1) \in Nat /\ UpTo(len, i) \in Nat
           /\ Carried(i - 1) < UpTo(len, i) /\ UpTo(len, i) <= len - 1
           /\ UpTo(len, i) <= Carried(i - 1) + Chunk
           /\ i - 1 \in Nat
<1>1. Fragments(len) \in Nat /\ Fragments(len) >= 2 /\ Carried(Fragments(len) - 1) < len - 1
      /\ len - 1 <= Carried(Fragments(len))
  BY FragmentCount, ZenonT(60)
<1>2. i - 1 \in Nat /\ i \in Nat /\ i = (i - 1) + 1
  BY <1>1
<1>3. Carried(i - 1) \in Nat /\ Carried(i) \in Nat /\ Carried(i) = Carried(i - 1) + Chunk
      /\ Chunk \in Nat /\ Chunk > 0
  BY <1>2, CarriedStep, ZenonT(60)
<1>4. CASE i = Fragments(len)
  BY <1>1, <1>3, <1>4 DEF UpTo
<1>5. CASE i # Fragments(len)
  <2>1. Fragments(len) - 1 \in Nat /\ i <= Fragments(len) - 1
    BY <1>1, <1>2, <1>5
  <2>2. Carried(i) <= Carried(Fragments(len) - 1) /\ Carried(Fragments(len) - 1) \in Nat
    BY <1>2, <2>1, CarriedStep, ZenonT(60)
  <2> QED BY <1>1, <1>2, <1>3, <1>5, <2>2 DEF UpTo
<1> QED BY <1>4, <1>5, ZenonT(60)

\* The bytes of a fragment.
LEMMA FragmentBody ==
    ASSUME NEW n \in Nat, NEW hdr, NEW len \in Nat, len > RTP_MTU, NEW i \in 1..Fragments(len),
           NEW last
    PROVE  Fragment(n, hdr, len, i, last).body = Bytes(n, Carried(i - 1), UpTo(len, i))
<1> DEFINE a == Carried(i - 1)
           b == UpTo(len, i)
<1>1. a \in Nat /\ b \in Nat /\ a < b /\ b <= len - 1
  BY Cut, ZenonT(60)
<1>2. i - 1 \in Nat /\ i \in Nat /\ (i - 1) * Chunk = a
  BY Cut DEF Carried
<1>3. i # Fragments(len) => b = a + Chunk
  BY <1>2, CarriedStep DEF UpTo
<1>4. (IF i = Fragments(len) THEN len - 1 ELSE a + 1 + Chunk - 1) = b
  BY <1>1, <1>3, CarriedStep DEF UpTo
<1>5. Fragment(n, hdr, len, i, last).body = SubSeq(Unit(n, hdr, len).body, a + 1, b)
  BY <1>2, <1>4, ZenonT(60) DEF Fragment
<1> HIDE DEF a, b
<1>6. SubSeq(Unit(n, hdr, len).body, a + 1, b) = Bytes(n, a, b)
  <2>1. Unit(n, hdr, len).body = [j \in 1..(len - 1) |-> <<n, j>>]
    BY ZenonT(60) DEF Unit
  <2> DEFINE u == [j \in 1..(len - 1) |-> <<n, j>>]
  <2>2. u \in Seq(Nat \X Nat) /\ Len(u) = len - 1
    BY <1>1
  <2>3. SubSeq(u, a + 1, b) \in Seq(Nat \X Nat) /\ Len(SubSeq(u, a + 1, b)) = b - a
        /\ \A j \in 1..(b - a) : SubSeq(u, a + 1, b)[j] = u[a + 1 + j - 1]
    <3>1. a + 1 \in Int /\ b \in Int /\ \A j \in (a + 1)..b : u[j] \in Nat \X Nat
      <4>1. \A j \in (a + 1)..b : j \in 1..(len - 1) /\ j \in Nat
        BY <1>1
      <4>2. \A j \in 1..(len - 1) : u[j] = <<n, j>>
        BY ZenonT(60)
      <4> QED BY <1>1, <4>1, <4>2
    <3> HIDE DEF u
    <3>2. /\ SubSeq(u, a + 1, b) \in Seq(Nat \X Nat)
          /\ Len(SubSeq(u, a + 1, b)) = IF a + 1 <= b THEN b - (a + 1) + 1 ELSE 0
          /\ \A j \in 1..(b - (a + 1) + 1) : SubSeq(u, a + 1, b)[j] = u[a + 1 + j - 1]
      BY <3>1, SubSeqProperties
    <3>3. a + 1 <= b /\ b - (a + 1) + 1 = b - a
      BY <1>1
    <3> QED BY <3>2, <3>3
  <2>4. \A j \in 1..(b - a) : a + 1 + j - 1 = a + j /\ a + j \in 1..(len - 1)
    BY <1>1
  <2>5. \A j \in 1..(b - a) : u[a + 1 + j - 1] = <<n, a + j>>
    BY <2>4, ZenonT(60)
  <2>6. Bytes(n, a, b) \in Seq(Nat \X Nat) /\ Len(Bytes(n, a, b)) = b - a
        /\ \A j \in 1..(b - a) : Bytes(n, a, b)[j] = <<n, a + j>>
    BY <1>1, BytesJoin DEF Bytes
  <2> HIDE DEF u
  <2>7. \A j \in 1..(b - a) : SubSeq(u, a + 1, b)[j] = Bytes(n, a, b)[j]
    BY <2>3, <2>5, <2>6, ZenonT(60)
  <2> DEFINE v == SubSeq(u, a + 1, b)
             w == Bytes(n, a, b)
  <2>8. v = w
    <3>1. /\ v \in Seq(Nat \X Nat) /\ w \in Seq(Nat \X Nat) /\ Len(v) = Len(w)
          /\ Len(v) = b - a /\ \A j \in 1..(b - a) : v[j] = w[j]
      BY <2>3, <2>6, <2>7, ZenonT(60)
    <3> HIDE DEF v, w
    <3> QED BY <3>1, SeqEqual, ZenonT(60)
  <2> QED BY <2>1, <2>8, ZenonT(60) DEF u
<1> QED BY <1>5, <1>6, ZenonT(60) DEF a, b

\* The header survives the way through FU indicator and FU header, and only
\* fragments look like fragments.
LEMMA HeaderBack ==
    ASSUME NEW hdr \in Headers
    PROVE  /\ hdr \in Nat /\ hdr % 32 # FU_A
           /\ LET b0 == (hdr \div 32) * 32 + FU_A
              IN  b0 \in Nat /\ b0 % 32 = FU_A /\ ((b0 \div 32) % 4) * 32 + (hdr % 32) = hdr
<1>1. hdr \in 0..127 /\ hdr % 32 # FU_A
  BY NalStreamAssumption, ZenonT(60)
<1> DEFINE k == hdr \div 32
           r == hdr % 32
<1>2. k \in 0..3 /\ r \in 0..31 /\ hdr = k * 32 + r
  BY <1>1
<1> HIDE DEF k, r
<1>3. (k * 32 + 28) % 32 = 28 /\ (k * 32 + 28) \div 32 = k /\ k % 4 = k
  BY <1>2
<1>4. k * 32 + 28 \in Nat
  BY <1>2
<1> QED BY <1>1, <1>2, <1>3, <1>4 DEF FU_A, k, r

----------------------------------------------------------------------------
(* What is under way.                                                      *)

\* p is the whole of unit n.
Single(p, n) ==
    /\ n \in DOMAIN sent /\ p.nal = n
    /\ p.b0 % 32 # FU_A
    /\ [hdr |-> p.b0, body |-> p.body] = Unit(n, sent[n].hdr, sent[n].len)

\* p is fragment i of unit n.
Piece(p, n, i) ==
    /\ n \in DOMAIN sent /\ p.nal = n /\ sent[n].len > RTP_MTU
    /\ i \in 1..Fragments(sent[n].len)
    /\ p.b0 % 32 = FU_A /\ ((p.b0 \div 32) % 4) * 32 + p.type = sent[n].hdr
    /\ p.start <=> i = 1
    /\ p.end <=> i = Fragments(sent[n].len)
    /\ p.m => i = Fragments(sent[n].len)
    /\ p.body = Bytes(n, Carried(i - 1), UpTo(sent[n].len, i))

\* Unit n lost no packet and fits the buffer.
Good(n) == n \in whole /\ sent[n].len <= FuSize

\* What the buffer holds after the first i fragments of unit n.
Prefix(n, i) == [hdr |-> sent[n].hdr, body |-> Bytes(n, 0, Carried(i))]

Byte == Nat \X Nat
Packet == [nal : Nat, b0 : Nat, type : Nat, start : BOOLEAN, end : BOOLEAN, m : BOOLEAN,
           body : Seq(Byte)]

NalTypes ==
    /\ sent \in Seq([hdr : Headers, len : NalLens]) /\ whole \subseteq DOMAIN sent
    /\ net \in Seq(Packet)
    /\ fuBuffer \in [hdr : Int, body : Seq(Byte)]
    /\ assembled \in Seq([hdr : Int, body : Seq(Byte)])

\* The fragments of a unit that is good follow one another, up to the last, and
\* what came of it before the next packet is in the buffer.
Chained ==
    \A x \in DOMAIN net :
      \/ Single(net[x], net[x].nal)
      \/ \E i \in Nat :
           /\ Piece(net[x], net[x].nal, i)
           /\ Good(net[x].nal) =>
                /\ i < Fragments(sent[net[x].nal].len)
                   => x + 1 \in DOMAIN net /\ Piece(net[x + 1], net[x].nal, i + 1)
                /\ i > 1 => IF x = 1 THEN fuBuffer = Prefix(net[x].nal, i - 1)
                            ELSE Piece(net[x - 1], net[x].nal, i - 1)

\* An open buffer begins with the first byte of a unit; if that one is good, the
\* next packet is its next fragment.
Open ==
    \/ fuBuffer = NoBuffer
    \/ /\ fuBuffer.hdr \in Nat /\ fuBuffer.body # <<>>
       /\ fuBuffer.body[1][1] \in DOMAIN sent
       /\ Good(fuBuffer.body[1][1]) =>
            net # <<>> /\ \E i \in Nat : i > 1 /\ Piece(net[1], fuBuffer.body[1][1], i)

\* A unit that is good has been put together, or some of it is under way.
Delivered ==
    \A n \in whole : Good(n) =>
      \/ \E i \in DOMAIN assembled : assembled[i] = Unit(n, sent[n].hdr, sent[n].len)
      \/ \E x \in DOMAIN net : net[x].nal = n

\* Every unit put together is one that was sent, or has a byte of one that is not good.
Explained ==
    /\ 1 + Len(fuBuffer.body) <= FuSize
    /\ \A i \in DOMAIN assembled :
         \/ \E n \in DOMAIN sent : assembled[i] = Unit(n, sent[n].hdr, sent[n].len)
         \/ \E j \in DOMAIN assembled[i].body :
              assembled[i].body[j][1] \in DOMAIN sent /\ ~Good(assembled[i].body[j][1])

NalInv == NalTypes /\ Chained /\ Open /\ Delivered /\ Explained

\* What is known of a unit that was sent.
LEMMA SentType ==
    ASSUME NalTypes
    PROVE  /\ Len(sent) \in Nat /\ DOMAIN sent = 1..Len(sent)
           /\ \A n \in DOMAIN sent : /\ n \in Nat /\ n > 0
                                     /\ sent[n].hdr \in Headers /\ sent[n].hdr \in Nat
                                     /\ sent[n].len \in Nat /\ sent[n].len > 0
<1>1. Len(sent) \in Nat /\ DOMAIN sent = 1..Len(sent)
      /\ \A n \in 1..Len(sent) : sent[n] \in [hdr : Headers, len : NalLens]
  BY LenProperties, ZenonT(60) DEF NalTypes
<1>2. \A h \in Headers : h \in Nat
  BY HeaderBack, ZenonT(60)
<1>3. \A l \in NalLens : l \in Nat /\ l > 0
  BY NalStreamAssumption
<1> QED BY <1>1, <1>2, <1>3

\* A packet is at most one fragment.
LEMMA PieceOnce ==
    ASSUME NalTypes, NEW p, NEW n, NEW i, NEW k, Piece(p, n, i), Piece(p, n, k)
    PROVE  i = k
<1>1. n \in Nat /\ sent[n].len \in Nat /\ sent[n].len > RTP_MTU
  BY SentType, ZenonT(60) DEF Piece
<1> DEFINE len == sent[n].len
<1>2. \A j \in 1..Fragments(len) :
        /\ Carried(j - 1) \in Nat /\ UpTo(len, j) \in Nat /\ Carried(j - 1) < UpTo(len, j)
        /\ j - 1 \in Nat
  BY <1>1, Cut, ZenonT(60)
<1>3. i \in 1..Fragments(len) /\ k \in 1..Fragments(len)
      /\ Bytes(n, Carried(i - 1), UpTo(len, i)) = Bytes(n, Carried(k - 1), UpTo(len, k))
  BY ZenonT(60) DEF Piece
<1> HIDE DEF len
<1>4. \A j \in 1..Fragments(len) :
        Bytes(n, Carried(j - 1), UpTo(len, j))[1] = <<n, Carried(j - 1) + 1>>
  <2> SUFFICES ASSUME NEW j \in 1..Fragments(len)
               PROVE  Bytes(n, Carried(j - 1), UpTo(len, j))[1] = <<n, Carried(j - 1) + 1>>
    BY ZenonT(60)
  <2>1. 1 \in 1..(UpTo(len, j) - Carried(j - 1))
    BY <1>2
  <2> QED BY <2>1, ZenonT(60) DEF Bytes
<1>5. Carried(i - 1) + 1 = Carried(k - 1) + 1
  BY <1>3, <1>4
<1>6. Carried(i - 1) = Carried(k - 1)
  BY <1>2, <1>3, <1>5
<1>7. ASSUME NEW a \in Nat, NEW b \in Nat, a < b PROVE Carried(a) # Carried(b)
  <2>1. a + 1 \in Nat /\ a + 1 <= b
    BY <1>7
  <2>2. /\ Carried(a + 1) = Carried(a) + Chunk /\ Carried(a + 1) <= Carried(b)
        /\ Carried(a) \in Nat /\ Chunk \in Nat /\ Chunk > 0 /\ Carried(b) \in Nat
    BY <2>1, CarriedStep, ZenonT(60)
  <2> QED BY <2>2
<1>8. i - 1 = k - 1
  BY <1>2, <1>3, <1>6, <1>7
<1>9. i \in Int /\ k \in Int
  BY <1>1, <1>3, FragmentCount DEF len
<1> QED BY <1>8, <1>9

\* What Chained says of a fragment whose number is known.
LEMMA ChainAt ==
    ASSUME NalTypes, Chained, NEW x \in DOMAIN net, NEW n, NEW i, Piece(net[x], n, i), Good(n)
    PROVE  /\ i \in Nat /\ net[x].nal = n
           /\ i < Fragments(sent[n].len) => x + 1 \in DOMAIN net /\ Piece(net[x + 1], n, i + 1)
           /\ i > 1 => IF x = 1 THEN fuBuffer = Prefix(n, i - 1)
                       ELSE Piece(net[x - 1], n, i - 1)
<1>1. net[x].nal = n /\ ~Single(net[x], n)
  BY ZenonT(60) DEF Piece, Single
<1>2. PICK k \in Nat :
        /\ Piece(net[x], n, k)
        /\ Good(n) => /\ k < Fragments(sent[n].len)
                         => x + 1 \in DOMAIN net /\ Piece(net[x + 1], n, k + 1)
                      /\ k > 1 => IF x = 1 THEN fuBuffer = Prefix(n, k - 1)
                                  ELSE Piece(net[x - 1], n, k - 1)
  BY <1>1, ZenonT(60) DEF Chained
<1>3. i = k
  BY <1>2, PieceOnce, ZenonT(60)
<1> QED BY <1>1, <1>2, <1>3, ZenonT(60)

\* The next packet.
LEMMA NextPacket ==
    ASSUME NalTypes, feedRtpPayload
    PROVE  /\ Head(net) = net[1] /\ 1 \in DOMAIN net /\ Len(net) \in Nat /\ net \in Seq(Packet)
           /\ net[1] \in Packet
           /\ net' \in Seq(Packet) /\ DOMAIN net = 1..Len(net) /\ DOMAIN net' = 1..(Len(net) - 1)
           /\ \A x \in DOMAIN net' : x + 1 \in DOMAIN net /\ net'[x] = net[x + 1]
           /\ UNCHANGED <<sent, whole, queue, fed>>
<1>1. net \in Seq(Packet) /\ net # <<>> /\ net' = Tail(net) /\ UNCHANGED <<sent, whole, queue, fed>>
  BY ZenonT(60) DEF NalTypes, feedRtpPayload
<1> HIDE DEF Packet
<1>2. /\ Head(net) = net[1] /\ Head(net) \in Packet /\ net' \in Seq(Packet)
      /\ Len(net') = Len(net) - 1 /\ \A x \in 1..(Len(net) - 1) : net'[x] = net[x + 1]
  BY <1>1, HeadTailProperties
<1>3. Len(net) \in Nat /\ DOMAIN net = 1..Len(net) /\ DOMAIN net' = 1..Len(net') /\ Len(net) # 0
  BY <1>1, <1>2, LenProperties, EmptySeq, ZenonT(60)
<1> QED BY <1>1, <1>2, <1>3

\* A fragment that is not the last of a good unit lengthens what the buffer has of it.
LEMMA Buffered ==
    ASSUME NalInv, feedRtpPayload, NEW n, NEW i, Piece(net[1], n, i), Good(n),
           i < Fragments(sent[n].len)
    PROVE  fuBuffer' = Prefix(n, i)
<1> DEFINE p == net[1]
           len == sent[n].len
           a == Carried(i - 1)
           b == Carried(i)
<1>0. NalTypes /\ Chained
  BY ZenonT(60) DEF NalInv
<1>1. 1 \in DOMAIN net /\ Head(net) = p
  BY <1>0, NextPacket, ZenonT(60)
<1>2. /\ n \in DOMAIN sent /\ len > RTP_MTU /\ i \in 1..Fragments(len)
      /\ p.b0 % 32 = FU_A /\ ((p.b0 \div 32) % 4) * 32 + p.type = sent[n].hdr
      /\ p.start <=> i = 1
      /\ ~p.end /\ ~p.m
      /\ p.body = Bytes(n, a, UpTo(len, i))
  BY DEF Piece
<1>3. n \in Nat /\ len \in Nat /\ sent[n].hdr \in Nat /\ len <= FuSize /\ FuSize \in Nat
  BY <1>0, <1>2, SentType, NalStreamAssumption, ZenonT(60) DEF Good
<1>4. /\ a \in Nat /\ b \in Nat /\ a < b /\ b <= len - 1 /\ UpTo(len, i) = b /\ i \in Nat
  <2>1. /\ a \in Nat /\ UpTo(len, i) \in Nat /\ a < UpTo(len, i) /\ UpTo(len, i) <= len - 1
    BY <1>2, <1>3, Cut, ZenonT(60)
  <2>2. UpTo(len, i) = b /\ i \in Nat
    BY <1>2, <1>3, FragmentCount DEF UpTo
  <2> QED BY <2>1, <2>2, ZenonT(60)
<1>5. StartFragment \/ NextFragment
  BY <1>1, <1>2, ZenonT(60) DEF feedRtpPayload, SingleNal
<1>6. CASE i = 1
  <2>1. fuBuffer' = [hdr |-> sent[n].hdr, body |-> Bytes(n, a, b)]
    BY <1>1, <1>2, <1>4, <1>5, <1>6, ZenonT(60) DEF StartFragment, NextFragment
  <2>2. a = 0
    BY <1>6, CarriedStep
  <2> QED BY <2>1, <2>2, ZenonT(60) DEF Prefix
<1>7. CASE i # 1
  <2>1. fuBuffer = Prefix(n, i - 1)
    <3>1. i > 1
      BY <1>4, <1>7, <1>2
    <3> QED BY <1>0, <1>1, <3>1, ChainAt, ZenonT(60)
  <2>2. fuBuffer.hdr = sent[n].hdr /\ fuBuffer.body = Bytes(n, 0, a) /\ fuBuffer # NoBuffer
    BY <1>3, <2>1 DEF Prefix, NoBuffer
  <2>3. fuBuffer' = Joined(fuBuffer, p.body)
    BY <1>1, <1>2, <1>5, <1>7, <2>2, ZenonT(60) DEF StartFragment, NextFragment
  <2>4. Len(Bytes(n, 0, a)) = a /\ Len(Bytes(n, a, b)) = b - a
        /\ Bytes(n, 0, a) \o Bytes(n, a, b) = Bytes(n, 0, b)
    <3>1. n \in Nat /\ a \in Nat /\ b \in Nat /\ a <= b
      BY <1>3, <1>4
    <3> HIDE DEF a, b
    <3> QED BY <3>1, BytesFromStart, ZenonT(60)
  <2>5. 1 + Len(fuBuffer.body) + Len(p.body) <= FuSize
    BY <1>2, <1>3, <1>4, <2>2, <2>4
  <2>6. fuBuffer' = [fuBuffer EXCEPT !.body = @ \o p.body]
    BY <2>3, <2>5, ZenonT(60) DEF Joined
  <2> QED BY <1>2, <1>4, <2>1, <2>2, <2>4, <2>6, ZenonT(60) DEF Prefix
<1> QED BY <1>6, <1>7, ZenonT(60)

\* The last fragment of a good unit completes it.
LEMMA Completed ==
    ASSUME NalInv, feedRtpPayload, NEW n, NEW i, Piece(net[1], n, i), Good(n),
           i = Fragments(sent[n].len)
    PROVE  assembled' = Append(assembled, Unit(n, sent[n].hdr, sent[n].len))
<1> DEFINE p == net[1]
           len == sent[n].len
           a == Carried(i - 1)
<1>0. NalTypes /\ Chained
  BY ZenonT(60) DEF NalInv
<1>1. 1 \in DOMAIN net /\ Head(net) = p
  BY <1>0, NextPacket, ZenonT(60)
<1>2. /\ n \in DOMAIN sent /\ len > RTP_MTU /\ i \in 1..Fragments(len)
      /\ p.b0 % 32 = FU_A
      /\ p.start <=> i = 1
      /\ p.end
      /\ p.body = Bytes(n, a, UpTo(len, i))
  BY ZenonT(60) DEF Piece
<1>3. n \in Nat /\ len \in Nat /\ len > 0 /\ sent[n].hdr \in Nat /\ len <= FuSize /\ FuSize \in Nat
  BY <1>0, <1>2, SentType, NalStreamAssumption, ZenonT(60) DEF Good
<1>4. /\ a \in Nat /\ a < len - 1 /\ UpTo(len, i) = len - 1 /\ i \in Nat /\ i > 1
  <2>1. /\ a \in Nat /\ UpTo(len, i) \in Nat /\ a < UpTo(len, i) /\ UpTo(len, i) <= len - 1
    BY <1>2, <1>3, Cut, ZenonT(60)
  <2>2. UpTo(len, i) = len - 1 /\ i \in Nat /\ i > 1
    BY <1>2, <1>3, FragmentCount DEF UpTo
  <2> QED BY <2>1, <2>2, ZenonT(60)
<1>5. fuBuffer = Prefix(n, i - 1)
  BY <1>0, <1>1, <1>4, ChainAt, ZenonT(60)
<1>6. fuBuffer.hdr = sent[n].hdr /\ fuBuffer.body = Bytes(n, 0, a) /\ fuBuffer # NoBuffer
  BY <1>3, <1>5 DEF Prefix, NoBuffer
<1>7. assembled' = Append(assembled, Joined(fuBuffer, p.body))
  BY <1>1, <1>2, <1>4, <1>6 DEF feedRtpPayload, SingleNal, StartFragment, NextFragment, Complete
<1>8. Len(Bytes(n, 0, a)) = a /\ Len(Bytes(n, a, len - 1)) = len - 1 - a
      /\ Bytes(n, 0, a) \o Bytes(n, a, len - 1) = Bytes(n, 0, len - 1)
  <2>1. n \in Nat /\ a \in Nat /\ len - 1 \in Nat /\ a <= len - 1
    BY <1>3, <1>4
  <2> HIDE DEF a, len
  <2> QED BY <2>1, BytesFromStart, ZenonT(60)
<1>9. 1 + Len(fuBuffer.body) + Len(p.body) <= FuSize
  BY <1>2, <1>3, <1>4, <1>6, <1>8, SMTT(60)
<1>10. Joined(fuBuffer, p.body) = [fuBuffer EXCEPT !.body = @ \o p.body]
  BY <1>9, ZenonT(60) DEF Joined
<1>11. Joined(fuBuffer, p.body) = [hdr |-> sent[n].hdr, body |-> Bytes(n, 0, len - 1)]
  <2>1. fuBuffer = [hdr |-> sent[n].hdr, body |-> Bytes(n, 0, a)]
    BY <1>5, ZenonT(60) DEF Prefix
  <2>2. p.body = Bytes(n, a, len - 1)
    BY <1>2, <1>4, ZenonT(60)
  <2> HIDE DEF a, p, len
  <2> QED BY <1>8, <1>10, <2>1, <2>2, ZenonT(60)
<1> QED BY <1>3, <1>7, <1>11, UnitBody, ZenonT(60)

\* A step that leaves the units alone does not change what is said of them.
LEMMA SameUnits ==
    ASSUME UNCHANGED <<sent, whole>>
    PROVE  /\ \A p, n : Single(p, n)' <=> Single(p, n)
           /\ \A p, n, i : Piece(p, n, i)' <=> Piece(p, n, i)
           /\ \A n : Good(n)' <=> Good(n)
           /\ \A n, i : Prefix(n, i)' = Prefix(n, i)
BY DEF Single, Piece, Good, Prefix

\* The chain is kept when its head is taken.
LEMMA FeedChained ==
    ASSUME NalInv, feedRtpPayload
    PROVE  Chained'
<1>0. NalTypes /\ Chained
  BY ZenonT(60) DEF NalInv
<1>1. UNCHANGED <<sent, whole>>
  BY <1>0, NextPacket, ZenonT(60)
<1> SUFFICES ASSUME NEW x \in DOMAIN net', ~Single(net'[x], net'[x].nal)
             PROVE  \E i \in Nat :
                      /\ Piece(net'[x], net'[x].nal, i)
                      /\ Good(net'[x].nal) =>
                           /\ i < Fragments(sent[net'[x].nal].len)
                              => x + 1 \in DOMAIN net' /\ Piece(net'[x + 1], net'[x].nal, i + 1)
                           /\ i > 1 => IF x = 1 THEN fuBuffer' = Prefix(net'[x].nal, i - 1)
                                       ELSE Piece(net'[x - 1], net'[x].nal, i - 1)
  BY <1>1, SameUnits DEF Chained
<1> DEFINE y == x + 1
           n == net[y].nal
<1>2. y \in DOMAIN net /\ net'[x] = net[y] /\ x \in Nat /\ x >= 1 /\ y # 1 /\ y - 1 = x
      /\ 1 \in DOMAIN net /\ Len(net) \in Nat
  BY <1>0, NextPacket
<1>3. PICK i \in Nat : /\ Piece(net[y], n, i)
                       /\ Good(n) =>
                            /\ i < Fragments(sent[n].len)
                               => y + 1 \in DOMAIN net /\ Piece(net[y + 1], n, i + 1)
                            /\ i > 1 => Piece(net[x], n, i - 1)
  <2>1. ~Single(net[y], n)
    BY <1>2, ZenonT(60)
  <2> HIDE DEF y
  <2>2. \E i \in Nat :
          /\ Piece(net[y], n, i)
          /\ Good(n) =>
               /\ i < Fragments(sent[n].len)
                  => y + 1 \in DOMAIN net /\ Piece(net[y + 1], n, i + 1)
               /\ i > 1 => IF y = 1 THEN fuBuffer = Prefix(n, i - 1)
                           ELSE Piece(net[y - 1], n, i - 1)
    <3>1. y \in DOMAIN net
      BY <1>2, ZenonT(60)
    <3> QED BY <1>0, <2>1, <3>1, ZenonT(60) DEF Chained
  <2> QED BY <1>2, <2>2, ZenonT(60)
<1>4. ASSUME Good(n), i < Fragments(sent[n].len)
      PROVE  x + 1 \in DOMAIN net' /\ Piece(net'[x + 1], n, i + 1)
  <2>1. y + 1 \in DOMAIN net /\ Piece(net[y + 1], n, i + 1)
    BY <1>3, <1>4, ZenonT(60)
  <2>2. x + 1 \in DOMAIN net' /\ net'[x + 1] = net[y + 1]
    BY <1>0, <1>2, <2>1, NextPacket
  <2> QED BY <2>1, <2>2, ZenonT(60)
<1>5. ASSUME Good(n), i > 1, x = 1 PROVE fuBuffer' = Prefix(n, i - 1)
  <2>1. Piece(net[1], n, i - 1)
    BY <1>3, <1>5, ZenonT(60)
  <2>2. i - 1 < Fragments(sent[n].len)
    <3>1. i \in 1..Fragments(sent[n].len) /\ sent[n].len > RTP_MTU /\ n \in DOMAIN sent
      BY <1>3, ZenonT(60) DEF Piece
    <3> QED BY <1>0, <3>1, SentType, FragmentCount
  <2> QED BY <1>5, <2>1, <2>2, Buffered, ZenonT(60)
<1>6. ASSUME Good(n), i > 1, x # 1 PROVE Piece(net'[x - 1], n, i - 1)
  <2>1. x - 1 \in DOMAIN net' /\ net'[x - 1] = net[x]
    <3>1. x - 1 \in DOMAIN net' /\ x - 1 + 1 = x
      BY <1>0, <1>2, <1>6, NextPacket
    <3> QED BY <1>0, <3>1, NextPacket, ZenonT(60)
  <2> QED BY <1>3, <1>6, <2>1, ZenonT(60)
<1> QED BY <1>2, <1>3, <1>4, <1>5, <1>6, ZenonT(60)

\* An open buffer stays with the unit it begins with.
LEMMA FeedOpen ==
    ASSUME NalInv, feedRtpPayload
    PROVE  Open'
<1>0. NalTypes /\ Chained /\ Open
  BY ZenonT(60) DEF NalInv
<1>1. UNCHANGED <<sent, whole>> /\ Head(net) = net[1] /\ 1 \in DOMAIN net /\ net[1] \in Packet
  BY <1>0, NextPacket, ZenonT(60)
<1> DEFINE p == net[1]
           m == fuBuffer'.body[1][1]
<1> SUFFICES ASSUME fuBuffer' # NoBuffer
             PROVE  /\ fuBuffer'.hdr \in Nat /\ fuBuffer'.body # <<>>
                    /\ m \in DOMAIN sent
                    /\ Good(m) => net' # <<>> /\ \E i \in Nat : i > 1 /\ Piece(net'[1], m, i)
  BY <1>1, SameUnits, ZenonT(60) DEF Open
<1>2. ASSUME NEW n, NEW i, Piece(p, n, i), Good(n), i < Fragments(sent[n].len)
      PROVE  net' # <<>> /\ \E k \in Nat : k > 1 /\ Piece(net'[1], n, k)
  <2>1. i \in Nat /\ 2 \in DOMAIN net /\ Piece(net[2], n, i + 1)
    BY <1>0, <1>1, <1>2, ChainAt
  <2>2. 1 \in DOMAIN net' /\ net'[1] = net[2]
    BY <1>0, <2>1, NextPacket
  <2>3. i >= 1
    BY <1>2, <2>1 DEF Piece
  <2>4. i + 1 \in Nat /\ i + 1 > 1
    BY <2>1, <2>3
  <2> QED BY <2>1, <2>2, <2>4, EmptySeq
<1>3. CASE StartFragment
  <2>1. p.b0 % 32 = FU_A /\ p.start
        /\ fuBuffer' = [hdr |-> ((p.b0 \div 32) % 4) * 32 + p.type, body |-> p.body]
    BY <1>1, <1>3, ZenonT(60) DEF StartFragment
  <2>2. PICK i \in Nat : Piece(p, p.nal, i)
    BY <1>0, <1>1, <2>1, ZenonT(60) DEF Chained, Single
  <2> DEFINE n == p.nal
             len == sent[n].len
  <2>3. /\ n \in DOMAIN sent /\ len > RTP_MTU /\ i = 1 /\ fuBuffer'.hdr = sent[n].hdr
        /\ 1 \in 1..Fragments(len)
        /\ fuBuffer'.body = Bytes(n, Carried(1 - 1), UpTo(len, 1))
    BY <2>1, <2>2, ZenonT(60) DEF Piece
  <2>4. n \in Nat /\ len \in Nat /\ sent[n].hdr \in Nat /\ 1 < Fragments(len)
    BY <1>0, <2>3, SentType, FragmentCount
  <2>5. 1 \in 1..(UpTo(len, 1) - Carried(1 - 1))
    BY <2>3, <2>4, Cut
  <2>6. fuBuffer'.body[1] = <<n, Carried(1 - 1) + 1>> /\ fuBuffer'.body # <<>>
    BY <2>3, <2>5, EmptySeq DEF Bytes
  <2>7. m = n
    BY <2>6
  <2> QED BY <1>2, <2>2, <2>3, <2>4, <2>6, <2>7, ZenonT(60)
<1>4. CASE UNCHANGED fuBuffer /\ ~(p.b0 % 32 = FU_A)
  <2>1. fuBuffer.hdr \in Nat /\ fuBuffer.body # <<>> /\ m \in DOMAIN sent
        /\ (Good(m) => \E i \in Nat : i > 1 /\ Piece(p, m, i))
    BY <1>0, <1>4, ZenonT(60) DEF Open
  <2>2. ~Good(m)
    BY <1>4, <2>1, ZenonT(60) DEF Piece
  <2> QED BY <1>4, <2>1, <2>2, ZenonT(60)
<1>5. CASE fuBuffer # NoBuffer /\ ~(p.end \/ p.m) /\ fuBuffer' = Joined(fuBuffer, p.body)
  <2> DEFINE n == fuBuffer.body[1][1]
  <2>1. fuBuffer.hdr \in Nat /\ fuBuffer.body # <<>> /\ n \in DOMAIN sent
        /\ (Good(n) => \E i \in Nat : i > 1 /\ Piece(p, n, i))
    BY <1>0, <1>5, ZenonT(60) DEF Open
  <2>2. fuBuffer'.hdr = fuBuffer.hdr /\ fuBuffer'.body # <<>> /\ m = n
    <3>1. fuBuffer \in [hdr : Int, body : Seq(Byte)] /\ p.body \in Seq(Byte)
      BY <1>0, <1>1, ZenonT(60) DEF NalTypes, Packet
    <3>2. fuBuffer'.hdr = fuBuffer.hdr
          /\ fuBuffer'.body \in {fuBuffer.body, fuBuffer.body \o p.body}
      BY <1>5, <3>1, ZenonT(60) DEF Joined
    <3> DEFINE s == fuBuffer.body
               t == p.body
    <3>3. s \in Seq(Byte) /\ t \in Seq(Byte) /\ s # <<>>
      BY <2>1, <3>1, ZenonT(60)
    <3> HIDE DEF s, t, Byte
    <3>4. Len(s) \in Nat /\ Len(s) # 0 /\ Len(t) \in Nat
      BY <3>3, LenProperties, EmptySeq, ZenonT(60)
    <3>5. (s \o t)[1] = s[1] /\ s \o t # <<>>
      BY <3>3, <3>4, ConcatProperties, ConcatEqualIffEmpty
    <3> QED BY <3>2, <3>3, <3>5, ZenonT(60) DEF s, t
  <2>3. ASSUME Good(n) PROVE net' # <<>> /\ \E i \in Nat : i > 1 /\ Piece(net'[1], n, i)
    <3>1. PICK i \in Nat : i > 1 /\ Piece(p, n, i)
      BY <2>1, <2>3, ZenonT(60)
    <3>2. i < Fragments(sent[n].len)
      <4>1. i \in 1..Fragments(sent[n].len) /\ i # Fragments(sent[n].len)
            /\ sent[n].len > RTP_MTU
        BY <1>5, <3>1, ZenonT(60) DEF Piece
      <4> QED BY <1>0, <2>1, <4>1, SentType, FragmentCount
    <3> QED BY <1>2, <2>3, <3>1, <3>2, ZenonT(60)
  <2> QED BY <2>1, <2>2, <2>3, ZenonT(60)
<1>6. \/ StartFragment
      \/ UNCHANGED fuBuffer /\ ~(p.b0 % 32 = FU_A)
      \/ fuBuffer # NoBuffer /\ ~(p.end \/ p.m) /\ fuBuffer' = Joined(fuBuffer, p.body)
  BY <1>1, ZenonT(60) DEF feedRtpPayload, SingleNal, NextFragment
<1> QED BY <1>3, <1>4, <1>5, <1>6, ZenonT(60)

\* The read thread's steps keep the types.
LEMMA FeedTypes ==
    ASSUME NalTypes, feedRtpPayload
    PROVE  NalTypes'
<1>1. /\ UNCHANGED <<sent, whole>> /\ Head(net) = net[1]
      /\ net[1] \in Packet /\ net' \in Seq(Packet)
  BY NextPacket, ZenonT(60)
<1> DEFINE p == net[1]
           U == [hdr : Int, body : Seq(Byte)]
<1>2. p.b0 \in Nat /\ p.type \in Nat /\ p.body \in Seq(Byte)
  BY <1>1, ZenonT(60) DEF Packet
<1>3. fuBuffer \in U /\ assembled \in Seq(U)
  BY ZenonT(60) DEF NalTypes
<1>4. ((p.b0 \div 32) % 4) * 32 + p.type \in Int
  BY <1>2
<1> HIDE DEF p
<1>5. [hdr |-> p.b0, body |-> p.body] \in U
      /\ [hdr |-> ((p.b0 \div 32) % 4) * 32 + p.type, body |-> p.body] \in U
  BY <1>2, <1>4
<1>6. NoBuffer \in U
  BY EmptySeq DEF NoBuffer
<1>7. Joined(fuBuffer, p.body) \in U
  <2>1. fuBuffer.body \in Seq(Byte)
    BY <1>3, ZenonT(60)
  <2>2. fuBuffer.body \o p.body \in Seq(Byte)
    BY <1>2, <2>1, ConcatProperties, ZenonT(60) DEF Byte
  <2> QED BY <1>3, <2>2, ZenonT(60) DEF Joined
<1> HIDE DEF U
<1>8. \A u \in U : Append(assembled, u) \in Seq(U)
  BY <1>3, AppendProperties, ZenonT(60)
<1>9. fuBuffer' \in U /\ assembled' \in Seq(U)
  BY <1>1, <1>3, <1>5, <1>6, <1>7, <1>8, ZenonT(60)
     DEF feedRtpPayload, SingleNal, StartFragment, NextFragment, Complete, p
<1> QED BY <1>1, <1>9, ZenonT(60) DEF NalTypes, U

\* What is appended to assembled is found there.
LEMMA Assembling ==
    ASSUME NalTypes, NEW u, assembled' = Append(assembled, u)
    PROVE  /\ \E i \in DOMAIN assembled' : assembled'[i] = u
           /\ \A i \in DOMAIN assembled : i \in DOMAIN assembled' /\ assembled'[i] = assembled[i]
           /\ \A i \in DOMAIN assembled' : i \in DOMAIN assembled \/ assembled'[i] = u
<1> DEFINE U == [hdr : Int, body : Seq(Byte)]
<1>1. assembled \in Seq(U)
  BY ZenonT(60) DEF NalTypes
<1> HIDE DEF U
<1>2. Len(assembled) \in Nat /\ DOMAIN assembled = 1..Len(assembled)
      /\ DOMAIN assembled' = 1..(Len(assembled) + 1)
      /\ assembled'[Len(assembled) + 1] = u
      /\ \A i \in 1..Len(assembled) : assembled'[i] = assembled[i]
  BY <1>1
<1>3. Len(assembled) + 1 \in DOMAIN assembled'
  BY <1>2
<1>4. \A i \in DOMAIN assembled' : i \in DOMAIN assembled \/ i = Len(assembled) + 1
  BY <1>2
<1> QED BY <1>2, <1>3, <1>4

\* A good unit is put together by its last packet.
LEMMA FeedDelivered ==
    ASSUME NalInv, feedRtpPayload
    PROVE  Delivered'
<1>0. NalTypes /\ Chained /\ Delivered
  BY ZenonT(60) DEF NalInv
<1>1. UNCHANGED <<sent, whole>> /\ Head(net) = net[1]
      /\ 1 \in DOMAIN net /\ DOMAIN net = 1..Len(net)
      /\ Len(net) \in Nat
  BY <1>0, NextPacket, ZenonT(60)
<1> SUFFICES ASSUME NEW n \in whole, Good(n)
             PROVE  \/ \E i \in DOMAIN assembled' :
                         assembled'[i] = Unit(n, sent[n].hdr, sent[n].len)
                    \/ \E x \in DOMAIN net' : net'[x].nal = n
  BY <1>1, SameUnits, ZenonT(60) DEF Delivered
<1>2. CASE \E i \in DOMAIN assembled : assembled[i] = Unit(n, sent[n].hdr, sent[n].len)
  <2>1. assembled' = assembled \/ \E u : assembled' = Append(assembled, u)
    BY ZenonT(60) DEF feedRtpPayload, SingleNal, StartFragment, NextFragment, Complete
  <2> QED BY <1>0, <1>2, <2>1, Assembling, ZenonT(60)
<1>3. ASSUME NEW x \in DOMAIN net, net[x].nal = n, x # 1
      PROVE  \E y \in DOMAIN net' : net'[y].nal = n
  <2>1. x - 1 \in DOMAIN net' /\ (x - 1) + 1 = x
    BY <1>0, <1>1, <1>3, NextPacket
  <2>2. net'[x - 1] = net[x]
    BY <1>0, <2>1, NextPacket, ZenonT(60)
  <2> QED BY <1>3, <2>1, <2>2, ZenonT(60)
<1>4. CASE net[1].nal = n
  <2>1. CASE Single(net[1], n)
    <3>1. assembled' = Append(assembled, Unit(n, sent[n].hdr, sent[n].len))
      BY <1>1, <2>1, ZenonT(60) DEF Single, feedRtpPayload, SingleNal, StartFragment, NextFragment, Complete
    <3> QED BY <1>0, <3>1, Assembling, ZenonT(60)
  <2>2. CASE ~Single(net[1], n)
    <3>1. PICK i \in Nat : Piece(net[1], n, i)
      BY <1>0, <1>1, <1>4, <2>2, ZenonT(60) DEF Chained
    <3>2. i \in 1..Fragments(sent[n].len) /\ sent[n].len > RTP_MTU /\ n \in DOMAIN sent
      BY <3>1, ZenonT(60) DEF Piece
    <3>3. i < Fragments(sent[n].len) \/ i = Fragments(sent[n].len)
      BY <1>0, <3>2, SentType, FragmentCount
    <3>4. CASE i = Fragments(sent[n].len)
      <4>1. assembled' = Append(assembled, Unit(n, sent[n].hdr, sent[n].len))
        BY <3>1, <3>4, Completed, ZenonT(60)
      <4> QED BY <1>0, <4>1, Assembling, ZenonT(60)
    <3>5. CASE i < Fragments(sent[n].len)
      <4>1. 2 \in DOMAIN net /\ Piece(net[2], n, i + 1)
        BY <1>0, <1>1, <3>1, <3>5, ChainAt
      <4>2. net[2].nal = n
        BY <4>1, ZenonT(60) DEF Piece
      <4> QED BY <1>3, <4>1, <4>2
    <3> QED BY <3>3, <3>4, <3>5, ZenonT(60)
  <2> QED BY <2>1, <2>2, ZenonT(60)
<1> QED BY <1>0, <1>2, <1>3, <1>4, ZenonT(60) DEF Delivered

\* What is put together is a unit, or contains a byte of one that is not good.
LEMMA FeedExplained ==
    ASSUME NalInv, feedRtpPayload
    PROVE  Explained'
<1>0. NalTypes /\ Chained /\ Open /\ Explained
  BY ZenonT(60) DEF NalInv
<1>1. UNCHANGED <<sent, whole>> /\ Head(net) = net[1] /\ 1 \in DOMAIN net /\ net[1] \in Packet
  BY <1>0, NextPacket, ZenonT(60)
<1> DEFINE p == net[1]
           Fine(u) == \/ \E n \in DOMAIN sent : u = Unit(n, sent[n].hdr, sent[n].len)
                      \/ \E j \in DOMAIN u.body :
                           u.body[j][1] \in DOMAIN sent /\ ~Good(u.body[j][1])
<1>2. ASSUME 1 + Len(fuBuffer'.body) <= FuSize,
             assembled' = assembled \/ \E u : assembled' = Append(assembled, u) /\ Fine(u)
      PROVE  Explained'
  <2>1. \A i \in DOMAIN assembled : Fine(assembled[i])
    BY <1>0, ZenonT(60) DEF Explained
  <2>2. \A i \in DOMAIN assembled' : Fine(assembled'[i])
    <3>1. CASE assembled' = assembled
      BY <2>1, <3>1, ZenonT(60)
    <3>2. CASE \E u : assembled' = Append(assembled, u) /\ Fine(u)
      <4> HIDE DEF Fine
      <4> QED BY <1>0, <2>1, <3>2, Assembling, ZenonT(60)
    <3> QED BY <1>2, <3>1, <3>2, ZenonT(60)
  <2> QED BY <1>1, <1>2, <2>2, SameUnits, ZenonT(60) DEF Explained
<1>3. 1 + Len(NoBuffer.body) <= FuSize
  BY NalStreamAssumption, EmptySeq DEF NoBuffer
<1>4. CASE SingleNal
  <2>1. p.b0 % 32 # FU_A /\ UNCHANGED fuBuffer
        /\ assembled' = Append(assembled, [hdr |-> p.b0, body |-> p.body])
    BY <1>1, <1>4, ZenonT(60) DEF SingleNal, Complete
  <2>2. Single(p, p.nal)
    BY <1>0, <1>1, <2>1, ZenonT(60) DEF Chained, Piece
  <2>3. Fine([hdr |-> p.b0, body |-> p.body])
    BY <2>2, ZenonT(60) DEF Single
  <2> QED BY <1>0, <1>2, <2>1, <2>3, ZenonT(60) DEF Explained
<1>5. CASE StartFragment
  <2>1. p.b0 % 32 = FU_A /\ p.start /\ fuBuffer'.body = p.body /\ assembled' = assembled
    BY <1>1, <1>5, ZenonT(60) DEF StartFragment
  <2>2. PICK i \in Nat : Piece(p, p.nal, i)
    BY <1>0, <1>1, <2>1, ZenonT(60) DEF Chained, Single
  <2> DEFINE n == p.nal
             len == sent[n].len
             a == Carried(i - 1)
             b == UpTo(len, i)
  <2>3. n \in DOMAIN sent /\ len > RTP_MTU /\ i \in 1..Fragments(len) /\ p.body = Bytes(n, a, b)
    BY <2>2, ZenonT(60) DEF Piece
  <2>4. n \in Nat /\ len \in Nat
    BY <1>0, <2>3, SentType, ZenonT(60)
  <2>5. a \in Nat /\ b \in Nat /\ a <= b /\ b <= a + Chunk
    BY <2>3, <2>4, Cut
  <2> HIDE DEF a, b
  <2>6. Len(p.body) = b - a
    <3>1. Len(Bytes(n, a, b)) = b - a
      BY <2>4, <2>5, BytesJoin, ZenonT(60)
    <3> QED BY <2>3, <3>1
  <2>7. 1 + Chunk <= FuSize /\ Chunk \in Nat /\ FuSize \in Nat
    BY NalStreamAssumption DEF Chunk
  <2>8. 1 + Len(fuBuffer'.body) <= FuSize
    BY <2>1, <2>5, <2>6, <2>7
  <2> QED BY <1>2, <2>1, <2>8, ZenonT(60)
<1>6. CASE NextFragment
  <2>1. CASE UNCHANGED <<fuBuffer, assembled>>
    BY <1>0, <1>2, <2>1, ZenonT(60) DEF Explained
  <2>2. CASE fuBuffer' = Joined(fuBuffer, p.body) /\ assembled' = assembled
    <3>1. fuBuffer \in [hdr : Int, body : Seq(Byte)] /\ p.body \in Seq(Byte)
      BY <1>0, <1>1, ZenonT(60) DEF NalTypes, Packet
    <3>2. Len(fuBuffer.body \o p.body) = Len(fuBuffer.body) + Len(p.body)
      BY <3>1, ConcatProperties DEF Byte
    <3>3. Len(fuBuffer.body) \in Nat /\ Len(p.body) \in Nat /\ FuSize \in Nat
      BY <3>1, LenProperties, NalStreamAssumption, ZenonT(60)
    <3>4. 1 + Len(fuBuffer'.body) <= FuSize
      <4>1. CASE 1 + Len(fuBuffer.body) + Len(p.body) <= FuSize
        <5>1. fuBuffer'.body = fuBuffer.body \o p.body
          BY <2>2, <3>1, <4>1, ZenonT(60) DEF Joined
        <5> DEFINE k == Len(fuBuffer.body)
                   l == Len(p.body)
        <5>2. 1 + (Len(fuBuffer.body) + Len(p.body)) <= FuSize
          <6>1. k \in Nat /\ l \in Nat /\ FuSize \in Nat /\ 1 + k + l <= FuSize
            BY <3>3, <4>1, ZenonT(60)
          <6> HIDE DEF k, l
          <6>2. 1 + (k + l) <= FuSize
            BY <6>1
          <6> QED BY <6>2, ZenonT(60) DEF k, l
        <5> QED BY <3>2, <5>1, <5>2, ZenonT(60)
      <4>2. CASE ~(1 + Len(fuBuffer.body) + Len(p.body) <= FuSize)
        BY <1>0, <2>2, <4>2, ZenonT(60) DEF Joined, Explained
      <4> QED BY <4>1, <4>2, ZenonT(60)
    <3> QED BY <1>2, <2>2, <3>4, ZenonT(60)
  <2>3. CASE /\ fuBuffer # NoBuffer /\ (p.end \/ p.m) /\ fuBuffer' = NoBuffer
             /\ assembled' = Append(assembled, Joined(fuBuffer, p.body))
    <3> DEFINE n == fuBuffer.body[1][1]
               u == Joined(fuBuffer, p.body)
    <3>1. fuBuffer.body # <<>> /\ n \in DOMAIN sent
          /\ (Good(n) => \E i \in Nat : i > 1 /\ Piece(p, n, i))
      BY <1>0, <2>3, ZenonT(60) DEF Open
    <3>2. CASE Good(n)
      <4>1. PICK i \in Nat : i > 1 /\ Piece(p, n, i)
        BY <3>1, <3>2, ZenonT(60)
      <4>2. i = Fragments(sent[n].len)
        BY <2>3, <4>1, ZenonT(60) DEF Piece
      <4>3. assembled' = Append(assembled, Unit(n, sent[n].hdr, sent[n].len))
        BY <3>2, <4>1, <4>2, Completed, ZenonT(60)
      <4>4. Fine(Unit(n, sent[n].hdr, sent[n].len))
        BY <3>1, ZenonT(60)
      <4> QED BY <1>2, <1>3, <2>3, <4>3, <4>4, ZenonT(60)
    <3>3. CASE ~Good(n)
      <4>1. fuBuffer \in [hdr : Int, body : Seq(Byte)] /\ p.body \in Seq(Byte)
        BY <1>0, <1>1, ZenonT(60) DEF NalTypes, Packet
      <4>2. u.body \in {fuBuffer.body, fuBuffer.body \o p.body}
        BY <4>1, ZenonT(60) DEF Joined
      <4> DEFINE s == fuBuffer.body
                 t == p.body
      <4>3. s \in Seq(Byte) /\ t \in Seq(Byte) /\ s # <<>>
        BY <3>1, <4>1, ZenonT(60)
      <4> HIDE DEF s, t, Byte
      <4>4. Len(s) \in Nat /\ Len(s) # 0 /\ Len(t) \in Nat /\ DOMAIN s = 1..Len(s)
        BY <4>3, LenProperties, EmptySeq, ZenonT(60)
      <4>5. (s \o t)[1] = s[1] /\ 1 \in DOMAIN s /\ 1 \in DOMAIN (s \o t)
        BY <4>3, <4>4, ConcatProperties, LenProperties
      <4>6. 1 \in DOMAIN u.body /\ u.body[1] = fuBuffer.body[1]
        BY <4>2, <4>5, ZenonT(60) DEF s, t
      <4>7. Fine(u)
        BY <3>1, <3>3, <4>6, ZenonT(60)
      <4> HIDE DEF u, Fine
      <4> QED BY <1>2, <1>3, <2>3, <4>7, ZenonT(60) DEF u
    <3> QED BY <3>2, <3>3, ZenonT(60)
  <2> QED BY <1>1, <1>6, <2>1, <2>2, <2>3, ZenonT(60) DEF NextFragment, Complete
<1> QED BY <1>4, <1>5, <1>6, ZenonT(60) DEF feedRtpPayload
----------------------------------------------------------------------------
(* A unit is sent.                                                         *)

\* The packets of a unit of one packet.
LEMMA OnePacket ==
    ASSUME NEW n \in Nat, NEW hdr \in Headers, NEW len \in NalLens, NEW last \in BOOLEAN,
           len <= RTP_MTU, sent'[n] = [hdr |-> hdr, len |-> len], n \in DOMAIN sent'
    PROVE  /\ Packets(n, hdr, len, last) \in Seq(Packet)
           /\ Len(Packets(n, hdr, len, last)) = 1
           /\ Single(Packets(n, hdr, len, last)[1], n)'
<1> DEFINE p == [nal |-> n, b0 |-> hdr, type |-> 0, start |-> FALSE, end |-> FALSE, m |-> last,
                 body |-> Unit(n, hdr, len).body]
<1>1. Packets(n, hdr, len, last) = <<p>>
  BY ZenonT(60) DEF Packets
<1>2. len \in Nat /\ len > 0
  BY NalStreamAssumption
<1>3. Unit(n, hdr, len) = [hdr |-> hdr, body |-> Bytes(n, 0, len - 1)]
  BY <1>2, UnitBody, ZenonT(60)
<1>4. Bytes(n, 0, len - 1) \in Seq(Byte)
  <2>1. 0 \in Nat /\ len - 1 \in Nat /\ 0 <= len - 1
    BY <1>2
  <2> QED BY <2>1, BytesJoin, ZenonT(60) DEF Byte
<1>5. hdr \in Nat /\ hdr % 32 # FU_A
  BY HeaderBack, ZenonT(60)
<1>6. p \in Packet
  BY <1>3, <1>4, <1>5 DEF Packet
<1>7. Single(p, n)'
  BY <1>3, <1>5 DEF Single
<1> HIDE DEF p
<1> QED BY <1>1, <1>6, <1>7

\* The packets of a longer unit.
LEMMA ManyPackets ==
    ASSUME NEW n \in Nat, NEW hdr \in Headers, NEW len \in NalLens, NEW last \in BOOLEAN,
           len > RTP_MTU, sent'[n] = [hdr |-> hdr, len |-> len], n \in DOMAIN sent'
    PROVE  /\ Packets(n, hdr, len, last) \in Seq(Packet)
           /\ Len(Packets(n, hdr, len, last)) = Fragments(len)
           /\ \A i \in 1..Fragments(len) : Piece(Packets(n, hdr, len, last)[i], n, i)'
<1> DEFINE ps == Packets(n, hdr, len, last)
<1>1. len \in Nat /\ len > 0 /\ ~(len <= RTP_MTU)
  BY NalStreamAssumption
<1>2. ps = [i \in 1..Fragments(len) |-> Fragment(n, hdr, len, i, last)]
  BY <1>1, ZenonT(60) DEF Packets
<1>3. Fragments(len) \in Nat
  BY <1>1, FragmentCount, ZenonT(60)
<1>4. ASSUME NEW i \in 1..Fragments(len)
      PROVE  /\ Fragment(n, hdr, len, i, last) \in Packet
             /\ Piece(Fragment(n, hdr, len, i, last), n, i)'
  <2> DEFINE p == Fragment(n, hdr, len, i, last)
             b0 == (hdr \div 32) * 32 + FU_A
  <2> DEFINE st == i = 1
             en == i = Fragments(len)
             mk == en /\ last
             bo == SubSeq(Unit(n, hdr, len).body, (i - 1) * Chunk + 1,
                          IF en THEN len - 1 ELSE (i - 1) * Chunk + 1 + Chunk - 1)
  <2>1. p = [nal |-> n, b0 |-> b0, type |-> hdr % 32, start |-> st, end |-> en, m |-> mk,
             body |-> bo]
    BY ZenonT(60) DEF Fragment
  <2>10. st \in BOOLEAN /\ en \in BOOLEAN /\ mk \in BOOLEAN /\ (mk => en)
         /\ (st <=> i = 1) /\ (en <=> i = Fragments(len))
    BY ZenonT(60)
  <2>2. hdr \in Nat /\ b0 \in Nat /\ b0 % 32 = FU_A /\ ((b0 \div 32) % 4) * 32 + (hdr % 32) = hdr
    BY HeaderBack, ZenonT(60)
  <2>3. hdr % 32 \in Nat
    BY <2>2
  <2>4. p.body = Bytes(n, Carried(i - 1), UpTo(len, i))
    BY <1>1, <1>4, FragmentBody
  <2>5. p.body \in Seq(Byte)
    <3>1. Carried(i - 1) \in Nat /\ UpTo(len, i) \in Nat /\ Carried(i - 1) <= UpTo(len, i)
      BY <1>1, <1>4, Cut
    <3>2. Bytes(n, Carried(i - 1), UpTo(len, i)) \in Seq(Byte)
      BY <3>1, BytesJoin, ZenonT(60) DEF Byte
    <3> QED BY <2>4, <3>2, ZenonT(60)
  <2> HIDE DEF p, b0, st, en, mk, bo
  <2>11. bo = p.body
    BY <2>1, ZenonT(60)
  <2>6. p \in Packet
    BY <2>1, <2>2, <2>3, <2>5, <2>10, <2>11, ZenonT(60) DEF Packet
  <2>7. sent'[n].len = len /\ sent'[n].hdr = hdr
    OBVIOUS
  <2>8. /\ p.nal = n /\ p.b0 = b0 /\ p.type = hdr % 32 /\ (p.start <=> i = 1)
        /\ (p.end <=> i = Fragments(len)) /\ (p.m => i = Fragments(len))
    BY <2>1, <2>10, ZenonT(60)
  <2>9. Piece(p, n, i)'
    BY <2>2, <2>4, <2>7, <2>8, ZenonT(60) DEF Piece
  <2> QED BY <2>6, <2>9, ZenonT(60) DEF p
<1>5. ps \in Seq(Packet) /\ Len(ps) = Fragments(len)
  BY <1>2, <1>3, <1>4
<1>6. \A i \in 1..Fragments(len) : ps[i] = Fragment(n, hdr, len, i, last)
  BY <1>2, ZenonT(60)
<1> HIDE DEF ps
<1>7. \A i \in 1..Fragments(len) : Piece(ps[i], n, i)'
  BY <1>4, <1>6, ZenonT(60)
<1> QED BY <1>5, <1>7, ZenonT(60) DEF ps

\* Sending the n-th unit.
Sends(n, hdr, len, last) ==
    \E taken \in Surviving(Len(Packets(n, hdr, len, last))) :
      LET ps == Packets(n, hdr, len, last)
          out == [i \in DOMAIN taken |-> ps[taken[i]]]
      IN  /\ sent' = Append(sent, [hdr |-> hdr, len |-> len])
          /\ whole' = IF out = ps THEN whole \cup {n} ELSE whole
          /\ net' = net \o out

\* Unit n is sent as the packets ps, of which out are not lost.
SentAs(n, hdr, len, out, ps) ==
    /\ n = Len(sent) + 1
    /\ sent' = Append(sent, [hdr |-> hdr, len |-> len])
    /\ whole' = IF out = ps THEN whole \cup {n} ELSE whole
    /\ net' = net \o out
    /\ len > 0 /\ Len(ps) >= 1
    /\ \A x \in DOMAIN out : \E k \in DOMAIN ps : out[x] = ps[k]
    /\ len <= RTP_MTU => \A k \in DOMAIN ps : Single(ps[k], n)'
    /\ len > RTP_MTU => /\ DOMAIN ps = 1..Fragments(len)
                        /\ \A k \in DOMAIN ps : Piece(ps[k], n, k)'

\* Sending: the next unit n, its packets and those the queue takes.
LEMMA Sending ==
    ASSUME NalTypes, send_h264_nalu_to_client
    PROVE  \E n \in Nat, hdr \in Headers, len \in NalLens, out, ps \in Seq(Packet) :
             SentAs(n, hdr, len, out, ps)
<1>0. PICK n \in Nat :
        /\ n = Len(sent) + 1
        /\ \E hdr \in Headers, len \in NalLens, last \in BOOLEAN : Sends(n, hdr, len, last)
  <2>1. Len(sent) + 1 \in Nat
    BY SentType
  <2>2. \E hdr \in Headers, len \in NalLens, last \in BOOLEAN :
          Sends(Len(sent) + 1, hdr, len, last)
    BY ZenonT(60) DEF send_h264_nalu_to_client, Sends
  <2> QED BY <2>1, <2>2, ZenonT(60)
<1>1. PICK hdr \in Headers, len \in NalLens, last \in BOOLEAN : Sends(n, hdr, len, last)
  BY <1>0, ZenonT(60)
<1> DEFINE ps == Packets(n, hdr, len, last)
<1>2. PICK taken \in Surviving(Len(ps)) :
        /\ sent' = Append(sent, [hdr |-> hdr, len |-> len])
        /\ whole' = IF [i \in DOMAIN taken |-> ps[taken[i]]] = ps
                    THEN whole \cup {n} ELSE whole
        /\ net' = net \o [i \in DOMAIN taken |-> ps[taken[i]]]
  BY <1>1, ZenonT(60) DEF Sends
<1> DEFINE out == [i \in DOMAIN taken |-> ps[taken[i]]]
<1>3. Len(sent) \in Nat /\ n \in Nat /\ n \in DOMAIN sent' /\ sent'[n] = [hdr |-> hdr, len |-> len]
  <2>1. sent \in Seq([hdr : Headers, len : NalLens]) /\ Len(sent) \in Nat
    BY SentType, ZenonT(60) DEF NalTypes
  <2>2. DOMAIN sent' = 1..n /\ sent'[n] = [hdr |-> hdr, len |-> len]
    BY <1>0, <1>2, <2>1
  <2> QED BY <1>0, <2>1, <2>2
<1>4. len \in Nat /\ len > 0 /\ RTP_MTU \in Nat
  BY NalStreamAssumption
<1>5. /\ ps \in Seq(Packet) /\ Len(ps) >= 1 /\ Len(ps) \in Nat /\ DOMAIN ps = 1..Len(ps)
      /\ len <= RTP_MTU => Len(ps) = 1 /\ Single(ps[1], n)'
      /\ len > RTP_MTU => /\ Len(ps) = Fragments(len)
                          /\ \A k \in 1..Fragments(len) : Piece(ps[k], n, k)'
  <2>1. CASE len <= RTP_MTU
    <3>1. ps \in Seq(Packet) /\ Len(ps) = 1 /\ Single(ps[1], n)'
      BY <1>3, <2>1, OnePacket, ZenonT(60)
    <3> HIDE DEF ps, Packet
    <3> QED BY <1>4, <2>1, <3>1, LenProperties
  <2>2. CASE ~(len <= RTP_MTU)
    <3>1. len > RTP_MTU
      BY <1>4, <2>2
    <3>2. /\ ps \in Seq(Packet) /\ Len(ps) = Fragments(len)
          /\ \A k \in 1..Fragments(len) : Piece(ps[k], n, k)'
      BY <1>3, <3>1, ManyPackets, ZenonT(60)
    <3>3. Fragments(len) \in Nat /\ Fragments(len) >= 2
      BY <1>4, <3>1, FragmentCount, ZenonT(60)
    <3> HIDE DEF ps, Packet
    <3> QED BY <2>2, <3>2, <3>3, LenProperties
  <2> QED BY <2>1, <2>2, ZenonT(60)
<1>6. \A k \in DOMAIN ps : len <= RTP_MTU => Single(ps[k], n)'
  <2> HIDE DEF ps
  <2>1. len <= RTP_MTU => DOMAIN ps = {1}
    BY <1>5
  <2> QED BY <1>5, <2>1, ZenonT(60)
<1>7. PICK m \in 0..Len(ps) : taken \in [1..m -> 1..Len(ps)]
  <2> HIDE DEF ps
  <2> QED BY <1>2, ZenonT(60) DEF Surviving
<1>8. out \in Seq(Packet) /\ \A x \in DOMAIN out : \E k \in DOMAIN ps : out[x] = ps[k]
  <2> HIDE DEF ps, Packet
  <2>1. m \in Nat /\ DOMAIN taken = 1..m /\ \A i \in 1..m : taken[i] \in DOMAIN ps
    BY <1>5, <1>7
  <2>2. \A k \in DOMAIN ps : ps[k] \in Packet
    BY <1>5
  <2>3. \A i \in 1..m : ps[taken[i]] \in Packet
    BY <2>1, <2>2, ZenonT(60)
  <2> QED BY <2>1, <2>3
<1>9. \/ out = ps /\ whole' = whole \cup {n}
      \/ out # ps /\ whole' = whole
  BY <1>2, ZenonT(60)
<1>10. net' = net \o out /\ sent' = Append(sent, [hdr |-> hdr, len |-> len])
  BY <1>2, ZenonT(60)
<1> HIDE DEF ps, out
<1>11. len > RTP_MTU => DOMAIN ps = 1..Fragments(len) /\ \A k \in DOMAIN ps : Piece(ps[k], n, k)'
  BY <1>5, ZenonT(60)
<1>12. whole' = IF out = ps THEN whole \cup {n} ELSE whole
  BY <1>9, ZenonT(60)
<1>13. len > 0 /\ Len(ps) >= 1 /\ ps \in Seq(Packet) /\ out \in Seq(Packet)
  BY <1>4, <1>5, <1>8, ZenonT(60)
<1>14. SentAs(n, hdr, len, out, ps)
  BY <1>0, <1>6, <1>8, <1>10, <1>11, <1>12, <1>13, ZenonT(60) DEF SentAs
<1> QED BY <1>13, <1>14, ZenonT(60)

\* One more unit changes nothing of what is said of the others.
LEMMA OldUnits ==
    ASSUME NalTypes, NEW n \in Nat, n = Len(sent) + 1, NEW hdr \in Headers, NEW len \in NalLens,
           sent' = Append(sent, [hdr |-> hdr, len |-> len]),
           whole' = whole \/ whole' = whole \cup {n}
    PROVE  /\ sent' \in Seq([hdr : Headers, len : NalLens]) /\ whole' \subseteq DOMAIN sent'
           /\ n \in DOMAIN sent' /\ n \notin DOMAIN sent /\ sent'[n] = [hdr |-> hdr, len |-> len]
           /\ \A m \in DOMAIN sent : m \in DOMAIN sent' /\ sent'[m] = sent[m]
           /\ \A p, m : Single(p, m) => Single(p, m)'
           /\ \A p, m, i : Piece(p, m, i) => Piece(p, m, i)'
           /\ \A m \in DOMAIN sent : Good(m)' <=> Good(m)
           /\ \A m \in DOMAIN sent : \A i : Prefix(m, i)' = Prefix(m, i)
<1>1. /\ sent \in Seq([hdr : Headers, len : NalLens]) /\ whole \subseteq DOMAIN sent
      /\ Len(sent) \in Nat /\ DOMAIN sent = 1..Len(sent)
  BY SentType, ZenonT(60) DEF NalTypes
<1>2. /\ sent' \in Seq([hdr : Headers, len : NalLens])
      /\ DOMAIN sent' = 1..n /\ sent'[n] = [hdr |-> hdr, len |-> len]
      /\ \A m \in 1..Len(sent) : sent'[m] = sent[m]
  BY <1>1
<1>3. n \in DOMAIN sent' /\ n \notin DOMAIN sent
  BY <1>1, <1>2
<1>4. \A m \in DOMAIN sent : m \in DOMAIN sent' /\ sent'[m] = sent[m] /\ m # n
  BY <1>1, <1>2
<1>5. whole' \subseteq DOMAIN sent'
  BY <1>1, <1>3, <1>4, ZenonT(60)
<1>6. \A p, m : Single(p, m) => Single(p, m)'
  BY <1>4, ZenonT(60) DEF Single
<1>7. \A p, m, i : Piece(p, m, i) => Piece(p, m, i)'
  BY <1>4 DEF Piece
<1>8. \A m \in DOMAIN sent : Good(m)' <=> Good(m)
  BY <1>4, ZenonT(60) DEF Good
<1>9. \A m \in DOMAIN sent : \A i : Prefix(m, i)' = Prefix(m, i)
  BY <1>4, ZenonT(60) DEF Prefix
<1> QED BY <1>2, <1>3, <1>4, <1>5, <1>6, <1>7, <1>8, <1>9, ZenonT(60)

\* The entries of c are those of a, and then those of b.
Followed(a, b, c) ==
    /\ c \in Seq(Packet) /\ Len(a) \in Nat /\ Len(b) \in Nat
    /\ DOMAIN a = 1..Len(a) /\ DOMAIN b = 1..Len(b) /\ DOMAIN c = 1..(Len(a) + Len(b))
    /\ \A x \in DOMAIN a : x \in DOMAIN c /\ c[x] = a[x]
    /\ \A k \in DOMAIN b : Len(a) + k \in DOMAIN c /\ c[Len(a) + k] = b[k]
    /\ \A x \in DOMAIN c : \/ x \in DOMAIN a
                           \/ \E k \in DOMAIN b : x = Len(a) + k

\* What a send leaves under way: the packets of before, and then some of the unit's own.
LEMMA Joining ==
    ASSUME NEW a \in Seq(Packet), NEW b \in Seq(Packet)
    PROVE  Followed(a, b, a \o b)
<1> DEFINE c == a \o b
<1>1. /\ c \in Seq(Packet) /\ Len(c) = Len(a) + Len(b)
      /\ \A i \in 1..(Len(a) + Len(b)) : c[i] = IF i <= Len(a) THEN a[i] ELSE b[i - Len(a)]
  BY ConcatProperties, ZenonT(60)
<1>2. Len(a) \in Nat /\ Len(b) \in Nat /\ DOMAIN a = 1..Len(a) /\ DOMAIN b = 1..Len(b)
      /\ DOMAIN c = 1..Len(c)
  BY <1>1, LenProperties, ZenonT(60)
<1> DEFINE la == Len(a)
           lb == Len(b)
<1> HIDE DEF la, lb, c
<1>3. /\ la \in Nat /\ lb \in Nat /\ DOMAIN a = 1..la /\ DOMAIN b = 1..lb
      /\ DOMAIN c = 1..(la + lb)
      /\ \A i \in 1..(la + lb) : c[i] = IF i <= la THEN a[i] ELSE b[i - la]
  BY <1>1, <1>2, ZenonT(60) DEF la, lb
<1>4. \A x \in DOMAIN a : x \in DOMAIN c /\ c[x] = a[x]
  BY <1>3
<1>5. ASSUME NEW k \in DOMAIN b PROVE la + k \in DOMAIN c /\ c[la + k] = b[k]
  <2>1. k \in Nat /\ k >= 1 /\ k <= lb /\ la + k \in 1..(la + lb) /\ la + k > la /\ la + k - la = k
    BY <1>3
  <2> QED BY <1>3, <2>1
<1>6. ASSUME NEW x \in DOMAIN c, x \notin DOMAIN a PROVE \E k \in DOMAIN b : x = la + k
  <2>1. x - la \in DOMAIN b /\ x = la + (x - la)
    BY <1>3, <1>6
  <2> QED BY <2>1, ZenonT(60)
<1>7. Followed(a, b, c)
  BY <1>1, <1>3, <1>4, <1>5, <1>6, ZenonT(60) DEF la, lb, Followed
<1> QED BY <1>7, ZenonT(60) DEF c

\* The chain is continued by what is sent.
LEMMA SendChained ==
    ASSUME NalInv, send_h264_nalu_to_client
    PROVE  Chained'
<1>0. NalTypes /\ Chained /\ net \in Seq(Packet) /\ fuBuffer' = fuBuffer
  BY ZenonT(60) DEF NalInv, NalTypes, send_h264_nalu_to_client
<1>p. PICK n \in Nat, hdr \in Headers, len \in NalLens, out, ps \in Seq(Packet) :
        SentAs(n, hdr, len, out, ps)
  BY <1>0, Sending, ZenonT(60)
<1>1. /\ n = Len(sent) + 1
      /\ sent' = Append(sent, [hdr |-> hdr, len |-> len])
      /\ whole' = IF out = ps THEN whole \cup {n} ELSE whole
      /\ net' = net \o out
      /\ \A x \in DOMAIN out : \E k \in DOMAIN ps : out[x] = ps[k]
      /\ len <= RTP_MTU => \A k \in DOMAIN ps : Single(ps[k], n)'
      /\ len > RTP_MTU => /\ DOMAIN ps = 1..Fragments(len)
                          /\ \A k \in DOMAIN ps : Piece(ps[k], n, k)'
  BY <1>p, ZenonT(60) DEF SentAs
<1>2. whole' = whole \/ whole' = whole \cup {n}
  BY <1>1, ZenonT(60)
<1>3. /\ n \notin DOMAIN sent /\ sent'[n] = [hdr |-> hdr, len |-> len]
      /\ \A m \in DOMAIN sent : m \in DOMAIN sent' /\ sent'[m] = sent[m]
      /\ \A p, m : Single(p, m) => Single(p, m)'
      /\ \A p, m, i : Piece(p, m, i) => Piece(p, m, i)'
      /\ \A m \in DOMAIN sent : Good(m)' <=> Good(m)
      /\ \A m \in DOMAIN sent : \A i : Prefix(m, i)' = Prefix(m, i)
  BY <1>0, <1>1, <1>2, OldUnits, ZenonT(60)
<1>4. /\ Len(net) \in Nat /\ Len(out) \in Nat
      /\ DOMAIN net = 1..Len(net) /\ DOMAIN out = 1..Len(out)
      /\ DOMAIN net' = 1..(Len(net) + Len(out))
      /\ \A x \in DOMAIN net : x \in DOMAIN net' /\ net'[x] = net[x]
      /\ \A k \in DOMAIN out : Len(net) + k \in DOMAIN net' /\ net'[Len(net) + k] = out[k]
      /\ \A x \in DOMAIN net' : \/ x \in DOMAIN net
                                \/ \E k \in DOMAIN out : x = Len(net) + k
  <2>1. net' = net \o out
    BY <1>1, ZenonT(60)
  <2>2. Followed(net, out, net')
    BY <1>0, <2>1, Joining, ZenonT(60)
  <2> QED BY <2>2, ZenonT(60) DEF Followed
<1> SUFFICES ASSUME NEW x \in DOMAIN net', NEW m, m = net'[x].nal
             PROVE  \/ Single(net[x], m)'
                    \/ \E i \in Nat :
                         /\ Piece(net[x], m, i)'
                         /\ Good(m)' =>
                              /\ i < Fragments(sent'[m].len)
                                 => x + 1 \in DOMAIN net' /\ Piece(net[x + 1], m, i + 1)'
                              /\ i > 1 => IF x = 1 THEN fuBuffer' = Prefix(m, i - 1)'
                                          ELSE Piece(net[x - 1], m, i - 1)'
  BY ZenonT(60) DEF Chained
<1>5. CASE x \in DOMAIN net
  <2>1. net'[x] = net[x] /\ m = net[x].nal
    BY <1>4, <1>5, ZenonT(60)
  <2>2. CASE Single(net[x], m)
    BY <1>3, <2>1, <2>2, ZenonT(60)
  <2>3. CASE \E i \in Nat :
               /\ Piece(net[x], m, i)
               /\ Good(m) =>
                    /\ i < Fragments(sent[m].len)
                       => x + 1 \in DOMAIN net /\ Piece(net[x + 1], m, i + 1)
                    /\ i > 1 => IF x = 1 THEN fuBuffer = Prefix(m, i - 1)
                                ELSE Piece(net[x - 1], m, i - 1)
    <3>1. PICK i \in Nat :
               /\ Piece(net[x], m, i)
               /\ Good(m) =>
                    /\ i < Fragments(sent[m].len)
                       => x + 1 \in DOMAIN net /\ Piece(net[x + 1], m, i + 1)
                    /\ i > 1 => IF x = 1 THEN fuBuffer = Prefix(m, i - 1)
                                ELSE Piece(net[x - 1], m, i - 1)
      BY <2>3, ZenonT(60)
    <3>2. m \in DOMAIN sent /\ sent'[m] = sent[m] /\ (Good(m)' <=> Good(m))
      BY <1>3, <3>1, ZenonT(60) DEF Piece
    <3>3. x # 1 => x - 1 \in DOMAIN net /\ net'[x - 1] = net[x - 1]
      BY <1>4, <1>5
    <3>4. Piece(net[x], m, i)'
      BY <1>3, <2>1, <3>1, ZenonT(60)
    <3>5. ASSUME Good(m), i < Fragments(sent[m].len)
          PROVE  x + 1 \in DOMAIN net' /\ Piece(net[x + 1], m, i + 1)'
      <4>1. x + 1 \in DOMAIN net /\ Piece(net[x + 1], m, i + 1)
        BY <3>1, <3>5, ZenonT(60)
      <4>2. x + 1 \in DOMAIN net' /\ net'[x + 1] = net[x + 1]
        BY <1>4, <4>1, ZenonT(60)
      <4> QED BY <1>3, <4>1, <4>2, ZenonT(60)
    <3>6. ASSUME Good(m), i > 1, x = 1 PROVE fuBuffer' = Prefix(m, i - 1)'
      BY <1>0, <1>3, <3>1, <3>2, <3>6, ZenonT(60)
    <3>7. ASSUME Good(m), i > 1, x # 1 PROVE Piece(net[x - 1], m, i - 1)'
      BY <1>3, <3>1, <3>3, <3>7, ZenonT(60)
    <3> QED BY <3>2, <3>4, <3>5, <3>6, <3>7, ZenonT(60)
  <2> QED BY <1>0, <1>5, <2>1, <2>2, <2>3, ZenonT(60) DEF Chained
<1>6. CASE x \notin DOMAIN net
  <2>1. PICK k \in DOMAIN out : x = Len(net) + k
    BY <1>4, <1>6, ZenonT(60)
  <2>2. net'[x] = out[k] /\ k \in Nat /\ k >= 1
    BY <1>4, <2>1
  <2>3. PICK j \in DOMAIN ps : out[k] = ps[j]
    BY <1>1, ZenonT(60)
  <2>4. CASE len <= RTP_MTU
    <3>1. Single(ps[j], n)'
      BY <1>1, <2>4, ZenonT(60)
    <3>2. ps[j].nal = n
      BY <3>1, ZenonT(60) DEF Single
    <3> QED BY <2>2, <2>3, <3>1, <3>2, ZenonT(60)
  <2>5. CASE len > RTP_MTU /\ out # ps
    <3>1. Piece(ps[j], n, j)' /\ j \in Nat
      <4>1. j \in 1..Fragments(len)
        BY <1>1, <2>5, ZenonT(60)
      <4> QED BY <1>1, <2>5, <4>1
    <3>2. ps[j].nal = n
      BY <3>1, ZenonT(60) DEF Piece
    <3>3. ~Good(n)'
      <4>1. n \notin whole'
        BY <1>0, <1>1, <1>3, <2>5, ZenonT(60) DEF NalTypes
      <4> QED BY <4>1, ZenonT(60) DEF Good
    <3> QED BY <2>2, <2>3, <3>1, <3>2, <3>3, ZenonT(60)
  <2>6. CASE len > RTP_MTU /\ out = ps
    <3>1. /\ Piece(ps[k], n, k)' /\ DOMAIN ps = 1..Fragments(len)
          /\ \A q \in 1..Fragments(len) : Piece(ps[q], n, q)'
      BY <1>1, <2>6, ZenonT(60)
    <3>2. ps[k].nal = n /\ m = n
      <4>1. ps[k].nal = n
        BY <3>1, ZenonT(60) DEF Piece
      <4> QED BY <2>2, <2>6, <4>1, ZenonT(60)
    <3>3. sent'[m].len = len /\ Fragments(len) \in Nat /\ Len(out) = Fragments(len)
      <4>1. len \in Nat /\ len > 0
        BY NalStreamAssumption
      <4>2. Fragments(len) \in Nat
        BY <2>6, <4>1, FragmentCount, ZenonT(60)
      <4>3. Len(out) = Fragments(len)
        BY <1>4, <2>6, <3>1, <4>2
      <4> QED BY <1>3, <3>2, <4>2, <4>3
    <3>4. ASSUME k < Fragments(len)
          PROVE  x + 1 \in DOMAIN net' /\ Piece(net[x + 1], m, k + 1)'
      <4>1. k + 1 \in DOMAIN out /\ x + 1 = Len(net) + (k + 1)
        BY <1>4, <2>1, <2>2, <3>3, <3>4
      <4>2. x + 1 \in DOMAIN net' /\ net'[x + 1] = ps[k + 1]
        BY <1>4, <2>6, <4>1
      <4> QED BY <2>6, <3>1, <3>2, <4>1, <4>2, ZenonT(60)
    <3>5. ASSUME k > 1 PROVE x # 1 /\ Piece(net[x - 1], m, k - 1)'
      <4>1. k - 1 \in DOMAIN out /\ x - 1 = Len(net) + (k - 1) /\ x # 1
        BY <1>4, <2>1, <2>2, <3>5
      <4>2. net'[x - 1] = ps[k - 1]
        BY <1>4, <2>6, <4>1, ZenonT(60)
      <4> QED BY <2>6, <3>1, <3>2, <4>1, <4>2, ZenonT(60)
    <3> QED BY <2>2, <2>6, <3>1, <3>2, <3>3, <3>4, <3>5, ZenonT(60)
  <2>7. len \in Nat /\ RTP_MTU \in Nat
    BY NalStreamAssumption, ZenonT(60)
  <2> QED BY <2>4, <2>5, <2>6, <2>7
<1> QED BY <1>5, <1>6, ZenonT(60)

\* The rest of the invariant, for a send.
LEMMA SendRest ==
    ASSUME NalInv, send_h264_nalu_to_client
    PROVE  NalTypes' /\ Open' /\ Delivered' /\ Explained'
<1>0. /\ NalTypes /\ Open /\ Delivered /\ Explained /\ net \in Seq(Packet)
      /\ UNCHANGED <<fuBuffer, assembled>>
  BY ZenonT(60) DEF NalInv, NalTypes, send_h264_nalu_to_client
<1>p. PICK n \in Nat, hdr \in Headers, len \in NalLens, out, ps \in Seq(Packet) :
        SentAs(n, hdr, len, out, ps)
  BY <1>0, Sending, ZenonT(60)
<1>1. /\ n = Len(sent) + 1
      /\ sent' = Append(sent, [hdr |-> hdr, len |-> len])
      /\ whole' = IF out = ps THEN whole \cup {n} ELSE whole
      /\ net' = net \o out
      /\ Len(ps) >= 1
      /\ len <= RTP_MTU => \A k \in DOMAIN ps : Single(ps[k], n)'
      /\ len > RTP_MTU => \A k \in DOMAIN ps : Piece(ps[k], n, k)'
  BY <1>p, ZenonT(60) DEF SentAs
<1>2. whole' = whole \/ whole' = whole \cup {n}
  BY <1>1, ZenonT(60)
<1>3. /\ sent' \in Seq([hdr : Headers, len : NalLens]) /\ whole' \subseteq DOMAIN sent'
      /\ \A m \in DOMAIN sent : m \in DOMAIN sent' /\ sent'[m] = sent[m]
      /\ \A p, m, i : Piece(p, m, i) => Piece(p, m, i)'
      /\ \A m \in DOMAIN sent : Good(m)' <=> Good(m)
  BY <1>0, <1>1, <1>2, OldUnits, ZenonT(60)
<1>4. Followed(net, out, net')
  <2>1. net' = net \o out
    BY <1>1, ZenonT(60)
  <2> QED BY <1>0, <2>1, Joining, ZenonT(60)
<1>5. NalTypes'
  <2>1. net' \in Seq(Packet)
    BY <1>4, ZenonT(60) DEF Followed
  <2>2. /\ fuBuffer' \in [hdr : Int, body : Seq(Byte)]
        /\ assembled' \in Seq([hdr : Int, body : Seq(Byte)])
    BY <1>0, ZenonT(60) DEF NalTypes
  <2> QED BY <1>3, <2>1, <2>2, ZenonT(60) DEF NalTypes
<1>6. Open'
  <2>1. CASE fuBuffer = NoBuffer
    BY <1>0, <2>1, ZenonT(60) DEF Open
  <2>2. CASE fuBuffer # NoBuffer
    <3> DEFINE b == fuBuffer.body[1][1]
    <3>1. /\ fuBuffer.hdr \in Nat /\ fuBuffer.body # <<>> /\ b \in DOMAIN sent
          /\ Good(b) => net # <<>> /\ \E i \in Nat : i > 1 /\ Piece(net[1], b, i)
      BY <1>0, <2>2, ZenonT(60) DEF Open
    <3>2. PICK m : m = b
      BY ZenonT(60)
    <3>3. /\ fuBuffer'.hdr \in Nat /\ fuBuffer'.body # <<>>
          /\ fuBuffer'.body[1][1] = m /\ m \in DOMAIN sent'
      BY <1>0, <1>3, <3>1, <3>2, ZenonT(60)
    <3>4. ASSUME Good(m)'
          PROVE  net' # <<>> /\ \E i \in Nat : i > 1 /\ Piece(net[1], m, i)'
      <4>1. Good(m)
        BY <1>3, <3>1, <3>2, <3>4, ZenonT(60)
      <4>2. net # <<>>
        BY <3>1, <3>2, <4>1, ZenonT(60)
      <4>3. PICK i \in Nat : i > 1 /\ Piece(net[1], m, i)
        BY <3>1, <3>2, <4>1, ZenonT(60)
      <4>4. 1 \in DOMAIN net
        BY <1>0, <4>2, EmptySeq, LenProperties
      <4>5. 1 \in DOMAIN net' /\ net'[1] = net[1] /\ net' \in Seq(Packet)
        BY <1>4, <4>4, ZenonT(60) DEF Followed
      <4>6. net' # <<>>
        BY <4>5, EmptySeq
      <4>7. Piece(net[1], m, i)'
        BY <1>3, <4>3, <4>5, ZenonT(60)
      <4> QED BY <4>3, <4>6, <4>7, ZenonT(60)
    <3> QED BY <3>3, <3>4, ZenonT(60) DEF Open
  <2> QED BY <2>1, <2>2, ZenonT(60)
<1>7. Delivered'
  <2> SUFFICES ASSUME NEW m \in whole', Good(m)'
               PROVE  \/ \E i \in DOMAIN assembled' :
                           assembled'[i] = Unit(m, sent'[m].hdr, sent'[m].len)
                      \/ \E x \in DOMAIN net' : net'[x].nal = m
    BY ZenonT(60) DEF Delivered
  <2>1. CASE m \in whole
    <3>1. m \in DOMAIN sent /\ Good(m) /\ sent'[m] = sent[m]
      BY <1>0, <1>3, <2>1, ZenonT(60) DEF NalTypes
    <3>2. CASE \E i \in DOMAIN assembled : assembled[i] = Unit(m, sent[m].hdr, sent[m].len)
      BY <1>0, <3>1, <3>2, ZenonT(60)
    <3>3. CASE \E x \in DOMAIN net : net[x].nal = m
      BY <1>4, <3>3, ZenonT(60) DEF Followed
    <3> QED BY <1>0, <2>1, <3>1, <3>2, <3>3, ZenonT(60) DEF Delivered
  <2>2. CASE m \notin whole
    <3>1. m = n /\ out = ps
      BY <1>1, <2>2, ZenonT(60)
    <3>2. 1 \in DOMAIN ps
      BY <1>1, LenProperties
    <3>3. ps[1].nal = n
      <4>1. CASE len <= RTP_MTU
        <5>1. Single(ps[1], n)'
          BY <1>1, <3>2, <4>1, ZenonT(60)
        <5> QED BY <5>1, ZenonT(60) DEF Single
      <4>2. CASE len > RTP_MTU
        <5>1. Piece(ps[1], n, 1)'
          BY <1>1, <3>2, <4>2, ZenonT(60)
        <5> QED BY <5>1, ZenonT(60) DEF Piece
      <4>3. len \in Nat /\ RTP_MTU \in Nat
        BY NalStreamAssumption, ZenonT(60)
      <4> QED BY <4>1, <4>2, <4>3
    <3>4. Len(net) + 1 \in DOMAIN net' /\ net'[Len(net) + 1] = ps[1]
      BY <1>4, <3>1, <3>2, ZenonT(60) DEF Followed
    <3> QED BY <3>1, <3>3, <3>4, ZenonT(60)
  <2> QED BY <2>1, <2>2, ZenonT(60)
<1>8. Explained'
  <2>1. 1 + Len(fuBuffer'.body) <= FuSize
    BY <1>0, ZenonT(60) DEF Explained
  <2> SUFFICES ASSUME NEW i \in DOMAIN assembled'
               PROVE  \/ \E m \in DOMAIN sent' :
                           assembled'[i] = Unit(m, sent'[m].hdr, sent'[m].len)
                      \/ \E j \in DOMAIN assembled'[i].body :
                           /\ assembled'[i].body[j][1] \in DOMAIN sent'
                           /\ ~Good(assembled[i].body[j][1])'
    BY <2>1, ZenonT(60) DEF Explained
  <2>2. i \in DOMAIN assembled /\ assembled'[i] = assembled[i]
    BY <1>0, ZenonT(60)
  <2>3. CASE \E m \in DOMAIN sent : assembled[i] = Unit(m, sent[m].hdr, sent[m].len)
    BY <1>3, <2>2, <2>3, ZenonT(60)
  <2>4. CASE \E j \in DOMAIN assembled[i].body :
               assembled[i].body[j][1] \in DOMAIN sent /\ ~Good(assembled[i].body[j][1])
    <3>1. PICK j \in DOMAIN assembled[i].body, m \in DOMAIN sent :
            m = assembled[i].body[j][1] /\ ~Good(m)
      BY <2>4, ZenonT(60)
    <3>2. m \in DOMAIN sent' /\ ~Good(m)' /\ assembled'[i].body[j][1] = m
      BY <1>3, <2>2, <3>1, ZenonT(60)
    <3> QED BY <2>2, <3>1, <3>2, ZenonT(60)
  <2> QED BY <1>0, <2>2, <2>3, <2>4, ZenonT(60) DEF Explained
<1> QED BY <1>5, <1>6, <1>7, <1>8, ZenonT(60)

\* The invariant is kept by every step.
LEMMA NextNal ==
    ASSUME NalInv, [Next]_vars
    PROVE  NalInv'
<1>1. CASE send_h264_nalu_to_client
  BY <1>1, SendChained, SendRest, ZenonT(60) DEF NalInv
<1>2. CASE feedRtpPayload
  BY <1>2, FeedTypes, FeedChained, FeedOpen, FeedDelivered, FeedExplained, ZenonT(60) DEF NalInv
<1>3. CASE UNCHANGED <<sent, whole, net, fuBuffer, assembled>>
  <2>1. UNCHANGED <<sent, whole>>
    BY <1>3, ZenonT(60)
  <2>2. NalTypes'
    BY <1>3, ZenonT(60) DEF NalInv, NalTypes
  <2>3. Chained'
    BY <1>3, <2>1, SameUnits DEF NalInv, Chained
  <2>4. Open'
    BY <1>3, <2>1, SameUnits, ZenonT(60) DEF NalInv, Open
  <2>5. Delivered'
    BY <1>3, <2>1, SameUnits, ZenonT(60) DEF NalInv, Delivered
  <2>6. Explained'
    BY <1>3, <2>1, SameUnits, ZenonT(60) DEF NalInv, Explained
  <2> QED BY <2>2, <2>3, <2>4, <2>5, <2>6, ZenonT(60) DEF NalInv
<1>4. UNCHANGED <<sent, whole, net, fuBuffer, assembled>>
      \/ send_h264_nalu_to_client \/ feedRtpPayload
  BY ZenonT(60) DEF Next, ReadThread, Offer, DropOldest, OfferAgain, decodingLoop, vars
<1> QED BY <1>1, <1>2, <1>3, <1>4, ZenonT(60)

\* The invariant holds at the start.
LEMMA InitNal ==
    ASSUME Init
    PROVE  NalInv
<1>1. sent = <<>> /\ whole = {} /\ net = <<>> /\ fuBuffer = NoBuffer /\ assembled = <<>>
  BY ZenonT(60) DEF Init
<1>2. NalTypes
  BY <1>1 DEF NalTypes, NoBuffer
<1>3. DOMAIN net = {} /\ DOMAIN assembled = {}
  BY <1>1
<1>4. 1 + Len(fuBuffer.body) <= FuSize
  BY <1>1, NalStreamAssumption DEF NoBuffer
<1> QED BY <1>1, <1>2, <1>3, <1>4, ZenonT(60) DEF NalInv, Chained, Open, Delivered, Explained

\* The invariant always holds.
LEMMA NalAlways == Spec => []NalInv
<1>1. Init => NalInv
  BY InitNal, ZenonT(60)
<1>2. NalInv /\ [Next]_vars => NalInv'
  BY NextNal, ZenonT(60)
<1> QED BY <1>1, <1>2, PTL DEF Spec

\* A unit that arrived whole and fits the buffer is put together as it was sent.
THEOREM UnitsIntact == Spec => []WholeUnitsIntact
<1>1. NalInv => WholeUnitsIntact
  <2> SUFFICES ASSUME NalInv, NEW n \in whole, Arrived(n), sent[n].len <= FuSize
               PROVE  \E i \in DOMAIN assembled : assembled[i] = Unit(n, sent[n].hdr, sent[n].len)
    BY ZenonT(60) DEF WholeUnitsIntact
  <2>1. Good(n)
    BY ZenonT(60) DEF Good
  <2>2. ~\E x \in DOMAIN net : net[x].nal = n
    BY ZenonT(60) DEF Arrived
  <2> QED BY <2>1, <2>2, ZenonT(60) DEF NalInv, Delivered
<1> QED BY <1>1, NalAlways, PTL

\* A damaged unit has a byte of one that lost a packet or did not fit.
THEOREM DamageExplained == Spec => []DamageHasACause
<1>1. NalInv => DamageHasACause
  <2> SUFFICES ASSUME NalInv PROVE DamageHasACause
    BY ZenonT(60)
  <2>0. NalTypes /\ Explained
    BY ZenonT(60) DEF NalInv
  <2>1. ASSUME NEW n \in DOMAIN sent, ~Good(n) PROVE n \notin whole \/ sent[n].len > FuSize
    <3>1. sent[n].len \in Nat /\ FuSize \in Nat
      BY <2>0, SentType, NalStreamAssumption, ZenonT(60)
    <3> QED BY <2>1, <3>1 DEF Good
  <2>2. ASSUME NEW i \in DOMAIN assembled,
               \E j \in DOMAIN assembled[i].body :
                 assembled[i].body[j][1] \in DOMAIN sent /\ ~Good(assembled[i].body[j][1])
        PROVE  Blamed(assembled[i])
    BY <2>1, <2>2, ZenonT(60) DEF Blamed
  <2> QED BY <2>0, <2>2, ZenonT(60) DEF Explained, DamageHasACause
<1> QED BY <1>1, NalAlways, PTL

----------------------------------------------------------------------------
(* The queue between the read thread and the decoder.                      *)

\* The units given to the codec come before those in the queue, and all before
\* the one the read thread is bringing; when the oldest has been dropped there is
\* room for it.
Queued ==
    /\ fed \in Seq(Nat) /\ queue \in Seq(Nat)
    /\ pc \in {"read", "offer", "drop", "offerAgain"}
    /\ Len(queue) <= QueueSize
    /\ Increasing(fed) /\ Increasing(queue)
    /\ \A i \in DOMAIN fed, j \in DOMAIN queue : fed[i] < queue[j]
    /\ \A i \in DOMAIN fed : fed[i] <= Len(assembled)
    /\ \A j \in DOMAIN queue : queue[j] <= Len(assembled)
    /\ pc # "read" => /\ \A i \in DOMAIN fed : fed[i] < Len(assembled)
                      /\ \A j \in DOMAIN queue : queue[j] < Len(assembled)
    /\ pc = "offerAgain" => Len(queue) < QueueSize
    /\ pc = "read" /\ queue # <<>> => queue[Len(queue)] = Len(assembled)

\* Appending a number above all of a sequence's.
LEMMA AppendTop ==
    ASSUME NEW s \in Seq(Nat), NEW v \in Nat, Increasing(s), \A i \in DOMAIN s : s[i] < v
    PROVE  /\ Append(s, v) \in Seq(Nat) /\ Increasing(Append(s, v))
           /\ Len(Append(s, v)) = Len(s) + 1 /\ Append(s, v)[Len(s) + 1] = v
           /\ \A i \in DOMAIN Append(s, v) : \/ i \in DOMAIN s /\ Append(s, v)[i] = s[i]
                                             \/ Append(s, v)[i] = v
<1>1. Len(s) \in Nat /\ DOMAIN s = 1..Len(s) /\ \A i \in DOMAIN s : s[i] \in Nat
  BY LenProperties, ElementOfSeq, ZenonT(60)
<1> DEFINE t == Append(s, v)
           l == Len(s)
<1>2. /\ t \in Seq(Nat) /\ Len(t) = l + 1 /\ DOMAIN t = 1..(l + 1) /\ t[l + 1] = v
      /\ \A i \in 1..l : t[i] = s[i]
  BY <1>1
<1> HIDE DEF t, l
<1>a. l \in Nat /\ DOMAIN s = 1..l
  BY <1>1, ZenonT(60) DEF l
<1>3. \A i \in DOMAIN t : i \in Nat /\ (i = l + 1 \/ i \in DOMAIN s)
  BY <1>2, <1>a
<1>4. Increasing(t)
  <2> SUFFICES ASSUME NEW i \in DOMAIN t, NEW j \in DOMAIN t, i < j
               PROVE  t[i] < t[j]
    BY ZenonT(60) DEF Increasing
  <2>1. i \in DOMAIN s /\ i \in Nat /\ j \in Nat
    BY <1>2, <1>3, <1>a
  <2>2. CASE j \in DOMAIN s
    BY <1>2, <1>a, <2>1, <2>2 DEF Increasing
  <2>3. CASE j = l + 1
    BY <1>2, <1>a, <2>1, <2>3, ZenonT(60)
  <2> QED BY <1>3, <2>2, <2>3, ZenonT(60)
<1> QED BY <1>1, <1>2, <1>3, <1>4, ZenonT(60) DEF t, l

\* Taking the first of a sequence.
LEMMA TakeHead ==
    ASSUME NEW s \in Seq(Nat), s # <<>>, Increasing(s)
    PROVE  /\ Tail(s) \in Seq(Nat) /\ Increasing(Tail(s)) /\ Head(s) \in Nat
           /\ Len(s) \in Nat /\ Len(Tail(s)) \in Nat /\ Len(Tail(s)) = Len(s) - 1
           /\ 1 \in DOMAIN s /\ Head(s) = s[1]
           /\ \A j \in DOMAIN Tail(s) :
                j + 1 \in DOMAIN s /\ Tail(s)[j] = s[j + 1] /\ s[1] < Tail(s)[j]
           /\ Tail(s) # <<>> => Tail(s)[Len(Tail(s))] = s[Len(s)]
<1>1. Len(s) \in Nat /\ DOMAIN s = 1..Len(s) /\ Len(s) # 0 /\ \A i \in DOMAIN s : s[i] \in Nat
  BY LenProperties, ElementOfSeq, EmptySeq, ZenonT(60)
<1> DEFINE t == Tail(s)
           l == Len(s)
<1>2. /\ t \in Seq(Nat) /\ Len(t) = l - 1 /\ Head(s) = s[1]
      /\ \A i \in 1..(l - 1) : t[i] = s[i + 1]
  BY <1>1, HeadTailProperties
<1>3. DOMAIN t = 1..(l - 1) /\ Len(t) \in Nat /\ (t # <<>> => Len(t) # 0)
  BY <1>1, <1>2, LenProperties, EmptySeq, ZenonT(60)
<1> HIDE DEF t, l
<1>a. l \in Nat /\ l # 0 /\ DOMAIN s = 1..l
  BY <1>1, ZenonT(60) DEF l
<1>4. /\ 1 \in DOMAIN s
      /\ \A i \in DOMAIN t : /\ i \in Nat /\ i + 1 \in DOMAIN s /\ 1 < i + 1
                            /\ t[i] = s[i + 1]
  BY <1>2, <1>3, <1>a
<1>5. Increasing(t)
  BY <1>1, <1>4 DEF Increasing
<1>6. \A j \in DOMAIN t : s[1] < t[j]
  BY <1>1, <1>4, ZenonT(60) DEF Increasing
<1>7. t # <<>> => t[l - 1] = s[l]
  <2>1. ASSUME t # <<>> PROVE l - 1 \in 1..(l - 1) /\ l - 1 + 1 = l
    BY <1>1, <1>2, <1>3, <2>1 DEF l
  <2> QED BY <1>2, <2>1, ZenonT(60)
<1> QED BY <1>1, <1>2, <1>3, <1>4, <1>5, <1>6, <1>7, ZenonT(60) DEF t, l

\* The read thread puts a unit into a queue that has room.
LEMMA QueuedOffer ==
    ASSUME Queued, Len(assembled) \in Nat, pc # "read", Len(queue) < QueueSize,
           queue' = Append(queue, Len(assembled)), pc' = "read", UNCHANGED <<fed, assembled>>
    PROVE  Queued'
<1> DEFINE a == Len(assembled)
<1>1. a \in Nat /\ Len(assembled') = a /\ queue' = Append(queue, a) /\ fed' = fed
  BY ZenonT(60)
<1>2. /\ fed \in Seq(Nat) /\ queue \in Seq(Nat) /\ Increasing(fed) /\ Increasing(queue)
      /\ \A i \in DOMAIN fed, j \in DOMAIN queue : fed[i] < queue[j]
      /\ \A i \in DOMAIN fed : fed[i] < a
      /\ \A j \in DOMAIN queue : queue[j] < a
  BY ZenonT(60) DEF Queued
<1>3. /\ Append(queue, a) \in Seq(Nat) /\ Increasing(Append(queue, a))
      /\ Len(Append(queue, a)) = Len(queue) + 1 /\ Append(queue, a)[Len(queue) + 1] = a
      /\ \A i \in DOMAIN Append(queue, a) :
           \/ i \in DOMAIN queue /\ Append(queue, a)[i] = queue[i]
           \/ Append(queue, a)[i] = a
  BY <1>1, <1>2, AppendTop, ZenonT(60)
<1> HIDE DEF a
<1>4. /\ queue' \in Seq(Nat) /\ Increasing(queue')
      /\ Len(queue') = Len(queue) + 1 /\ queue'[Len(queue')] = a
      /\ \A i \in DOMAIN queue' : (i \in DOMAIN queue /\ queue'[i] = queue[i]) \/ queue'[i] = a
  BY <1>1, <1>3, ZenonT(60)
<1>5. Len(queue) \in Nat /\ QueueSize \in Nat
      /\ (\A i \in DOMAIN fed : fed[i] \in Nat) /\ (\A i \in DOMAIN queue : queue[i] \in Nat)
  BY <1>2, LenProperties, ElementOfSeq, NalStreamAssumption
<1>6. Len(queue') <= QueueSize
  BY <1>4, <1>5
<1>7. \A i \in DOMAIN fed', j \in DOMAIN queue' : fed'[i] < queue'[j]
  BY <1>1, <1>2, <1>4, ZenonT(60)
<1>8. (\A i \in DOMAIN fed' : fed'[i] <= a) /\ (\A j \in DOMAIN queue' : queue'[j] <= a)
  <2>1. \A i \in DOMAIN fed : fed[i] <= a
    BY <1>1, <1>2, <1>5
  <2>2. \A j \in DOMAIN queue : queue[j] <= a
    BY <1>1, <1>2, <1>5
  <2>3. a <= a
    BY <1>1
  <2> QED BY <1>1, <1>4, <2>1, <2>2, <2>3, ZenonT(60)
<1> QED BY <1>1, <1>2, <1>4, <1>6, <1>7, <1>8, ZenonT(60) DEF Queued

\* The oldest of the queue leaves it, for the codec or for good.
LEMMA QueuedTake ==
    ASSUME Queued, Len(assembled) \in Nat, queue # <<>>, queue' = Tail(queue),
           fed' = fed \/ fed' = Append(fed, Head(queue)),
           UNCHANGED assembled, pc' = pc \/ (pc = "drop" /\ pc' = "offerAgain")
    PROVE  Queued'
<1> DEFINE a == Len(assembled)
<1>1. a \in Nat /\ Len(assembled') = a
  BY ZenonT(60)
<1>2. /\ fed \in Seq(Nat) /\ queue \in Seq(Nat) /\ Increasing(fed) /\ Increasing(queue)
      /\ \A i \in DOMAIN fed, j \in DOMAIN queue : fed[i] < queue[j]
      /\ \A i \in DOMAIN fed : fed[i] <= a
      /\ \A j \in DOMAIN queue : queue[j] <= a
      /\ pc # "read" => /\ \A i \in DOMAIN fed : fed[i] < a
                        /\ \A j \in DOMAIN queue : queue[j] < a
      /\ pc = "read" => queue[Len(queue)] = a
      /\ Len(queue) <= QueueSize
      /\ pc' \in {"read", "offer", "drop", "offerAgain"} /\ (pc' = "read" <=> pc = "read")
  BY ZenonT(60) DEF Queued
<1> HIDE DEF a
<1>3. /\ queue' \in Seq(Nat) /\ Increasing(queue') /\ Head(queue) \in Nat
      /\ Len(queue) \in Nat /\ Len(queue') \in Nat /\ Len(queue') = Len(queue) - 1
      /\ 1 \in DOMAIN queue /\ Head(queue) = queue[1]
      /\ \A j \in DOMAIN queue' :
           j + 1 \in DOMAIN queue /\ queue'[j] = queue[j + 1] /\ queue[1] < queue'[j]
      /\ queue' # <<>> => queue'[Len(queue')] = queue[Len(queue)]
  BY <1>2, TakeHead, ZenonT(60)
<1>4. Len(queue') < QueueSize /\ Len(queue') <= QueueSize
  BY <1>2, <1>3, NalStreamAssumption
<1>5. \A i \in DOMAIN fed : fed[i] < queue[1]
  BY <1>2, <1>3, ZenonT(60)
<1>6. /\ fed' \in Seq(Nat) /\ Increasing(fed')
      /\ \A i \in DOMAIN fed' : \/ i \in DOMAIN fed /\ fed'[i] = fed[i]
                                \/ fed'[i] = queue[1]
  <2>1. CASE fed' = fed
    BY <1>2, <2>1, ZenonT(60)
  <2>2. CASE fed' = Append(fed, Head(queue))
    <3>1. queue[1] \in Nat /\ fed' = Append(fed, queue[1])
      BY <1>3, <2>2, ZenonT(60)
    <3> QED BY <1>2, <1>5, <3>1, AppendTop
  <2> QED BY <2>1, <2>2, ZenonT(60)
<1>7. \A i \in DOMAIN fed', j \in DOMAIN queue' : fed'[i] < queue'[j]
  BY <1>2, <1>3, <1>6, ZenonT(60)
<1>8. (\A i \in DOMAIN fed' : fed'[i] <= a) /\ (\A j \in DOMAIN queue' : queue'[j] <= a)
  BY <1>2, <1>3, <1>6, ZenonT(60)
<1>9. ASSUME pc' # "read"
      PROVE  (\A i \in DOMAIN fed' : fed'[i] < a) /\ (\A j \in DOMAIN queue' : queue'[j] < a)
  BY <1>2, <1>3, <1>6, <1>9, ZenonT(60)
<1>10. pc' = "read" /\ queue' # <<>> => queue'[Len(queue')] = a
  BY <1>2, <1>3, ZenonT(60)
<1> QED BY <1>1, <1>2, <1>3, <1>4, <1>6, <1>7, <1>8, <1>9, <1>10, ZenonT(60) DEF Queued

\* Every step keeps the queue's order.
LEMMA NextQueued ==
    ASSUME NalInv, Queued, [Next]_vars
    PROVE  Queued'
<1>0. assembled \in Seq([hdr : Int, body : Seq(Byte)]) /\ Len(assembled) \in Nat
  BY LenProperties, ZenonT(60) DEF NalInv, NalTypes
<1>1. CASE UNCHANGED <<assembled, pc, queue, fed>>
  BY <1>1, ZenonT(60) DEF Queued
<1>2. CASE feedRtpPayload
  <2>1. pc = "read" /\ UNCHANGED <<queue, fed>>
    BY <1>2, ZenonT(60) DEF feedRtpPayload
  <2>2. CASE UNCHANGED <<assembled, pc>>
    BY <1>1, <2>1, <2>2, ZenonT(60)
  <2>3. CASE pc' = "offer" /\ Len(assembled') = Len(assembled) + 1
    <3>1. /\ fed \in Seq(Nat) /\ queue \in Seq(Nat)
          /\ \A i \in DOMAIN fed : fed[i] <= Len(assembled)
          /\ \A j \in DOMAIN queue : queue[j] <= Len(assembled)
      BY ZenonT(60) DEF Queued
    <3>2. (\A i \in DOMAIN fed : fed[i] \in Nat) /\ (\A i \in DOMAIN queue : queue[i] \in Nat)
      BY <3>1, ElementOfSeq
    <3>3. /\ \A i \in DOMAIN fed : fed[i] < Len(assembled') /\ fed[i] <= Len(assembled')
          /\ \A j \in DOMAIN queue : queue[j] < Len(assembled') /\ queue[j] <= Len(assembled')
      BY <1>0, <2>3, <3>1, <3>2
    <3> QED BY <2>1, <2>3, <3>3, ZenonT(60) DEF Queued
  <2>4. UNCHANGED <<assembled, pc>> \/ (pc' = "offer" /\ \E u : assembled' = Append(assembled, u))
    BY <1>2, ZenonT(60) DEF feedRtpPayload, SingleNal, StartFragment, NextFragment, Complete
  <2>5. \A u : Len(Append(assembled, u)) = Len(assembled) + 1
    BY <1>0
  <2> QED BY <2>2, <2>3, <2>4, <2>5, ZenonT(60)
<1>3. CASE Offer
  <2>1. pc = "offer" /\ UNCHANGED <<assembled, fed>>
    BY <1>3, ZenonT(60) DEF Offer
  <2>2. CASE Len(queue) < QueueSize /\ queue' = Append(queue, Len(assembled)) /\ pc' = "read"
    BY <1>0, <2>1, <2>2, QueuedOffer, ZenonT(60)
  <2>3. CASE pc' = "drop" /\ UNCHANGED queue
    BY <2>1, <2>3, ZenonT(60) DEF Queued
  <2> QED BY <1>3, <2>2, <2>3, ZenonT(60) DEF Offer
<1>4. CASE DropOldest
  <2>1. pc = "drop" /\ pc' = "offerAgain" /\ UNCHANGED <<assembled, fed>>
    BY <1>4, ZenonT(60) DEF DropOldest
  <2>2. CASE queue # <<>>
    BY <1>0, <1>4, <2>1, <2>2, QueuedTake, ZenonT(60) DEF DropOldest
  <2>3. CASE queue = <<>>
    <3>1. queue' = queue /\ Len(queue') < QueueSize
      BY <1>4, <2>3, NalStreamAssumption DEF DropOldest
    <3> QED BY <2>1, <3>1, ZenonT(60) DEF Queued
  <2> QED BY <2>2, <2>3, ZenonT(60)
<1>5. CASE OfferAgain
  <2>1. /\ pc = "offerAgain" /\ pc' = "read" /\ UNCHANGED <<assembled, fed>>
        /\ Len(queue) < QueueSize /\ queue' = Append(queue, Len(assembled))
    BY <1>5, ZenonT(60) DEF OfferAgain, Queued
  <2> QED BY <1>0, <2>1, QueuedOffer, ZenonT(60)
<1>6. CASE decodingLoop
  BY <1>0, <1>6, QueuedTake, ZenonT(60) DEF decodingLoop
<1>7. CASE send_h264_nalu_to_client
  BY <1>1, <1>7, ZenonT(60) DEF send_h264_nalu_to_client
<1> QED BY <1>1, <1>2, <1>3, <1>4, <1>5, <1>6, <1>7, ZenonT(60) DEF Next, ReadThread, vars

\* A full queue costs old units, never the newest and never their order.
THEOREM NewestIsKept == Spec => []NewestSurvives
<1>1. Init => Queued
  <2> SUFFICES ASSUME Init PROVE Queued
    BY ZenonT(60)
  <2>1. pc = "read" /\ queue = <<>> /\ fed = <<>>
    BY ZenonT(60) DEF Init
  <2>2. fed \in Seq(Nat) /\ queue \in Seq(Nat) /\ DOMAIN fed = {} /\ DOMAIN queue = {}
        /\ Len(queue) <= QueueSize
    BY <2>1, NalStreamAssumption
  <2>3. Increasing(fed) /\ Increasing(queue)
    BY <2>2, ZenonT(60) DEF Increasing
  <2> QED BY <2>1, <2>2, <2>3, ZenonT(60) DEF Queued
<1>2. NalInv /\ Queued /\ [Next]_vars => Queued'
  BY NextQueued, ZenonT(60)
<1>3. Queued => NewestSurvives
  <2> SUFFICES ASSUME Queued PROVE Increasing(fed \o queue)
    BY ZenonT(60) DEF Queued, NewestSurvives
  <2>1. /\ fed \in Seq(Nat) /\ queue \in Seq(Nat) /\ Increasing(fed) /\ Increasing(queue)
        /\ \A i \in DOMAIN fed, j \in DOMAIN queue : fed[i] < queue[j]
    BY ZenonT(60) DEF Queued
  <2> DEFINE c == fed \o queue
             l == Len(fed)
  <2>2. /\ Len(c) = l + Len(queue) /\ c \in Seq(Nat)
        /\ \A i \in 1..(l + Len(queue)) : c[i] = IF i <= l THEN fed[i] ELSE queue[i - l]
    BY <2>1, ConcatProperties, ZenonT(60)
  <2>3. l \in Nat /\ Len(queue) \in Nat /\ DOMAIN fed = 1..l /\ DOMAIN queue = 1..Len(queue)
        /\ DOMAIN c = 1..Len(c)
    BY <2>1, <2>2, LenProperties, ZenonT(60)
  <2> HIDE DEF c, l
  <2>4. SUFFICES ASSUME NEW i \in DOMAIN c, NEW j \in DOMAIN c, i < j PROVE c[i] < c[j]
    BY ZenonT(60) DEF Increasing, c
  <2>5. i \in Nat /\ j \in Nat
    BY <2>2, <2>3
  <2>6. CASE j <= l
    <3>1. i \in DOMAIN fed /\ j \in DOMAIN fed /\ c[i] = fed[i] /\ c[j] = fed[j]
      BY <2>2, <2>3, <2>4, <2>5, <2>6
    <3> QED BY <2>1, <2>4, <3>1, ZenonT(60) DEF Increasing
  <2>7. CASE i <= l /\ ~(j <= l)
    <3>1. i \in DOMAIN fed /\ j - l \in DOMAIN queue /\ c[i] = fed[i] /\ c[j] = queue[j - l]
      BY <2>2, <2>3, <2>4, <2>5, <2>7
    <3> QED BY <2>1, <3>1, ZenonT(60)
  <2>8. CASE ~(i <= l)
    <3> DEFINE q == Len(queue)
    <3>a. i \in 1..(l + q) /\ j \in 1..(l + q) /\ l \in Nat /\ q \in Nat /\ DOMAIN queue = 1..q
      BY <2>2, <2>3, ZenonT(60)
    <3> HIDE DEF q
    <3>b. /\ i - l \in 1..q /\ j - l \in 1..q /\ i - l < j - l /\ ~(j <= l)
      BY <2>4, <2>5, <2>8, <3>a
    <3>1. /\ i - l \in DOMAIN queue /\ j - l \in DOMAIN queue /\ i - l < j - l /\ ~(j <= l)
          /\ i \in 1..(l + Len(queue)) /\ j \in 1..(l + Len(queue))
      BY <3>a, <3>b, ZenonT(60) DEF q
    <3>2. c[i] = queue[i - l] /\ c[j] = queue[j - l]
      BY <2>2, <2>8, <3>1, ZenonT(60)
    <3> QED BY <2>1, <3>1, <3>2, ZenonT(60) DEF Increasing
  <2> QED BY <2>6, <2>7, <2>8, ZenonT(60)
<1> QED BY <1>1, <1>2, <1>3, NalAlways, PTL DEF Spec
=============================================================================
