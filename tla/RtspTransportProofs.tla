------------------------ MODULE RtspTransportProofs ------------------------
(***************************************************************************)
(* Proofs about RtspTransport, for any clients and any lengths.            *)
(*                                                                         *)
(* A byte stream is a row of frames: Laid(f, q) says that q holds the      *)
(* bytes of the frames f and nothing else, and the lemmas about it put a   *)
(* frame behind the others, take the first away and move bytes from one    *)
(* buffer to the next.  On it rest three inductive invariants:             *)
(*   InStep  rbuf and what is under way are the units that are written and *)
(*           not handled, and a unit that is whole in rbuf is in hand;     *)
(*   Kept    the record, the loudspeaker and what is sent agree with the   *)
(*           units handled so far;                                         *)
(*   Flow    what the kernel holds and the queue behind it are frames that *)
(*           were sent, in order, behind those the client has taken.       *)
(***************************************************************************)
EXTENDS RtspTransport, SequenceTheorems, TLAPS

----------------------------------------------------------------------------
(* Frames laid one behind the other.                                       *)

Byte == Nat \X Nat
Frame == Nat \X (Nat \ {0})

\* q holds the bytes of the m frames f, each a number and a length, one behind
\* the other and nothing else, N in all; frame k begins behind byte S[k].
Layout(f, m, S, q, N) ==
    /\ f \in Seq(Frame) /\ q \in Seq(Byte) /\ S \in [Nat -> Int]
    /\ Len(f) = m /\ Len(q) = N
    /\ S[1] = 0 /\ S[m + 1] = N
    /\ \A k \in 1..m : S[k + 1] = S[k] + f[k][2]
    /\ \A i, k \in 1..(m + 1) : i <= k => S[i] <= S[k]
    /\ \A x \in 1..N : \E k \in 1..m : \E j \in 1..f[k][2] : x = S[k] + j
    /\ \A k \in 1..m : \A j \in 1..f[k][2] : q[S[k] + j] = <<f[k][1], j>>

Laid(f, q) == \E S, m, N : Layout(f, m, S, q, N)

\* The bytes of a frame.
LEMMA FrameBytes ==
    ASSUME NEW n \in Nat, NEW l \in Nat
    PROVE  /\ Bytes(n, l) \in Seq(Byte) /\ Len(Bytes(n, l)) = l /\ DOMAIN Bytes(n, l) = 1..l
           /\ \A j \in 1..l : Bytes(n, l)[j] = <<n, j>>
BY DEF Bytes, Byte

\* What is known of a frame's number and length.
LEMMA FrameType ==
    ASSUME NEW f \in Seq(Frame)
    PROVE  /\ Len(f) \in Nat /\ DOMAIN f = 1..Len(f)
           /\ \A k \in 1..Len(f) : f[k][1] \in Nat /\ f[k][2] \in Nat /\ f[k][2] > 0
                                   /\ f[k] = <<f[k][1], f[k][2]>>
<1>1. Len(f) \in Nat /\ DOMAIN f = 1..Len(f) /\ \A k \in 1..Len(f) : f[k] \in Frame
  BY LenProperties, ZenonT(60)
<1>2. \A x \in Frame : x[1] \in Nat /\ x[2] \in Nat /\ x[2] > 0 /\ x = <<x[1], x[2]>>
  BY DEF Frame
<1> QED BY <1>1, <1>2, ZenonT(60)

\* One frame more.
LEMMA OneFrameMore ==
    ASSUME NEW f \in Seq(Frame), NEW x \in Frame
    PROVE  /\ Append(f, x) \in Seq(Frame) /\ Len(Append(f, x)) = Len(f) + 1
           /\ Append(f, x)[Len(f) + 1] = x
           /\ \A k \in 1..Len(f) : Append(f, x)[k] = f[k]
<1>1. f \in Seq(Frame) /\ x \in Frame
  OBVIOUS
<1> QED BY <1>1, AppendProperties, SMTT(60)

\* Sequences joined.
LEMMA JoinedBytes ==
    ASSUME NEW r \in Seq(Byte), NEW u \in Seq(Byte)
    PROVE  /\ r \o u \in Seq(Byte) /\ Len(r) \in Nat /\ Len(u) \in Nat
           /\ Len(r \o u) = Len(r) + Len(u) /\ DOMAIN (r \o u) = 1..(Len(r) + Len(u))
           /\ \A x \in 1..Len(r) : (r \o u)[x] = r[x]
           /\ \A x \in 1..Len(u) : (r \o u)[Len(r) + x] = u[x]
<1> DEFINE q == r \o u
           a == Len(r)
           b == Len(u)
<1>1. /\ q \in Seq(Byte) /\ Len(q) = a + b
      /\ \A i \in 1..(a + b) : q[i] = IF i <= a THEN r[i] ELSE u[i - a]
  BY ConcatProperties, ZenonT(60)
<1>2. a \in Nat /\ b \in Nat /\ DOMAIN q = 1..Len(q)
  BY <1>1, LenProperties, ZenonT(60)
<1> HIDE DEF q, a, b
<1>3. \A x \in 1..a : q[x] = r[x]
  BY <1>1, <1>2
<1>4. ASSUME NEW x \in 1..b PROVE q[a + x] = u[x]
  <2>1. PICK y \in 1..(a + b) : y = a + x /\ ~(y <= a) /\ y - a = x
    BY <1>2
  <2>2. q[y] = IF y <= a THEN r[y] ELSE u[y - a]
    BY <1>1, ZenonT(60)
  <2> QED BY <2>1, <2>2, ZenonT(60)
<1> QED BY <1>1, <1>2, <1>3, <1>4, ZenonT(60) DEF q, a, b

\* A part of a sequence.
LEMMA CutBytes ==
    ASSUME NEW q \in Seq(Byte), NEW a \in Nat, NEW b \in Nat, a <= b, b <= Len(q)
    PROVE  /\ SubSeq(q, a + 1, b) \in Seq(Byte) /\ Len(SubSeq(q, a + 1, b)) = b - a
           /\ DOMAIN SubSeq(q, a + 1, b) = 1..(b - a)
           /\ \A x \in 1..(b - a) : SubSeq(q, a + 1, b)[x] = q[a + x]
<1>1. Len(q) \in Nat /\ \A i \in 1..Len(q) : q[i] \in Byte
  BY LenProperties, ZenonT(60)
<1>2. a + 1 \in Int /\ b \in Int /\ \A i \in (a + 1)..b : q[i] \in Byte
  <2>1. \A i \in (a + 1)..b : i \in 1..Len(q)
    BY <1>1
  <2> QED BY <1>1, <2>1
<1> DEFINE t == SubSeq(q, a + 1, b)
<1>3. /\ t \in Seq(Byte) /\ Len(t) = (IF a + 1 <= b THEN b - (a + 1) + 1 ELSE 0)
      /\ \A i \in 1..(b - (a + 1) + 1) : t[i] = q[a + 1 + i - 1]
  BY <1>2, SubSeqProperties
<1> HIDE DEF t
<1>4. b - (a + 1) + 1 = b - a /\ (IF a + 1 <= b THEN b - (a + 1) + 1 ELSE 0) = b - a
  OBVIOUS
<1>5. t \in Seq(Byte) /\ Len(t) = b - a /\ \A i \in 1..(b - a) : t[i] = q[a + 1 + i - 1]
  BY <1>3, <1>4, ZenonT(60)
<1>6. \A i \in 1..(b - a) : a + 1 + i - 1 = a + i
  OBVIOUS
<1>7. DOMAIN t = 1..(b - a)
  BY <1>5, LenProperties, ZenonT(60)
<1> QED BY <1>5, <1>6, <1>7, ZenonT(60) DEF t

\* Two sequences of bytes with the same entries.
LEMMA SameBytes ==
    ASSUME NEW s \in Seq(Byte), NEW t \in Seq(Byte), Len(s) = Len(t),
           \A i \in 1..Len(s) : s[i] = t[i]
    PROVE  s = t
BY SeqEqual, ZenonT(60)

\* No frames, no bytes.
LEMMA LaidNone ==
    Laid(<<>>, <<>>)
<1> DEFINE S == [k \in Nat |-> 0]
<1>1. Layout(<<>>, 0, S, <<>>, 0)
  BY DEF Layout
<1> QED BY <1>1, ZenonT(60) DEF Laid

\* A frame behind the others.
LEMMA LaidAppend ==
    ASSUME NEW f, NEW q, Laid(f, q), NEW n \in Nat, NEW l \in Nat \ {0}
    PROVE  Laid(Append(f, <<n, l>>), q \o Bytes(n, l))
<1>1. PICK S, m, N : Layout(f, m, S, q, N)
  BY ZenonT(60) DEF Laid
<1> DEFINE g == Append(f, <<n, l>>)
           p == q \o Bytes(n, l)
           T == [k \in Nat |-> IF k <= m + 1 THEN S[k] ELSE N + l]
<1>2. f \in Seq(Frame) /\ q \in Seq(Byte) /\ S \in [Nat -> Int] /\ Len(f) = m /\ Len(q) = N
  BY <1>1, ZenonT(60) DEF Layout
<1>3. m \in Nat /\ N \in Nat /\ DOMAIN f = 1..m
      /\ \A k \in 1..m : f[k][1] \in Nat /\ f[k][2] \in Nat /\ f[k][2] > 0
  BY <1>2, FrameType, LenProperties, ZenonT(60)
<1>4. /\ g \in Seq(Frame) /\ Len(g) = m + 1 /\ g[m + 1] = <<n, l>>
      /\ \A k \in 1..m : g[k] = f[k]
  <2>1. <<n, l>> \in Frame
    BY ZenonT(60) DEF Frame
  <2> QED BY <1>2, <2>1, OneFrameMore, ZenonT(60)
<1>5. /\ p \in Seq(Byte) /\ Len(p) = N + l
      /\ \A x \in 1..N : p[x] = q[x]
      /\ \A j \in 1..l : p[N + j] = <<n, j>>
  <2>1. /\ Bytes(n, l) \in Seq(Byte) /\ Len(Bytes(n, l)) = l
        /\ \A j \in 1..l : Bytes(n, l)[j] = <<n, j>>
    BY FrameBytes, ZenonT(60)
  <2>2. /\ p \in Seq(Byte) /\ Len(p) = N + Len(Bytes(n, l))
        /\ \A x \in 1..N : p[x] = q[x]
        /\ \A x \in 1..Len(Bytes(n, l)) : p[N + x] = Bytes(n, l)[x]
    BY <1>2, <2>1, JoinedBytes, ZenonT(60)
  <2> QED BY <2>1, <2>2, ZenonT(60)
<1>6. /\ T \in [Nat -> Int] /\ \A k \in 1..(m + 1) : T[k] = S[k]
      /\ T[m + 2] = N + l
  BY <1>2, <1>3
<1>7. /\ S[1] = 0 /\ S[m + 1] = N
      /\ \A k \in 1..m : S[k + 1] = S[k] + f[k][2]
      /\ \A i, k \in 1..(m + 1) : i <= k => S[i] <= S[k]
      /\ \A x \in 1..N : \E k \in 1..m : \E j \in 1..f[k][2] : x = S[k] + j
      /\ \A k \in 1..m : \A j \in 1..f[k][2] : q[S[k] + j] = <<f[k][1], j>>
  BY <1>1, ZenonT(60) DEF Layout
<1> HIDE DEF g, p, T
<1>8. T[1] = 0 /\ T[m + 1] = N /\ T[m + 1 + 1] = N + l
  BY <1>3, <1>6, <1>7
<1>9. \A k \in 1..(m + 1) : T[k + 1] = T[k] + g[k][2]
  <2>1. ASSUME NEW k \in 1..m PROVE T[k + 1] = T[k] + g[k][2]
    <3>1. k \in 1..(m + 1) /\ k + 1 \in 1..(m + 1)
      BY <1>3
    <3> QED BY <1>4, <1>6, <1>7, <3>1, ZenonT(60)
  <2>2. T[m + 1 + 1] = T[m + 1] + g[m + 1][2]
    BY <1>4, <1>8
  <2>3. \A k \in 1..(m + 1) : k \in 1..m \/ k = m + 1
    BY <1>3
  <2> QED BY <2>1, <2>2, <2>3, ZenonT(60)
<1>10. \A i, k \in 1..(m + 1 + 1) : i <= k => T[i] <= T[k]
  <2> SUFFICES ASSUME NEW i \in 1..(m + 1 + 1), NEW k \in 1..(m + 1 + 1), i <= k
               PROVE  T[i] <= T[k]
    BY ZenonT(60)
  <2>1. CASE k \in 1..(m + 1)
    <3>1. i \in 1..(m + 1)
      BY <1>3, <2>1
    <3> QED BY <1>6, <1>7, <2>1, <3>1, ZenonT(60)
  <2>2. CASE k = m + 2 /\ i \in 1..(m + 1)
    <3>1. S[i] <= S[m + 1] /\ i \in Nat
      BY <1>3, <1>7, <2>2
    <3>2. S[i] \in Int
      BY <1>2, <3>1, ZenonT(60)
    <3> QED BY <1>3, <1>6, <1>7, <2>2, <3>1, <3>2
  <2>3. CASE k = m + 2 /\ i = m + 2
    BY <1>3, <1>6, <2>3
  <2>4. \A x \in 1..(m + 1 + 1) : x \in 1..(m + 1) \/ x = m + 2
    BY <1>3
  <2> QED BY <2>1, <2>2, <2>3, <2>4, ZenonT(60)
<1>11. \A x \in 1..(N + l) : \E k \in 1..(m + 1) : \E j \in 1..g[k][2] : x = T[k] + j
  <2> SUFFICES ASSUME NEW x \in 1..(N + l)
               PROVE  \E k \in 1..(m + 1) : \E j \in 1..g[k][2] : x = T[k] + j
    BY ZenonT(60)
  <2>1. CASE x \in 1..N
    <3>1. PICK k \in 1..m : \E j \in 1..f[k][2] : x = S[k] + j
      BY <1>7, <2>1, ZenonT(60)
    <3>2. k \in 1..(m + 1) /\ T[k] = S[k] /\ g[k] = f[k]
      BY <1>3, <1>4, <1>6, SMTT(60)
    <3> QED BY <3>1, <3>2, ZenonT(60)
  <2>2. CASE x \notin 1..N
    <3>1. x - N \in 1..l /\ x = N + (x - N) /\ m + 1 \in 1..(m + 1)
      BY <1>3, <2>2
    <3>2. g[m + 1][2] = l
      BY <1>4
    <3> QED BY <1>8, <3>1, <3>2, ZenonT(60)
  <2> QED BY <2>1, <2>2, ZenonT(60)
<1>12. \A k \in 1..(m + 1) : \A j \in 1..g[k][2] : p[T[k] + j] = <<g[k][1], j>>
  <2>1. ASSUME NEW k \in 1..m, NEW j \in 1..f[k][2] PROVE p[T[k] + j] = <<f[k][1], j>>
    <3>1. k \in Nat /\ k + 1 \in Nat /\ 1 \in 1..(m + 1) /\ k \in 1..(m + 1) /\ k + 1 \in 1..(m + 1)
          /\ m + 1 \in 1..(m + 1) /\ 1 <= k /\ k + 1 <= m + 1
      BY <1>3
    <3>2. S[1] <= S[k] /\ S[k + 1] <= S[m + 1] /\ S[k + 1] = S[k] + f[k][2] /\ S[k] \in Int
      BY <1>2, <1>7, <3>1, ZenonT(60)
    <3>3. S[k] + j \in 1..N
      <4>1. \A a, b \in Nat, c, d \in Int : 0 <= c /\ d <= N /\ d = c + b /\ a \in 1..b => c + a \in 1..N
        BY <1>3
      <4>2. f[k][2] \in Nat /\ j \in Nat /\ j \in 1..f[k][2] /\ S[k + 1] \in Int
        BY <1>2, <1>3, <3>1
      <4>3. 0 <= S[k] /\ S[k + 1] <= N
        BY <1>7, <3>2, ZenonT(60)
      <4> QED BY <3>2, <4>1, <4>2, <4>3, ZenonT(60)
    <3> QED BY <1>5, <1>6, <1>7, <3>1, <3>3, ZenonT(60)
  <2>2. \A j \in 1..l : p[T[m + 1] + j] = <<n, j>>
    BY <1>5, <1>8, ZenonT(60)
  <2>3. g[m + 1][1] = n /\ g[m + 1][2] = l
    BY <1>4
  <2>4. \A k \in 1..(m + 1) : k \in 1..m \/ k = m + 1
    BY <1>3
  <2> SUFFICES ASSUME NEW k \in 1..(m + 1), NEW j \in 1..g[k][2] PROVE p[T[k] + j] = <<g[k][1], j>>
    BY ZenonT(60)
  <2>5. CASE k \in 1..m
    BY <1>4, <2>1, <2>5, ZenonT(60)
  <2>6. CASE k = m + 1
    BY <2>2, <2>3, <2>6, ZenonT(60)
  <2> QED BY <2>4, <2>5, <2>6, ZenonT(60)
<1>13. Layout(g, m + 1, T, p, N + l)
  BY <1>4, <1>5, <1>6, <1>8, <1>9, <1>10, <1>11, <1>12, ZenonT(60) DEF Layout
<1> QED BY <1>13, ZenonT(60) DEF Laid, g, p

\* What a layout says, with the types of what it says it of.
LEMMA LayoutFacts ==
    ASSUME NEW f, NEW m, NEW S, NEW q, NEW N, Layout(f, m, S, q, N)
    PROVE  /\ f \in Seq(Frame) /\ q \in Seq(Byte) /\ Len(f) = m /\ Len(q) = N
           /\ m \in Nat /\ N \in Nat /\ DOMAIN f = 1..m
           /\ \A k \in 1..m : f[k][1] \in Nat /\ f[k][2] \in Nat /\ f[k][2] > 0
           /\ \A k \in 1..(m + 1) : S[k] \in Int /\ 0 <= S[k] /\ S[k] <= N
           /\ \A k \in 1..m : S[k + 1] = S[k] + f[k][2] /\ S[k + 1] \in Int /\ S[k + 1] <= N
           /\ \A k \in 1..m : \A j \in 1..f[k][2] : S[k] + j \in 1..N
<1>1. /\ f \in Seq(Frame) /\ q \in Seq(Byte) /\ S \in [Nat -> Int] /\ Len(f) = m /\ Len(q) = N
      /\ S[1] = 0 /\ S[m + 1] = N
      /\ \A k \in 1..m : S[k + 1] = S[k] + f[k][2]
      /\ \A i, k \in 1..(m + 1) : i <= k => S[i] <= S[k]
  BY ZenonT(60) DEF Layout
<1>2. m \in Nat /\ N \in Nat /\ DOMAIN f = 1..m
      /\ \A k \in 1..m : f[k][1] \in Nat /\ f[k][2] \in Nat /\ f[k][2] > 0
  BY <1>1, FrameType, LenProperties, ZenonT(60)
<1>3. ASSUME NEW k \in 1..(m + 1) PROVE S[k] \in Int /\ 0 <= S[k] /\ S[k] <= N
  <2>1. k \in Nat /\ 1 \in 1..(m + 1) /\ m + 1 \in 1..(m + 1) /\ 1 <= k /\ k <= m + 1
    BY <1>2
  <2> QED BY <1>1, <2>1, ZenonT(60)
<1>4. ASSUME NEW k \in 1..m
      PROVE  S[k + 1] = S[k] + f[k][2] /\ S[k + 1] \in Int /\ S[k + 1] <= N
             /\ \A j \in 1..f[k][2] : S[k] + j \in 1..N
  <2>1. k \in 1..(m + 1) /\ k + 1 \in 1..(m + 1)
    BY <1>2
  <2>2. /\ S[k + 1] = S[k] + f[k][2] /\ S[k + 1] \in Int /\ S[k + 1] <= N
        /\ S[k] \in Int /\ 0 <= S[k] /\ f[k][2] \in Nat
    BY <1>1, <1>2, <1>3, <2>1, ZenonT(60)
  <2>3. ASSUME NEW j \in 1..f[k][2] PROVE S[k] + j \in 1..N
    <3> DEFINE a == S[k]
               c == f[k][2]
    <3>1. a \in Int /\ c \in Nat /\ N \in Nat /\ 0 <= a /\ a + c <= N /\ j \in 1..c
      BY <1>2, <2>2, ZenonT(60)
    <3> HIDE DEF a, c
    <3>2. a + j \in 1..N
      BY <3>1
    <3> QED BY <3>2, ZenonT(60) DEF a
  <2> QED BY <2>2, <2>3, ZenonT(60)
<1> QED BY <1>1, <1>2, <1>3, <1>4, ZenonT(60)

\* The first frame and the last.
LEMMA LaidHead ==
    ASSUME NEW f, NEW q, Laid(f, q)
    PROVE  /\ f \in Seq(Frame) /\ q \in Seq(Byte)
           /\ q = <<>> <=> f = <<>>
           /\ f # <<>> => /\ 1 \in DOMAIN f /\ f[1][1] \in Nat /\ f[1][2] \in Nat \ {0}
                          /\ f[1][2] <= Len(q)
                          /\ \A j \in 1..f[1][2] : q[j] = <<f[1][1], j>>
                          /\ Len(f) \in DOMAIN f /\ q[Len(q)] = f[Len(f)]
<1>1. PICK S, m, N : Layout(f, m, S, q, N)
  BY ZenonT(60) DEF Laid
<1>2. /\ f \in Seq(Frame) /\ q \in Seq(Byte) /\ Len(f) = m /\ Len(q) = N
      /\ m \in Nat /\ N \in Nat /\ DOMAIN f = 1..m
      /\ \A k \in 1..m : f[k][1] \in Nat /\ f[k][2] \in Nat /\ f[k][2] > 0
      /\ \A k \in 1..m : S[k + 1] = S[k] + f[k][2] /\ S[k + 1] \in Int /\ S[k + 1] <= N
      /\ \A k \in 1..m : \A j \in 1..f[k][2] : S[k] + j \in 1..N
  BY <1>1, LayoutFacts, ZenonT(60)
<1>3. /\ S[1] = 0 /\ S[m + 1] = N
      /\ \A k \in 1..m : \A j \in 1..f[k][2] : q[S[k] + j] = <<f[k][1], j>>
  BY <1>1, ZenonT(60) DEF Layout
<1>4. (q = <<>> <=> N = 0) /\ (f = <<>> <=> m = 0)
  BY <1>2, EmptySeq, ZenonT(60)
<1>5. m = 0 => N = 0
  BY <1>3
<1>6. ASSUME m # 0
      PROVE  /\ N # 0 /\ 1 \in 1..m /\ m \in 1..m /\ f[1][1] \in Nat /\ f[1][2] \in Nat \ {0}
             /\ f[1][2] <= N
             /\ \A j \in 1..f[1][2] : q[j] = <<f[1][1], j>>
             /\ q[N] = f[m]
  <2>1. 1 \in 1..m /\ m \in 1..m
    BY <1>2, <1>6
  <2>2. /\ f[1][1] \in Nat /\ f[1][2] \in Nat /\ f[1][2] > 0 /\ S[2] = S[1] + f[1][2] /\ S[2] <= N
        /\ f[m][2] \in Nat /\ f[m][2] > 0 /\ S[m + 1] = S[m] + f[m][2]
    BY <1>2, <2>1
  <2>3. f[1][2] <= N /\ N # 0
    BY <1>2, <1>3, <2>2
  <2>4. \A j \in 1..f[1][2] : q[j] = <<f[1][1], j>>
    <3>1. \A j \in 1..f[1][2] : 0 + j = j
      BY <2>2
    <3> QED BY <1>3, <2>1, <3>1, SMTT(60)
  <2>5. q[N] = <<f[m][1], f[m][2]>>
    <3>1. f[m][2] \in 1..f[m][2]
      BY <2>2
    <3> QED BY <1>3, <2>1, <2>2, <3>1, ZenonT(60)
  <2>6. f[m] = <<f[m][1], f[m][2]>>
    BY <1>2, <2>1, FrameType, ZenonT(60)
  <2> QED BY <2>1, <2>2, <2>3, <2>4, <2>5, <2>6
<1> QED BY <1>2, <1>4, <1>5, <1>6, ZenonT(60)

\* Byte x of q is byte j of frame k, and what is behind it is there.
ByteOf(f, q, x, k, j) ==
    /\ k \in Nat /\ f[k][1] \in Nat /\ f[k][2] \in Nat /\ q[x] = <<f[k][1], j>>
    /\ f[k][2] - j <= Len(q) - x
    /\ x # Len(q) =>
         \/ j # f[k][2] /\ q[x + 1] = <<f[k][1], j + 1>>
         \/ j = f[k][2] /\ k + 1 \in DOMAIN f /\ q[x + 1] = <<f[k + 1][1], 1>>

\* A byte and the one behind it.
LEMMA LaidNext ==
    ASSUME NEW f, NEW q, Laid(f, q), NEW x \in 1..Len(q)
    PROVE  \E k \in DOMAIN f : \E j \in 1..f[k][2] : ByteOf(f, q, x, k, j)
<1>1. PICK S, m, N : Layout(f, m, S, q, N)
  BY ZenonT(60) DEF Laid
<1>2. /\ f \in Seq(Frame) /\ q \in Seq(Byte) /\ Len(f) = m /\ Len(q) = N
      /\ m \in Nat /\ N \in Nat /\ DOMAIN f = 1..m
      /\ \A k \in 1..m : f[k][1] \in Nat /\ f[k][2] \in Nat /\ f[k][2] > 0
      /\ \A k \in 1..(m + 1) : S[k] \in Int /\ 0 <= S[k] /\ S[k] <= N
      /\ \A k \in 1..m : S[k + 1] = S[k] + f[k][2] /\ S[k + 1] \in Int /\ S[k + 1] <= N
  BY <1>1, LayoutFacts, ZenonT(60)
<1>3. /\ S[1] = 0 /\ S[m + 1] = N
      /\ \A y \in 1..N : \E k \in 1..m : \E j \in 1..f[k][2] : y = S[k] + j
      /\ \A k \in 1..m : \A j \in 1..f[k][2] : q[S[k] + j] = <<f[k][1], j>>
  BY <1>1, ZenonT(60) DEF Layout
<1>p. PICK k \in 1..m : \E j \in 1..f[k][2] : x = S[k] + j
  BY <1>2, <1>3
<1>4. PICK j \in 1..f[k][2] : x = S[k] + j
  BY <1>p, ZenonT(60)
<1>5. /\ k \in Nat /\ f[k][1] \in Nat /\ f[k][2] \in Nat /\ f[k][2] > 0
      /\ k \in 1..(m + 1) /\ S[k] \in Int /\ 0 <= S[k]
      /\ S[k + 1] = S[k] + f[k][2] /\ S[k + 1] <= N
  <2>1. k \in Nat /\ k \in 1..(m + 1)
    BY <1>2
  <2> QED BY <1>2, <2>1, ZenonT(60)
<1>6. q[x] = <<f[k][1], j>>
  BY <1>3, <1>4, ZenonT(60)
<1> DEFINE a == S[k]
           c == f[k][2]
<1>7. a \in Int /\ c \in Nat /\ c > 0 /\ j \in 1..c /\ x = a + j /\ S[k + 1] = a + c /\ a + c <= N
  BY <1>4, <1>5, ZenonT(60)
<1>8. c - j <= N - x
  <2> HIDE DEF a, c
  <2> QED BY <1>2, <1>7
<1>9. ASSUME x # N, j # c PROVE q[x + 1] = <<f[k][1], j + 1>>
  <2>1. j + 1 \in 1..c /\ x + 1 = a + (j + 1)
    <3> HIDE DEF a, c
    <3> QED BY <1>7, <1>9
  <2> QED BY <1>3, <2>1, ZenonT(60)
<1>10. ASSUME x # N, j = c PROVE k + 1 \in 1..m /\ q[x + 1] = <<f[k + 1][1], 1>>
  <2>1. x = S[k + 1]
    BY <1>7, <1>10, ZenonT(60)
  <2>2. k # m
    BY <1>3, <1>10, <2>1, ZenonT(60)
  <2>3. k + 1 \in 1..m
    BY <1>2, <2>2
  <2>4. 1 \in 1..f[k + 1][2]
    BY <1>2, <2>3
  <2> QED BY <1>3, <2>1, <2>3, <2>4, ZenonT(60)
<1>11. ByteOf(f, q, x, k, j)
  BY <1>2, <1>5, <1>6, <1>8, <1>9, <1>10, ZenonT(60) DEF ByteOf
<1> QED BY <1>2, <1>11, ZenonT(60)

\* The first frame is taken away.
LEMMA LaidDrop ==
    ASSUME NEW f, NEW q, Laid(f, q), f # <<>>
    PROVE  Laid(Tail(f), SubSeq(q, f[1][2] + 1, Len(q)))
<1>1. PICK S, m, N : Layout(f, m, S, q, N)
  BY ZenonT(60) DEF Laid
<1>2. /\ f \in Seq(Frame) /\ q \in Seq(Byte) /\ Len(f) = m /\ Len(q) = N
      /\ m \in Nat /\ N \in Nat /\ DOMAIN f = 1..m
      /\ \A k \in 1..m : f[k][1] \in Nat /\ f[k][2] \in Nat /\ f[k][2] > 0
      /\ \A k \in 1..(m + 1) : S[k] \in Int /\ 0 <= S[k] /\ S[k] <= N
      /\ \A k \in 1..m : S[k + 1] = S[k] + f[k][2] /\ S[k + 1] \in Int /\ S[k + 1] <= N
      /\ \A k \in 1..m : \A j \in 1..f[k][2] : S[k] + j \in 1..N
  BY <1>1, LayoutFacts, ZenonT(60)
<1>3. /\ S \in [Nat -> Int] /\ S[1] = 0 /\ S[m + 1] = N
      /\ \A i, k \in 1..(m + 1) : i <= k => S[i] <= S[k]
      /\ \A x \in 1..N : \E k \in 1..m : \E j \in 1..f[k][2] : x = S[k] + j
      /\ \A k \in 1..m : \A j \in 1..f[k][2] : q[S[k] + j] = <<f[k][1], j>>
  BY <1>1, ZenonT(60) DEF Layout
<1> DEFINE l == f[1][2]
           g == Tail(f)
           p == SubSeq(q, l + 1, N)
           T == [k \in Nat |-> S[k + 1] - l]
<1>4. m # 0 /\ 1 \in 1..m /\ 2 \in 1..(m + 1) /\ m - 1 \in Nat
  <2>1. m # 0
    BY <1>2, EmptySeq, ZenonT(60)
  <2> QED BY <1>2, <2>1
<1>5. l \in Nat /\ l > 0 /\ S[2] = l /\ l <= N /\ N - l \in Nat
  <2>1. l \in Nat /\ l > 0 /\ S[1 + 1] = S[1] + l /\ S[1 + 1] <= N
    BY <1>2, <1>4, ZenonT(60)
  <2> HIDE DEF l
  <2> QED BY <1>2, <1>3, <2>1
<1>6. g \in Seq(Frame) /\ Len(g) = m - 1 /\ \A k \in 1..(m - 1) : g[k] = f[k + 1]
  BY <1>2, HeadTailProperties, ZenonT(60)
<1>7. p \in Seq(Byte) /\ Len(p) = N - l /\ \A x \in 1..(N - l) : p[x] = q[l + x]
  <2> HIDE DEF l
  <2>1. q \in Seq(Byte) /\ l \in Nat /\ N \in Nat /\ l <= N /\ N <= Len(q)
    BY <1>2, <1>5
  <2> QED BY <2>1, CutBytes, ZenonT(60)
<1>8. \A k \in 1..(m - 1) : k \in Nat /\ k + 1 \in 1..m /\ k + 1 \in 1..(m + 1)
  BY <1>2, <1>4
<1>9. \A k \in 1..m : k \in Nat /\ k + 1 \in 1..(m + 1) /\ 2 <= k + 1
  BY <1>2
<1> HIDE DEF l
<1>10. T \in [Nat -> Int] /\ \A k \in Nat : T[k] = S[k + 1] - l
  BY <1>3, <1>5
<1> HIDE DEF g, p, T
<1>11. T[1] = 0 /\ T[m] = N - l
  BY <1>2, <1>3, <1>5, <1>10
<1>12. \A k \in 1..(m - 1) : T[k + 1] = T[k] + g[k][2]
  <2> SUFFICES ASSUME NEW k \in 1..(m - 1) PROVE T[k + 1] = T[k] + g[k][2]
    BY ZenonT(60)
  <2>1. k \in Nat /\ k + 1 \in Nat /\ k + 1 \in 1..m /\ k + 1 \in 1..(m + 1)
    BY <1>8
  <2>2. T[k] = S[k + 1] - l /\ T[k + 1] = S[k + 1 + 1] - l
    BY <1>10, <2>1, ZenonT(60)
  <2>3. S[k + 1 + 1] = S[k + 1] + f[k + 1][2] /\ S[k + 1] \in Int /\ f[k + 1][2] \in Nat
    BY <1>2, <2>1, ZenonT(60)
  <2>4. g[k][2] = f[k + 1][2]
    BY <1>6, ZenonT(60)
  <2> QED BY <1>5, <2>2, <2>3, <2>4
<1>13. \A i, k \in 1..m : i <= k => T[i] <= T[k]
  <2> SUFFICES ASSUME NEW i \in 1..m, NEW k \in 1..m, i <= k PROVE T[i] <= T[k]
    BY ZenonT(60)
  <2>1. i \in Nat /\ k \in Nat /\ i + 1 \in 1..(m + 1) /\ k + 1 \in 1..(m + 1) /\ i + 1 <= k + 1
    BY <1>2
  <2>2. S[i + 1] <= S[k + 1] /\ S[i + 1] \in Int /\ S[k + 1] \in Int
    BY <1>2, <1>3, <2>1, ZenonT(60)
  <2>3. T[i] = S[i + 1] - l /\ T[k] = S[k + 1] - l
    BY <1>10, <2>1, ZenonT(60)
  <2> QED BY <1>5, <2>2, <2>3
<1>14. \A x \in 1..(N - l) : \E k \in 1..(m - 1) : \E j \in 1..g[k][2] : x = T[k] + j
  <2> SUFFICES ASSUME NEW x \in 1..(N - l)
               PROVE  \E k \in 1..(m - 1) : \E j \in 1..g[k][2] : x = T[k] + j
    BY ZenonT(60)
  <2>1. l + x \in 1..N /\ x \in Nat /\ x > 0
    BY <1>2, <1>5
  <2>2. PICK k \in 1..m : \E j \in 1..f[k][2] : l + x = S[k] + j
    BY <1>3, <2>1, ZenonT(60)
  <2>3. PICK j \in 1..f[k][2] : l + x = S[k] + j
    BY <2>2, ZenonT(60)
  <2>4. f[k][2] \in Nat /\ j \in Nat /\ S[k] \in Int /\ k \in 1..(m + 1) /\ j <= f[k][2]
    <3>1. k \in 1..(m + 1)
      BY <1>2
    <3> QED BY <1>2, <3>1
  <2>5. k # 1
    <3>1. ASSUME k = 1 PROVE FALSE
      <4>1. l + x = 0 + j /\ j <= l
        BY <1>3, <2>3, <2>4, <3>1, ZenonT(60) DEF l
      <4> QED BY <1>5, <2>1, <2>4, <4>1
    <3> QED BY <3>1, ZenonT(60)
  <2>6. k - 1 \in 1..(m - 1) /\ k - 1 \in Nat /\ k - 1 + 1 = k
    BY <1>2, <2>5
  <2>7. T[k - 1] = S[k] - l /\ g[k - 1] = f[k]
    BY <1>6, <1>10, <2>6, ZenonT(60)
  <2>8. x = T[k - 1] + j
    BY <1>5, <2>1, <2>3, <2>4, <2>7
  <2> QED BY <2>6, <2>7, <2>8, ZenonT(60)
<1>15. \A k \in 1..(m - 1) : \A j \in 1..g[k][2] : p[T[k] + j] = <<g[k][1], j>>
  <2> SUFFICES ASSUME NEW k \in 1..(m - 1), NEW j \in 1..g[k][2]
               PROVE  p[T[k] + j] = <<g[k][1], j>>
    BY ZenonT(60)
  <2>1. k \in Nat /\ k + 1 \in 1..m /\ k + 1 \in 1..(m + 1) /\ 2 <= k + 1 /\ g[k] = f[k + 1]
    BY <1>6, <1>8
  <2>2. /\ j \in 1..f[k + 1][2] /\ f[k + 1][2] \in Nat /\ j \in Nat /\ j >= 1
        /\ S[k + 1] \in Int /\ S[2] <= S[k + 1] /\ S[k + 1] + j \in 1..N
        /\ T[k] = S[k + 1] - l
    <3>1. j \in 1..f[k + 1][2] /\ f[k + 1][2] \in Nat
      BY <1>2, <2>1, ZenonT(60)
    <3>2. j \in Nat /\ j >= 1
      BY <3>1
    <3>3. S[k + 1] \in Int /\ S[k + 1] + j \in 1..N
      BY <1>2, <2>1, <3>1, ZenonT(60)
    <3>4. S[2] <= S[k + 1]
      BY <1>3, <1>4, <2>1, ZenonT(60)
    <3>5. T[k] = S[k + 1] - l
      BY <1>10, <2>1, ZenonT(60)
    <3> QED BY <3>1, <3>2, <3>3, <3>4, <3>5, ZenonT(60)
  <2>3. T[k] + j \in 1..(N - l) /\ l + (T[k] + j) = S[k + 1] + j
    <3> DEFINE s == S[k + 1]
    <3>1. s \in Int /\ l <= s /\ s + j \in 1..N /\ T[k] = s - l
      BY <1>5, <2>2, ZenonT(60)
    <3>3. j \in Nat /\ j >= 1 /\ N \in Nat
      BY <1>2, <2>2, ZenonT(60)
    <3> HIDE DEF s
    <3>2. T[k] + j \in 1..(N - l) /\ l + (T[k] + j) = s + j
      BY <1>5, <3>1, <3>3
    <3> QED BY <3>2, ZenonT(60) DEF s
  <2>4. p[T[k] + j] = q[S[k + 1] + j]
    BY <1>7, <2>3, ZenonT(60)
  <2> QED BY <1>3, <2>1, <2>2, <2>4, ZenonT(60)
<1>16. Layout(g, m - 1, T, p, N - l)
  <2>1. m - 1 + 1 = m
    BY <1>2
  <2> QED BY <1>6, <1>7, <1>10, <1>11, <1>12, <1>13, <1>14, <1>15, <2>1, ZenonT(60) DEF Layout
<1>17. Laid(g, p)
  BY <1>16, ZenonT(60) DEF Laid
<1> QED BY <1>2, <1>17, ZenonT(60) DEF g, p, l

\* Joining is associative.
LEMMA JoinAgain ==
    \A s, t, u \in Seq(Byte) : (s \o t) \o u = s \o (t \o u)
<1> TAKE s, t, u \in Seq(Byte)
<1> QED BY ConcatAssociative, SMT

\* Bytes that move from one sequence to the one before it.
LEMMA Regroup ==
    ASSUME NEW r \in Seq(Byte), NEW u \in Seq(Byte), NEW k \in Nat, k <= Len(u)
    PROVE  /\ SubSeq(u, 1, k) \in Seq(Byte) /\ Len(SubSeq(u, 1, k)) = k
           /\ SubSeq(u, k + 1, Len(u)) \in Seq(Byte) /\ Len(SubSeq(u, k + 1, Len(u))) = Len(u) - k
           /\ r \o SubSeq(u, 1, k) \in Seq(Byte) /\ Len(r \o SubSeq(u, 1, k)) = Len(r) + k
           /\ (r \o SubSeq(u, 1, k)) \o SubSeq(u, k + 1, Len(u)) = r \o u
<1> DEFINE n == Len(u)
           a == SubSeq(u, 1, k)
           b == SubSeq(u, k + 1, n)
<1>1. n \in Nat
  BY LenProperties, ZenonT(60)
<1>2. a \in Seq(Byte) /\ Len(a) = k /\ \A x \in 1..k : a[x] = u[x]
  <2>1. 0 \in Nat /\ 0 <= k /\ 0 + 1 = 1 /\ k - 0 = k /\ \A x \in 1..k : 0 + x = x
    OBVIOUS
  <2>2. /\ SubSeq(u, 0 + 1, k) \in Seq(Byte) /\ Len(SubSeq(u, 0 + 1, k)) = k - 0
        /\ \A x \in 1..(k - 0) : SubSeq(u, 0 + 1, k)[x] = u[0 + x]
    BY <2>1, CutBytes, ZenonT(60)
  <2> QED BY <2>1, <2>2, ZenonT(60)
<1>3. b \in Seq(Byte) /\ Len(b) = n - k /\ \A x \in 1..(n - k) : b[x] = u[k + x]
  <2>1. n <= Len(u)
    BY <1>1
  <2> QED BY <1>1, <2>1, CutBytes, ZenonT(60)
<1> HIDE DEF a, b, n
<1>4. a \o b = u
  <2>1. /\ a \o b \in Seq(Byte) /\ Len(a \o b) = Len(a) + Len(b)
        /\ \A x \in 1..Len(a) : (a \o b)[x] = a[x]
        /\ \A x \in 1..Len(b) : (a \o b)[Len(a) + x] = b[x]
    BY <1>2, <1>3, JoinedBytes, ZenonT(60)
  <2> DEFINE c == a \o b
  <2>2. /\ c \in Seq(Byte) /\ Len(c) = k + (n - k)
        /\ \A x \in 1..k : c[x] = a[x]
        /\ \A x \in 1..(n - k) : c[k + x] = b[x]
    BY <1>2, <1>3, <2>1, ZenonT(60)
  <2> HIDE DEF c
  <2>3. k + (n - k) = n
    BY <1>1
  <2>4. \A x \in 1..n : x \in 1..k \/ (x - k \in 1..(n - k) /\ k + (x - k) = x)
    BY <1>1
  <2>5. \A x \in 1..n : c[x] = u[x]
    <3> SUFFICES ASSUME NEW x \in 1..n PROVE c[x] = u[x]
      BY ZenonT(60)
    <3>1. CASE x \in 1..k
      BY <1>2, <2>2, <3>1, ZenonT(60)
    <3>2. CASE x - k \in 1..(n - k) /\ k + (x - k) = x
      <4>1. c[k + (x - k)] = b[x - k] /\ b[x - k] = u[k + (x - k)]
        BY <1>3, <2>2, <3>2, ZenonT(60)
      <4> QED BY <3>2, <4>1, ZenonT(60)
    <3> QED BY <2>4, <3>1, <3>2, ZenonT(60)
  <2>6. Len(c) = n /\ Len(c) = Len(u)
    BY <2>2, <2>3, ZenonT(60) DEF n
  <2>7. c = u
    BY <2>2, <2>5, <2>6, SameBytes, ZenonT(60)
  <2> QED BY <2>7, ZenonT(60) DEF c
<1>5. (r \o a) \o b = r \o (a \o b)
  BY <1>2, <1>3, JoinAgain, ZenonT(60)
<1>6. r \o a \in Seq(Byte) /\ Len(r \o a) = Len(r) + k
  BY <1>2, JoinedBytes, ZenonT(60)
<1> QED BY <1>2, <1>3, <1>4, <1>5, <1>6, ZenonT(60) DEF a, b, n

\* Bytes cut off the first of two sequences.
LEMMA CutFirst ==
    ASSUME NEW r \in Seq(Byte), NEW u \in Seq(Byte), NEW l \in Nat, l <= Len(r)
    PROVE  /\ SubSeq(r, l + 1, Len(r)) \in Seq(Byte)
           /\ Len(SubSeq(r, l + 1, Len(r))) = Len(r) - l
           /\ SubSeq(r, l + 1, Len(r)) \o u = SubSeq(r \o u, l + 1, Len(r \o u))
<1> DEFINE a == Len(r)
           b == Len(u)
           q == r \o u
           t == SubSeq(r, l + 1, a)
           p == SubSeq(q, l + 1, a + b)
           c == t \o u
<1>1. /\ q \in Seq(Byte) /\ a \in Nat /\ b \in Nat /\ Len(q) = a + b
      /\ \A x \in 1..a : q[x] = r[x]
      /\ \A x \in 1..b : q[a + x] = u[x]
  BY JoinedBytes, ZenonT(60)
<1>2. t \in Seq(Byte) /\ Len(t) = a - l /\ \A x \in 1..(a - l) : t[x] = r[l + x]
  <2>1. a <= Len(r)
    BY <1>1
  <2> QED BY <1>1, <2>1, CutBytes, ZenonT(60)
<1> HIDE DEF q
<1>3. p \in Seq(Byte) /\ Len(p) = a + b - l /\ \A x \in 1..(a + b - l) : p[x] = q[l + x]
  <2>1. a + b \in Nat /\ l <= a + b /\ a + b <= Len(q)
    BY <1>1
  <2> QED BY <1>1, <2>1, CutBytes, SMTT(60)
<1> HIDE DEF t, p
<1>4. /\ c \in Seq(Byte) /\ Len(c) = Len(t) + b
      /\ \A x \in 1..Len(t) : c[x] = t[x]
      /\ \A x \in 1..b : c[Len(t) + x] = u[x]
  BY <1>2, JoinedBytes, ZenonT(60)
<1>5. /\ Len(c) = a - l + b
      /\ \A x \in 1..(a - l) : c[x] = t[x]
      /\ \A x \in 1..b : c[a - l + x] = u[x]
  BY <1>2, <1>4, ZenonT(60)
<1>0. l <= a
  BY ZenonT(60)
<1> HIDE DEF a, b, c
<1>6. a - l + b = a + b - l
  BY <1>1
<1>7. \A x \in 1..(a + b - l) : c[x] = p[x]
  <2> SUFFICES ASSUME NEW x \in 1..(a + b - l) PROVE c[x] = p[x]
    BY ZenonT(60)
  <2>1. CASE x \in 1..(a - l)
    <3>1. l + x \in 1..a
      BY <1>0, <1>1, <2>1
    <3>2. c[x] = t[x] /\ t[x] = r[l + x] /\ q[l + x] = r[l + x] /\ p[x] = q[l + x]
      BY <1>1, <1>2, <1>3, <1>5, <2>1, <3>1, ZenonT(60)
    <3> QED BY <3>2, ZenonT(60)
  <2>2. CASE x \notin 1..(a - l)
    <3> DEFINE y == x - (a - l)
    <3>1. y \in 1..b /\ a - l + y = x /\ l + x = a + y
      BY <1>0, <1>1, <2>2
    <3> HIDE DEF y
    <3>2. c[a - l + y] = u[y] /\ q[a + y] = u[y] /\ p[x] = q[l + x]
      BY <1>1, <1>3, <1>5, <3>1, ZenonT(60)
    <3> QED BY <3>1, <3>2, ZenonT(60)
  <2> QED BY <2>1, <2>2, ZenonT(60)
<1>8. c = p
  <2>1. Len(c) = Len(p) /\ \A x \in 1..Len(c) : c[x] = p[x]
    BY <1>3, <1>5, <1>6, <1>7, ZenonT(60)
  <2> QED BY <1>3, <1>4, <2>1, SameBytes, ZenonT(60)
<1> QED BY <1>1, <1>2, <1>8, ZenonT(60) DEF a, b, c, p, q, t

----------------------------------------------------------------------------
(* From the client to the device.                                          *)

\* The units that are written and not handled yet.
Ahead ==
    [k \in 1..(written - Len(handled)) |->
       <<Len(handled) + k, Units[Len(handled) + k].len>>]

\* The device has handled the first units, and rbuf and what is under way hold
\* the others; a unit that is whole in rbuf is being handled.
InStep ==
    /\ plan \in Plans /\ written \in Nat /\ written <= Len(Units)
    /\ up \in Seq(Byte) /\ rbuf \in Seq(Byte) /\ handled \in Seq(Nat)
    /\ open \in BOOLEAN /\ parsing \in BOOLEAN /\ overflow \in BOOLEAN
    /\ Len(handled) <= written /\ \A i \in 1..Len(handled) : handled[i] = i
    /\ parsing => open
    /\ overflow => ~open
    /\ overflow => \E i \in 1..written : Units[i].len > RbufLimit - RxSz + 1
    /\ open => /\ parsing <=> HasUnit(rbuf)
               /\ Len(rbuf) <= RbufLimit
               /\ Laid(Ahead, rbuf \o up)

\* The units of a plan.
LEMMA UnitFacts ==
    ASSUME plan \in Plans
    PROVE  /\ Units \in Seq(UnitType) /\ Len(Units) \in Nat
           /\ \A i \in 1..Len(Units) : Units[i] \in UnitType /\ Units[i].len \in Nat \ {0}
<1>1. Units \in Seq(UnitType)
  BY RtspTransportAssumption, ZenonT(60) DEF Units
<1>2. Len(Units) \in Nat /\ \A i \in 1..Len(Units) : Units[i] \in UnitType
  BY <1>1, LenProperties, ZenonT(60)
<1>3. \A u \in UnitType : u.len \in Nat \ {0}
  BY ZenonT(60) DEF UnitType
<1> QED BY <1>1, <1>2, <1>3, ZenonT(60)

\* The first of the units ahead, and how many there are.
LEMMA AheadFacts ==
    ASSUME InStep
    PROVE  /\ Len(handled) \in Nat /\ written - Len(handled) \in Nat
           /\ Ahead \in Seq(Frame) /\ Len(Ahead) = written - Len(handled)
           /\ DOMAIN Ahead = 1..(written - Len(handled))
           /\ \A k \in 1..(written - Len(handled)) :
                /\ Len(handled) + k \in 1..written
                /\ Ahead[k] = <<Len(handled) + k, Units[Len(handled) + k].len>>
<1> DEFINE h == Len(handled)
<1>1. h \in Nat /\ written \in Nat /\ h <= written /\ written <= Len(Units) /\ plan \in Plans
  BY LenProperties, ZenonT(60) DEF InStep
<1> HIDE DEF h
<1>2. \A k \in 1..(written - h) : h + k \in 1..written /\ h + k \in 1..Len(Units) /\ h + k \in Nat
  BY <1>1, UnitFacts
<1>3. \A k \in 1..(written - h) : <<h + k, Units[h + k].len>> \in Frame
  BY <1>1, <1>2, UnitFacts, ZenonT(60) DEF Frame
<1> DEFINE g == [k \in 1..(written - h) |-> <<h + k, Units[h + k].len>>]
<1>4. g \in Seq(Frame) /\ Len(g) = written - h /\ DOMAIN g = 1..(written - h)
  <2> DEFINE w == written - h
  <2>1. w \in Nat
    BY <1>1
  <2>2. g \in [1..w -> Frame]
    BY <1>3, ZenonT(60)
  <2> HIDE DEF w, g
  <2>3. g \in Seq(Frame) /\ Len(g) = w /\ DOMAIN g = 1..w
    BY <2>1, <2>2
  <2> QED BY <2>3, ZenonT(60) DEF w
<1>5. \A k \in 1..(written - h) : g[k] = <<h + k, Units[h + k].len>>
  BY ZenonT(60)
<1>6. Ahead = g
  BY ZenonT(60) DEF Ahead, h
<1> HIDE DEF g
<1> QED BY <1>1, <1>2, <1>4, <1>5, <1>6 DEF h

\* The client writes.
LEMMA WriteReceived ==
    ASSUME InStep, ClientWrites
    PROVE  InStep'
<1> DEFINE h == Len(handled)
           n == written + 1
           l == Units[n].len
<1>1. /\ plan' = plan /\ rbuf' = rbuf /\ parsing' = parsing /\ handled' = handled
      /\ open' = open /\ overflow' = overflow
      /\ written' = n /\ written < Len(Units) /\ up' = up \o Bytes(n, l)
  BY ZenonT(60) DEF ClientWrites, parseVars, sessVars
<1>2. /\ plan \in Plans /\ written \in Nat /\ up \in Seq(Byte) /\ rbuf \in Seq(Byte)
      /\ h <= written /\ h \in Nat
  BY LenProperties, ZenonT(60) DEF InStep
<1>3. n \in Nat /\ n <= Len(Units) /\ h <= n /\ n \in 1..Len(Units) /\ l \in Nat \ {0}
  <2>1. n \in Nat /\ n <= Len(Units) /\ h <= n /\ n \in 1..Len(Units)
    BY <1>1, <1>2, UnitFacts
  <2> QED BY <1>2, <2>1, UnitFacts, ZenonT(60)
<1>4. Bytes(n, l) \in Seq(Byte) /\ up' \in Seq(Byte)
      /\ rbuf \o up' = (rbuf \o up) \o Bytes(n, l)
  <2>1. Bytes(n, l) \in Seq(Byte)
    BY <1>3, FrameBytes, ZenonT(60)
  <2>2. up \o Bytes(n, l) \in Seq(Byte)
    BY <1>2, <2>1, JoinedBytes, ZenonT(60)
  <2>3. rbuf \o (up \o Bytes(n, l)) = (rbuf \o up) \o Bytes(n, l)
    BY <1>2, <2>1, JoinAgain, ZenonT(60)
  <2> QED BY <1>1, <2>1, <2>2, <2>3, ZenonT(60)
<1>5. Ahead' = Append(Ahead, <<n, l>>)
  <2>1. /\ Ahead \in Seq(Frame) /\ Len(Ahead) = written - h
        /\ \A k \in 1..(written - h) : Ahead[k] = <<h + k, Units[h + k].len>>
    BY AheadFacts, ZenonT(60)
  <2>2. <<n, l>> \in Frame
    BY <1>3, ZenonT(60) DEF Frame
  <2>3. Ahead' = [k \in 1..(n - h) |-> <<h + k, Units[h + k].len>>]
    BY <1>1, ZenonT(60) DEF Ahead, Units
  <2> DEFINE a == Append(Ahead, <<n, l>>)
             g == [k \in 1..(n - h) |-> <<h + k, Units[h + k].len>>]
  <2>4. /\ a \in Seq(Frame) /\ Len(a) = written - h + 1 /\ a[written - h + 1] = <<n, l>>
        /\ \A k \in 1..(written - h) : a[k] = Ahead[k]
    <3>1. /\ a \in Seq(Frame) /\ Len(a) = Len(Ahead) + 1 /\ a[Len(Ahead) + 1] = <<n, l>>
          /\ \A k \in 1..Len(Ahead) : a[k] = Ahead[k]
      BY <2>1, <2>2, OneFrameMore, ZenonT(60)
    <3> QED BY <2>1, <3>1, ZenonT(60)
  <2>5. DOMAIN a = 1..(n - h) /\ DOMAIN g = 1..(n - h)
    <3>1. written - h + 1 = n - h
      BY <1>2
    <3>2. DOMAIN a = 1..Len(a)
      BY <2>4, LenProperties, ZenonT(60)
    <3> QED BY <2>4, <3>1, <3>2, ZenonT(60)
  <2>6. \A k \in 1..(n - h) : g[k] = <<h + k, Units[h + k].len>>
    BY ZenonT(60)
  <2> HIDE DEF a
  <2>7. ASSUME NEW k \in 1..(n - h) PROVE a[k] = g[k]
    <3>1. k \in 1..(written - h) \/ (k = written - h + 1 /\ h + k = n)
      BY <1>2
    <3>2. CASE k \in 1..(written - h)
      BY <2>1, <2>4, <2>6, <3>2, ZenonT(60)
    <3>3. CASE k = written - h + 1 /\ h + k = n
      BY <2>4, <2>6, <3>3, ZenonT(60)
    <3> QED BY <3>1, <3>2, <3>3, ZenonT(60)
  <2>8. a = [k \in DOMAIN a |-> a[k]]
    BY <2>4
  <2>9. a = g
    BY <2>5, <2>7, <2>8, ZenonT(60)
  <2> QED BY <2>3, <2>9, ZenonT(60) DEF a
<1>6. open => Laid(Ahead', rbuf' \o up')
  <2> SUFFICES ASSUME open PROVE Laid(Ahead', rbuf' \o up')
    BY ZenonT(60)
  <2>1. Laid(Ahead, rbuf \o up)
    BY ZenonT(60) DEF InStep
  <2> HIDE DEF n, l
  <2>2. Laid(Append(Ahead, <<n, l>>), (rbuf \o up) \o Bytes(n, l))
    BY <1>3, <2>1, LaidAppend, ZenonT(60)
  <2> QED BY <1>1, <1>4, <1>5, <2>2, ZenonT(60)
<1>7. HasUnit(rbuf)' <=> HasUnit(rbuf)
  BY <1>1, ZenonT(60) DEF HasUnit, Units
<1>8. overflow' => \E i \in 1..written' : Units'[i].len > RbufLimit - RxSz + 1
  <2>1. \A i \in 1..written : i \in 1..n
    BY <1>2
  <2>2. Units' = Units
    BY <1>1, ZenonT(60) DEF Units
  <2> QED BY <1>1, <2>1, <2>2, ZenonT(60) DEF InStep
<1>9. written' \in Nat /\ written' <= Len(Units') /\ Len(handled') <= written'
  BY <1>1, <1>3, ZenonT(60) DEF Units
<1> HIDE DEF h, n, l
<1> QED BY <1>1, <1>4, <1>6, <1>7, <1>8, <1>9, ZenonT(60) DEF InStep

\* rbuf begins with the next unit.
LEMMA NextUnit ==
    ASSUME InStep, open, rbuf # <<>>
    PROVE  /\ Ahead # <<>> /\ Ahead[1] = <<Len(handled) + 1, Units[Len(handled) + 1].len>>
           /\ rbuf[1][1] = Len(handled) + 1 /\ Len(handled) + 1 \in 1..written
           /\ Units[Len(handled) + 1].len \in Nat \ {0}
<1> DEFINE h == Len(handled)
           q == rbuf \o up
<1>1. rbuf \in Seq(Byte) /\ up \in Seq(Byte) /\ Laid(Ahead, q) /\ plan \in Plans
      /\ written \in Nat /\ written <= Len(Units)
  BY ZenonT(60) DEF InStep
<1>2. /\ q \in Seq(Byte) /\ Len(rbuf) \in Nat /\ Len(up) \in Nat /\ Len(q) = Len(rbuf) + Len(up)
      /\ \A x \in 1..Len(rbuf) : q[x] = rbuf[x]
  BY <1>1, JoinedBytes, ZenonT(60)
<1>3. 1 \in 1..Len(rbuf) /\ Len(rbuf) # 0
  BY <1>1, <1>2, EmptySeq
<1>4. q # <<>>
  <2>1. Len(q) # 0
    BY <1>2, <1>3
  <2> QED BY <1>2, <2>1, EmptySeq, ZenonT(60)
<1> HIDE DEF q
<1>5. Ahead # <<>> /\ Ahead[1][2] \in Nat \ {0} /\ \A j \in 1..Ahead[1][2] : q[j] = <<Ahead[1][1], j>>
      /\ 1 \in DOMAIN Ahead
  <2>1. /\ q = <<>> <=> Ahead = <<>>
        /\ Ahead # <<>> => /\ 1 \in DOMAIN Ahead /\ Ahead[1][2] \in Nat \ {0}
                           /\ \A j \in 1..Ahead[1][2] : q[j] = <<Ahead[1][1], j>>
    BY <1>1, LaidHead, ZenonT(60)
  <2> QED BY <1>4, <2>1, ZenonT(60)
<1>6. 1 \in 1..Ahead[1][2]
  BY <1>5
<1>7. q[1] = <<Ahead[1][1], 1>>
  BY <1>5, <1>6, ZenonT(60)
<1>8. /\ h + 1 \in 1..written /\ Ahead[1] = <<h + 1, Units[h + 1].len>>
  <2>1. /\ DOMAIN Ahead = 1..(written - h)
        /\ \A k \in 1..(written - h) :
             /\ h + k \in 1..written
             /\ Ahead[k] = <<h + k, Units[h + k].len>>
    BY AheadFacts, ZenonT(60)
  <2>2. 1 \in 1..(written - h)
    BY <1>5, <2>1
  <2> QED BY <2>1, <2>2, ZenonT(60)
<1>9. rbuf[1] = q[1]
  BY <1>2, <1>3, ZenonT(60)
<1>10. h + 1 \in 1..Len(Units)
  BY <1>1, <1>8, UnitFacts
<1> QED BY <1>1, <1>5, <1>7, <1>8, <1>9, <1>10, UnitFacts

\* Bytes arrive.
LEMMA RecvInStep ==
    ASSUME InStep, rtsp_recv_handler
    PROVE  InStep'
<1>1. /\ open /\ ~parsing
      /\ UNCHANGED <<plan, written, handled>>
  BY ZenonT(60) DEF rtsp_recv_handler, Idle, clientVars
<1>2. PICK k \in 1..RxSz :
        /\ k <= Len(up) /\ Received(k) /\ up' = SubSeq(up, k + 1, Len(up))
  BY ZenonT(60) DEF rtsp_recv_handler
<1>3. /\ rbuf' = rbuf \o SubSeq(up, 1, k)
      /\ overflow' = (Len(rbuf') > RbufLimit)
      /\ open' = ~overflow'
      /\ parsing' = (open' /\ HasUnit(rbuf'))
  BY <1>2, ZenonT(60) DEF Received
<1>4. /\ rbuf \in Seq(Byte) /\ up \in Seq(Byte) /\ Laid(Ahead, rbuf \o up) /\ plan \in Plans
      /\ written \in Nat /\ ~HasUnit(rbuf) /\ Len(rbuf) \in Nat
  BY <1>1, LenProperties, ZenonT(60) DEF InStep
<1>5. k \in Nat /\ k <= RxSz /\ RxSz \in Nat /\ RbufLimit \in Nat /\ RxSz <= RbufLimit
  BY RtspTransportAssumption
<1>6. /\ up' \in Seq(Byte) /\ rbuf' \in Seq(Byte) /\ Len(rbuf') = Len(rbuf) + k
      /\ rbuf' \o up' = rbuf \o up
  <2>1. /\ SubSeq(up, k + 1, Len(up)) \in Seq(Byte)
        /\ rbuf \o SubSeq(up, 1, k) \in Seq(Byte) /\ Len(rbuf \o SubSeq(up, 1, k)) = Len(rbuf) + k
        /\ (rbuf \o SubSeq(up, 1, k)) \o SubSeq(up, k + 1, Len(up)) = rbuf \o up
    BY <1>2, <1>4, <1>5, Regroup, ZenonT(60)
  <2> QED BY <1>2, <1>3, <2>1, ZenonT(60)
<1>7. overflow' \in BOOLEAN /\ open' \in BOOLEAN /\ parsing' \in BOOLEAN
      /\ (parsing' => open') /\ (overflow' => ~open')
      /\ (open' => ~(Len(rbuf') > RbufLimit))
  <2>1. (Len(rbuf') > RbufLimit) \in BOOLEAN
    BY <1>4, <1>5, <1>6
  <2> QED BY <1>3, <2>1, ZenonT(60)
<1>8. Units' = Units /\ (HasUnit(rbuf') <=> HasUnit(rbuf)')
  BY <1>1, ZenonT(60) DEF HasUnit, Units
<1>9. Laid(Ahead', rbuf' \o up')
  <2>1. Ahead' = Ahead
    BY <1>1, <1>8, ZenonT(60) DEF Ahead
  <2> QED BY <1>4, <1>6, <2>1, ZenonT(60)
<1>10. ASSUME overflow' PROVE \E i \in 1..written : Units[i].len > RbufLimit - RxSz + 1
  <2>1. Len(rbuf) + k > RbufLimit
    BY <1>3, <1>6, <1>10, ZenonT(60)
  <2>2. Len(rbuf) >= RbufLimit - RxSz + 1
    BY <1>4, <1>5, <2>1
  <2>3. rbuf # <<>>
    <3>1. Len(rbuf) # 0
      BY <1>5, <2>2
    <3> QED BY <1>4, <3>1, EmptySeq, ZenonT(60)
  <2>4. /\ rbuf[1][1] = Len(handled) + 1 /\ Len(handled) + 1 \in 1..written
        /\ Units[Len(handled) + 1].len \in Nat
    BY <1>1, <2>3, NextUnit, ZenonT(60)
  <2>5. ~(Units[Len(handled) + 1].len <= Len(rbuf))
    BY <1>4, <2>3, <2>4, ZenonT(60) DEF HasUnit
  <2>6. Units[Len(handled) + 1].len > RbufLimit - RxSz + 1
    <3> DEFINE v == Units[Len(handled) + 1].len
    <3>1. v \in Nat /\ ~(v <= Len(rbuf))
      BY <2>4, <2>5, ZenonT(60)
    <3> HIDE DEF v
    <3>2. v > RbufLimit - RxSz + 1
      BY <1>4, <1>5, <2>2, <3>1
    <3> QED BY <3>2, ZenonT(60) DEF v
  <2> QED BY <2>4, <2>6, ZenonT(60)
<1>11. open' => Len(rbuf') <= RbufLimit
  <2>1. Len(rbuf') \in Nat
    BY <1>4, <1>5, <1>6
  <2> QED BY <1>5, <1>7, <2>1
<1>12. open' => (parsing' <=> HasUnit(rbuf)')
  BY <1>3, <1>8, ZenonT(60)
<1>13. /\ plan' \in Plans /\ written' \in Nat /\ written' <= Len(Units') /\ handled' \in Seq(Nat)
       /\ Len(handled') <= written' /\ \A i \in 1..Len(handled') : handled'[i] = i
  BY <1>1, <1>8, ZenonT(60) DEF InStep
<1>14. overflow' => \E i \in 1..written' : Units'[i].len > RbufLimit - RxSz + 1
  BY <1>1, <1>8, <1>10, ZenonT(60)
<1> QED BY <1>6, <1>7, <1>9, <1>11, <1>12, <1>13, <1>14, ZenonT(60) DEF InStep

\* What handling a unit does to the connection.
LEMMA HandleShape ==
    ASSUME HandleUnit
    PROVE  /\ parsing /\ out = <<>>
           /\ handled' = Append(handled, rbuf[1][1])
           /\ rbuf' = SubSeq(rbuf, Units[rbuf[1][1]].len + 1, Len(rbuf))
           /\ parsing' = (open' /\ HasUnit(rbuf'))
           /\ open' = open \/ open' = FALSE
           /\ UNCHANGED <<plan, written, up, overflow, sends, sendq, wire, got>>
<1> DEFINE n == rbuf[1][1]
<1>1. /\ parsing /\ out = <<>> /\ handled' = Append(handled, n)
      /\ InterleavedFrame(Units[n], n) \/ dispatch_rtsp(Units[n])
      /\ rbuf' = SubSeq(rbuf, Units[n].len + 1, Len(rbuf))
      /\ parsing' = (open' /\ HasUnit(rbuf'))
      /\ UNCHANGED <<plan, written, up, overflow, sends, sendq, wire, got>>
  BY ZenonT(60) DEF HandleUnit, Shift, clientVars, sendVars
<1> HIDE DEF n
<1>2. open' = open \/ open' = FALSE
  BY <1>1, ZenonT(60) DEF InterleavedFrame, dispatch_rtsp, Keeps, handle_setup, handle_play, handle_teardown
<1> QED BY <1>1, <1>2, ZenonT(60) DEF n

\* A unit is handled.
LEMMA HandleInStep ==
    ASSUME InStep, HandleUnit
    PROVE  InStep'
<1> DEFINE h == Len(handled)
           n == h + 1
           l == Units[n].len
<1>1. /\ parsing /\ handled' = Append(handled, rbuf[1][1])
      /\ rbuf' = SubSeq(rbuf, Units[rbuf[1][1]].len + 1, Len(rbuf))
      /\ parsing' = (open' /\ HasUnit(rbuf'))
      /\ open' = open \/ open' = FALSE
      /\ UNCHANGED <<plan, written, up, overflow>>
  BY HandleShape, ZenonT(60)
<1>2. /\ rbuf \in Seq(Byte) /\ up \in Seq(Byte) /\ Laid(Ahead, rbuf \o up) /\ plan \in Plans
      /\ written \in Nat /\ HasUnit(rbuf) /\ Len(rbuf) \in Nat /\ open /\ overflow = FALSE
      /\ handled \in Seq(Nat) /\ h \in Nat /\ Len(rbuf) <= RbufLimit
      /\ \A i \in 1..h : handled[i] = i
  BY <1>1, LenProperties, ZenonT(60) DEF InStep
<1>3. rbuf # <<>>
  BY <1>2, ZenonT(60) DEF HasUnit
<1>4. /\ Ahead # <<>> /\ Ahead[1] = <<n, l>> /\ rbuf[1][1] = n /\ n \in 1..written
      /\ l \in Nat \ {0}
  BY <1>2, <1>3, NextUnit, ZenonT(60)
<1>5. l <= Len(rbuf)
  BY <1>2, <1>4, ZenonT(60) DEF HasUnit
<1>6. handled' = Append(handled, n) /\ rbuf' = SubSeq(rbuf, l + 1, Len(rbuf))
  BY <1>1, <1>4, ZenonT(60)
<1>7. /\ rbuf' \in Seq(Byte) /\ Len(rbuf') = Len(rbuf) - l
      /\ rbuf' \o up = SubSeq(rbuf \o up, l + 1, Len(rbuf \o up))
  BY <1>2, <1>4, <1>5, <1>6, CutFirst, ZenonT(60)
<1>8. /\ handled' \in Seq(Nat) /\ Len(handled') = n /\ n <= written'
      /\ \A i \in 1..n : handled'[i] = i
  BY <1>1, <1>2, <1>4, <1>6
<1>9. Ahead' = Tail(Ahead)
  <2>1. /\ Ahead \in Seq(Frame) /\ Len(Ahead) = written - h
        /\ \A k \in 1..(written - h) : Ahead[k] = <<h + k, Units[h + k].len>>
    BY AheadFacts, ZenonT(60)
  <2>2. Ahead' = [k \in 1..(written - n) |-> <<n + k, Units[n + k].len>>]
    BY <1>1, <1>8, ZenonT(60) DEF Ahead, Units
  <2> DEFINE g == [k \in 1..(written - n) |-> <<n + k, Units[n + k].len>>]
             t == Tail(Ahead)
  <2>3. t \in Seq(Frame) /\ Len(t) = written - h - 1
        /\ \A k \in 1..(written - h - 1) : t[k] = Ahead[k + 1]
    BY <1>4, <2>1, HeadTailProperties
  <2>4. written - h - 1 = written - n
    BY <1>2
  <2>5. DOMAIN t = 1..(written - n) /\ t = [k \in DOMAIN t |-> t[k]]
    BY <2>3, <2>4, LenProperties, ZenonT(60)
  <2>6. \A k \in 1..(written - n) : g[k] = <<n + k, Units[n + k].len>>
    BY ZenonT(60)
  <2> HIDE DEF t
  <2>7. ASSUME NEW k \in 1..(written - n) PROVE t[k] = g[k]
    <3>1. k + 1 \in 1..(written - h) /\ h + (k + 1) = n + k /\ k \in 1..(written - h - 1)
      BY <1>2
    <3>2. t[k] = <<h + (k + 1), Units[h + (k + 1)].len>>
      BY <2>1, <2>3, <3>1, ZenonT(60)
    <3> QED BY <2>6, <3>1, <3>2, ZenonT(60)
  <2>8. t = g
    BY <2>5, <2>7, ZenonT(60)
  <2> QED BY <2>2, <2>8, ZenonT(60) DEF t
<1>10. Laid(Ahead', rbuf' \o up')
  <2>1. Ahead[1][2] = l
    BY <1>4
  <2>2. Laid(Tail(Ahead), SubSeq(rbuf \o up, l + 1, Len(rbuf \o up)))
    BY <1>2, <1>4, <2>1, LaidDrop, ZenonT(60)
  <2> QED BY <1>1, <1>7, <1>9, <2>2, ZenonT(60)
<1>11. HasUnit(rbuf') <=> HasUnit(rbuf)'
  BY <1>1, ZenonT(60) DEF HasUnit, Units
<1>12. open' \in BOOLEAN /\ parsing' \in BOOLEAN /\ overflow' = FALSE /\ overflow' \in BOOLEAN
       /\ (parsing' => open') /\ (open' => (parsing' <=> HasUnit(rbuf)'))
  BY <1>1, <1>2, <1>11, ZenonT(60)
<1>13. Len(rbuf') <= RbufLimit
  <2> HIDE DEF l
  <2> QED BY <1>2, <1>4, <1>5, <1>7, RtspTransportAssumption
<1>14. /\ plan' \in Plans /\ written' \in Nat /\ written' <= Len(Units') /\ up' \in Seq(Byte)
  BY <1>1, ZenonT(60) DEF InStep, Units
<1>15. Len(handled') <= written' /\ \A i \in 1..Len(handled') : handled'[i] = i
  BY <1>8, ZenonT(60)
<1> QED BY <1>7, <1>8, <1>10, <1>12, <1>13, <1>14, <1>15, ZenonT(60) DEF InStep

\* Every step keeps the units in step.
LEMMA NextInStep ==
    ASSUME InStep, [Next]_vars
    PROVE  InStep'
<1>1. CASE ClientWrites
  BY <1>1, WriteReceived, ZenonT(60)
<1>2. CASE rtsp_recv_handler
  BY <1>2, RecvInStep, ZenonT(60)
<1>3. CASE HandleUnit
  BY <1>3, HandleInStep, ZenonT(60)
<1>4. CASE UNCHANGED <<plan, written, up, rbuf, parsing, handled, open, overflow>>
  <2>1. Units' = Units /\ Ahead' = Ahead /\ (HasUnit(rbuf)' <=> HasUnit(rbuf))
    BY <1>4, ZenonT(60) DEF Units, Ahead, HasUnit
  <2> QED BY <1>4, <2>1, ZenonT(60) DEF InStep
<1>5. \/ ClientWrites \/ rtsp_recv_handler \/ HandleUnit
      \/ UNCHANGED <<plan, written, up, rbuf, parsing, handled, open, overflow>>
  BY ZenonT(60) DEF Next, Device, readLoop, tcp_send, dequeue, audio_send_timer, video_send_timer,
     SendTimer, clientVars, parseVars, sessVars, vars
<1> QED BY <1>1, <1>2, <1>3, <1>4, <1>5, ZenonT(60)

\* It starts in step.
LEMMA InitInStep ==
    ASSUME Init
    PROVE  InStep
<1>1. /\ plan \in Plans /\ written = 0 /\ up = <<>> /\ rbuf = <<>> /\ parsing = FALSE
      /\ handled = <<>> /\ open = TRUE /\ overflow = FALSE
  BY ZenonT(60) DEF Init
<1>2. Len(handled) = 0 /\ Ahead = <<>> /\ rbuf \o up = <<>>
  BY <1>1 DEF Ahead
<1>3. Laid(Ahead, rbuf \o up)
  BY <1>2, LaidNone, ZenonT(60)
<1>4. up \in Seq(Byte) /\ rbuf \in Seq(Byte) /\ handled \in Seq(Nat) /\ written \in Nat
      /\ written <= Len(Units) /\ Len(rbuf) <= RbufLimit /\ Len(handled) <= written
      /\ \A i \in 1..Len(handled) : handled[i] = i
  BY <1>1, <1>2, UnitFacts, RtspTransportAssumption
<1>5. ~HasUnit(rbuf)
  BY <1>1, ZenonT(60) DEF HasUnit
<1> QED BY <1>1, <1>3, <1>4, <1>5, ZenonT(60) DEF InStep

\* Units are always in step.
LEMMA AlwaysInStep == Spec => []InStep
<1>1. Init => InStep
  BY InitInStep, ZenonT(60)
<1>2. InStep /\ [Next]_vars => InStep'
  BY NextInStep, ZenonT(60)
<1> QED BY <1>1, <1>2, PTL DEF Spec

\* The device handles the client's units one after the other and loses no byte.
THEOREM HandledInOrder == Spec => []UnitsInOrder
<1>1. InStep => UnitsInOrder
  <2> SUFFICES ASSUME InStep PROVE UnitsInOrder
    BY ZenonT(60)
  <2> DEFINE h == Len(handled)
             rest == rbuf \o up
  <2>1. handled = [i \in 1..h |-> i]
    <3>1. handled \in Seq(Nat) /\ \A i \in 1..h : handled[i] = i
      BY ZenonT(60) DEF InStep
    <3>2. DOMAIN handled = 1..h /\ handled = [i \in DOMAIN handled |-> handled[i]]
      BY <3>1, LenProperties, ZenonT(60)
    <3> QED BY <3>1, <3>2, ZenonT(60)
  <2>2. ASSUME open
        PROVE  IF rest = <<>> THEN h = written
               ELSE /\ rest[1] = <<h + 1, 1>>
                    /\ \A i \in 1..(Len(rest) - 1) : rest[i + 1] = Following(rest[i])
                    /\ rest[Len(rest)] = <<written, Units[written].len>>
    <3>1. Laid(Ahead, rest) /\ written \in Nat
      BY <2>2, ZenonT(60) DEF InStep
    <3>2. /\ h \in Nat /\ written - h \in Nat
          /\ Ahead \in Seq(Frame) /\ Len(Ahead) = written - h /\ DOMAIN Ahead = 1..(written - h)
          /\ \A k \in 1..(written - h) : Ahead[k] = <<h + k, Units[h + k].len>>
      BY AheadFacts, ZenonT(60)
    <3> HIDE DEF rest
    <3>3. /\ rest \in Seq(Byte) /\ (rest = <<>> <=> Ahead = <<>>)
          /\ Ahead # <<>> =>
               /\ Ahead[1][2] \in Nat \ {0} /\ \A j \in 1..Ahead[1][2] : rest[j] = <<Ahead[1][1], j>>
               /\ rest[Len(rest)] = Ahead[Len(Ahead)]
      BY <3>1, LaidHead
    <3>4. CASE rest = <<>>
      <4>1. written - h = 0
        BY <3>2, <3>3, <3>4, EmptySeq, ZenonT(60)
      <4> QED BY <3>1, <3>2, <3>4, <4>1
    <3>5. CASE rest # <<>>
      <4> DEFINE w == written - h
      <4>1. w # 0 /\ w \in Nat /\ 1 \in 1..w /\ w \in 1..w /\ h + w = written
        BY <3>1, <3>2, <3>3, <3>5, EmptySeq
      <4>2. rest[1] = <<h + 1, 1>>
        <5>1. 1 \in 1..Ahead[1][2]
          BY <3>3, <3>5
        <5> QED BY <3>2, <3>3, <3>5, <4>1, <5>1
      <4>3. rest[Len(rest)] = <<written, Units[written].len>>
        <5>1. Ahead[w] = <<h + w, Units[h + w].len>> /\ Len(Ahead) = w
          BY <3>2, <4>1, ZenonT(60)
        <5> QED BY <3>3, <3>5, <4>1, <5>1, ZenonT(60)
      <4>4. ASSUME NEW i \in 1..(Len(rest) - 1) PROVE rest[i + 1] = Following(rest[i])
        <5>1. i \in 1..Len(rest) /\ i # Len(rest)
          BY <3>3, LenProperties
        <5>2. PICK k \in DOMAIN Ahead : \E j \in 1..Ahead[k][2] : ByteOf(Ahead, rest, i, k, j)
          BY <3>1, <5>1, LaidNext, ZenonT(60)
        <5>7. PICK j \in 1..Ahead[k][2] : ByteOf(Ahead, rest, i, k, j)
          BY <5>2, ZenonT(60)
        <5>3. /\ k \in Nat /\ rest[i] = <<Ahead[k][1], j>>
              /\ \/ j # Ahead[k][2] /\ rest[i + 1] = <<Ahead[k][1], j + 1>>
                 \/ j = Ahead[k][2] /\ k + 1 \in DOMAIN Ahead /\ rest[i + 1] = <<Ahead[k + 1][1], 1>>
          BY <5>1, <5>7, ZenonT(60) DEF ByteOf
        <5>4. Ahead[k][1] = h + k /\ Ahead[k][2] = Units[h + k].len
              /\ (k + 1 \in DOMAIN Ahead => Ahead[k + 1][1] = h + (k + 1))
          BY <3>2
        <5>5. h + (k + 1) = h + k + 1
          BY <3>2
        <5>6. rest[i][1] = h + k /\ rest[i][2] = j
          BY <5>3, <5>4
        <5> QED BY <5>3, <5>4, <5>5, <5>6, ZenonT(60) DEF Following
      <4> QED BY <3>5, <4>2, <4>3, <4>4, ZenonT(60)
    <3> QED BY <3>4, <3>5, ZenonT(60)
  <2> QED BY <2>1, <2>2, ZenonT(60) DEF UnitsInOrder
<1> QED BY <1>1, AlwaysInStep, PTL

----------------------------------------------------------------------------
(* The client's record and what is sent.                                   *)

Session ==
    [state : {"IDLE", "READY", "PLAYING"}, interleaved : BOOLEAN, setup : SUBSET Track,
     sockets : SUBSET Track, ch : [Track -> Int]]

Item ==
    [k : {"R"}, status : Nat, len : {ReplyLen}]
      \cup [k : {"$"}, track : Track, ch : Int, at : Nat, len : {MediaLen}]

\* An item that is sent.
LEMMA ItemFacts ==
    ASSUME NEW x \in Item
    PROVE  x.len \in Nat \ {0} /\ x.len <= TxqMax
BY RtspTransportAssumption, ZenonT(60) DEF Item

\* The record of a new client.
LEMMA NewSessionType ==
    NewSession \in Session
<1>1. [video |-> 0, audio |-> 0, back |-> 255] \in [Track -> Int]
  BY DEF Track
<1> QED BY <1>1, ZenonT(60) DEF NewSession, Session

\* A reply is an item, and so is a frame of media.
LEMMA Items ==
    /\ \A st \in Nat : Reply(st) \in Item /\ Reply(st).k = "R"
    /\ \A s \in Session, t \in Track : Len(handled) \in Nat => Media(s, t) \in Item
<1>1. \A st \in Nat : Reply(st) \in Item /\ Reply(st).k = "R"
  BY ZenonT(60) DEF Reply, Item
<1>2. \A s \in Session, t \in Track : Len(handled) \in Nat => Media(s, t) \in Item
  <2> SUFFICES ASSUME NEW s \in Session, NEW t \in Track, Len(handled) \in Nat
               PROVE  Media(s, t) \in Item
    BY ZenonT(60)
  <2>1. s.ch[t] \in Int
    BY ZenonT(60) DEF Session
  <2> QED BY <2>1, ZenonT(60) DEF Media, Item
<1> QED BY <1>1, <1>2, ZenonT(60)

\* The frames of media on tracks.
LEMMA InterleavedItems ==
    ASSUME NEW s \in Session, NEW tracks \in Seq(Track), Len(handled) \in Nat
    PROVE  /\ Interleaved(s, tracks) \in Seq(Item)
           /\ \A i \in DOMAIN Interleaved(s, tracks) :
                \E j \in DOMAIN tracks : Interleaved(s, tracks)[i] = Media(s, tracks[j])
<1>1. CASE s.interleaved
  <2> DEFINE g == [i \in DOMAIN tracks |-> Media(s, tracks[i])]
  <2>1. Interleaved(s, tracks) = g
    BY <1>1, ZenonT(60) DEF Interleaved
  <2>2. Len(tracks) \in Nat /\ DOMAIN tracks = 1..Len(tracks)
        /\ \A j \in DOMAIN tracks : tracks[j] \in Track
    BY LenProperties, ZenonT(60)
  <2>3. \A j \in DOMAIN tracks : Media(s, tracks[j]) \in Item
    BY <2>2, Items, ZenonT(60)
  <2>4. g \in [1..Len(tracks) -> Item]
    BY <2>2, <2>3, ZenonT(60)
  <2>5. \A i \in DOMAIN g : i \in DOMAIN tracks /\ g[i] = Media(s, tracks[i])
    BY ZenonT(60)
  <2> HIDE DEF g
  <2>6. g \in Seq(Item)
    BY <2>2, <2>4
  <2> QED BY <2>1, <2>5, <2>6, ZenonT(60)
<1>2. CASE ~s.interleaved
  <2>1. Interleaved(s, tracks) = <<>>
    BY <1>2, ZenonT(60) DEF Interleaved
  <2> QED BY <2>1
<1>3. s.interleaved \in BOOLEAN
  BY ZenonT(60) DEF Session
<1> QED BY <1>1, <1>2, <1>3, ZenonT(60)

\* q replies and may begin with media of s.
Answers(q, s, audio) ==
    /\ q \in Seq(Item)
    /\ \A i \in DOMAIN q :
         \/ q[i] = Reply(200)
         \/ \E t \in Track :
              /\ t = "video" \/ (t = "audio" /\ audio # <<>>)
              /\ q[i] = Media(s, t)

\* What PLAY sends.
LEMMA PlayItems ==
    ASSUME NEW s \in Session, NEW video \in {<<"video">>, <<>>}, NEW audio \in {<<"audio">>, <<>>},
           Len(handled) \in Nat
    PROVE  Answers(<<Reply(200)>> \o Interleaved(s, video \o audio), s, audio)
<1> DEFINE tracks == video \o audio
           a == <<Reply(200)>>
           b == Interleaved(s, tracks)
           c == a \o b
<1>1. /\ tracks \in Seq(Track)
      /\ \A j \in DOMAIN tracks : tracks[j] = "video" \/ (tracks[j] = "audio" /\ audio # <<>>)
  <2>1. "video" \in Track /\ "audio" \in Track
    BY ZenonT(60) DEF Track
  <2>2. CASE video = <<>> /\ audio = <<>>
    BY <2>2
  <2>3. CASE video = <<"video">> /\ audio = <<>>
    BY <2>1, <2>3
  <2>4. CASE video = <<>> /\ audio = <<"audio">>
    BY <2>1, <2>4
  <2>5. CASE video = <<"video">> /\ audio = <<"audio">>
    BY <2>1, <2>5
  <2> QED BY <2>2, <2>3, <2>4, <2>5, ZenonT(60)
<1> HIDE DEF tracks
<1>2. /\ b \in Seq(Item)
      /\ \A i \in DOMAIN b : \E j \in DOMAIN tracks : b[i] = Media(s, tracks[j])
  BY <1>1, InterleavedItems, ZenonT(60)
<1>3. a \in Seq(Item) /\ Len(a) = 1 /\ a[1] = Reply(200)
  BY Items
<1> HIDE DEF a, b
<1>4. /\ c \in Seq(Item) /\ Len(c) = 1 + Len(b)
      /\ \A i \in 1..(1 + Len(b)) : c[i] = IF i <= 1 THEN a[i] ELSE b[i - 1]
  <2>1. /\ c \in Seq(Item) /\ Len(c) = Len(a) + Len(b)
        /\ \A i \in 1..(Len(a) + Len(b)) : c[i] = IF i <= Len(a) THEN a[i] ELSE b[i - Len(a)]
    <3>1. a \in Seq(Item) /\ b \in Seq(Item)
      BY <1>2, <1>3, ZenonT(60)
    <3> QED BY <3>1, ConcatProperties, ZenonT(60)
  <2> QED BY <1>3, <2>1, ZenonT(60)
<1>5. Len(b) \in Nat /\ DOMAIN b = 1..Len(b) /\ DOMAIN c = 1..Len(c)
  BY <1>2, <1>4, LenProperties, ZenonT(60)
<1> HIDE DEF c
<1>6. ASSUME NEW i \in DOMAIN c
      PROVE  \/ c[i] = Reply(200)
             \/ \E t \in Track : (t = "video" \/ (t = "audio" /\ audio # <<>>)) /\ c[i] = Media(s, t)
  <2>1. CASE i = 1
    BY <1>3, <1>4, <1>5, <2>1
  <2>2. CASE i # 1
    <3>1. i \in 1..(1 + Len(b)) /\ ~(i <= 1) /\ i - 1 \in DOMAIN b
      BY <1>4, <1>5, <2>2
    <3>2. c[i] = b[i - 1]
      BY <1>4, <3>1, ZenonT(60)
    <3>3. PICK j \in DOMAIN tracks : b[i - 1] = Media(s, tracks[j])
      BY <1>2, <3>1, ZenonT(60)
    <3>4. tracks[j] \in Track
      BY <1>1, LenProperties, ZenonT(60)
    <3> QED BY <1>1, <3>2, <3>3, <3>4, ZenonT(60)
  <2> QED BY <2>1, <2>2, ZenonT(60)
<1>7. Answers(c, s, audio)
  BY <1>4, <1>6, ZenonT(60) DEF Answers
<1> QED BY <1>7, ZenonT(60) DEF a, b, c, tracks

\* What SETUP does.
LEMMA SetupEffect ==
    ASSUME sess \in Session, NEW u \in UnitType, u.k = "SETUP", handle_setup(u)
    PROVE  /\ UNCHANGED <<open, aout, refused, played>>
           /\ \E st \in Nat : out' = <<Reply(st)>>
           /\ sess' \in Session
           /\ \/ sess' = sess /\ u.by # "tcp"
              \/ /\ sess'.setup = sess.setup \cup {SetupTrack(u)} /\ sess'.state = "READY"
                 /\ u.by = "tcp" => sess'.ch = [sess.ch EXCEPT ![SetupTrack(u)] = Channel(u)]
<1> DEFINE t == SetupTrack(u)
           c == Channel(u)
           ready == [sess EXCEPT !.setup = @ \cup {t}, !.state = "READY"]
<1>1. t \in Track /\ c \in Int
  <2>1. u.track \in Track \cup {"base"} /\ u.ch \in Int
    BY ZenonT(60) DEF UnitType
  <2>2. t \in Track
    BY <2>1, ZenonT(60) DEF SetupTrack, Track
  <2>3. c \in Int
    BY <2>1 DEF Channel, NoChannel
  <2> QED BY <2>2, <2>3, ZenonT(60)
<1>2. \/ /\ u.by = "tcp"
         /\ Keeps([ready EXCEPT !.interleaved = TRUE, !.ch[t] = c])
         /\ out' = <<Reply(200)>>
      \/ /\ u.by # "tcp" /\ Keeps(sess) /\ out' \in {<<Reply(461)>>, <<Reply(500)>>}
      \/ /\ u.by # "tcp" /\ Keeps([ready EXCEPT !.sockets = @ \cup {t}])
         /\ out' = <<Reply(200)>>
  BY DEF handle_setup
<1>3. UNCHANGED <<open, aout, refused, played>>
  BY <1>2, ZenonT(60) DEF Keeps
<1>4. \E st \in Nat : out' = <<Reply(st)>>
  <2>1. 200 \in Nat /\ 461 \in Nat /\ 500 \in Nat
    OBVIOUS
  <2>2. out' \in {<<Reply(200)>>, <<Reply(461)>>, <<Reply(500)>>}
    BY <1>2, ZenonT(60)
  <2>3. CASE out' = <<Reply(200)>>
    BY <2>1, <2>3, ZenonT(60)
  <2>4. CASE out' = <<Reply(461)>>
    BY <2>1, <2>4, ZenonT(60)
  <2>5. CASE out' = <<Reply(500)>>
    BY <2>1, <2>5, ZenonT(60)
  <2> QED BY <2>2, <2>3, <2>4, <2>5, ZenonT(60)
<1> HIDE DEF t, c
<1>5. ready \in Session /\ ready.setup = sess.setup \cup {t} /\ ready.state = "READY"
      /\ ready.ch = sess.ch
  BY <1>1, ZenonT(60) DEF Session
<1>6. CASE u.by = "tcp" /\ sess' = [ready EXCEPT !.interleaved = TRUE, !.ch[t] = c]
  <2> HIDE DEF ready
  <2>1. /\ sess'.setup = ready.setup /\ sess'.state = ready.state
        /\ sess'.ch = [ready.ch EXCEPT ![t] = c]
        /\ sess' \in Session
    BY <1>1, <1>5, <1>6, ZenonT(60) DEF Session
  <2>2. /\ sess'.setup = sess.setup \cup {t} /\ sess'.state = "READY"
        /\ sess'.ch = [sess.ch EXCEPT ![t] = c]
    BY <1>5, <2>1, ZenonT(60)
  <2> QED BY <1>3, <1>4, <2>1, <2>2, ZenonT(60) DEF t, c
<1>7. CASE u.by # "tcp" /\ sess' = sess
  BY <1>3, <1>4, <1>7, ZenonT(60)
<1>8. CASE u.by # "tcp" /\ sess' = [ready EXCEPT !.sockets = @ \cup {t}]
  <2> HIDE DEF ready
  <2>1. sess'.setup = ready.setup /\ sess'.state = ready.state /\ sess' \in Session
    BY <1>1, <1>5, <1>8, ZenonT(60) DEF Session
  <2> QED BY <1>3, <1>4, <1>5, <1>8, <2>1, ZenonT(60) DEF t
<1> QED BY <1>2, <1>6, <1>7, <1>8, ZenonT(60) DEF Keeps

\* What PLAY does.
LEMMA PlayEffect ==
    ASSUME sess \in Session, handle_play, Len(handled) \in Nat,
           aout \in BOOLEAN, refused \in BOOLEAN
    PROVE  /\ UNCHANGED <<open, played>> /\ sess' \in Session
           /\ sess'.setup = sess.setup /\ sess'.ch = sess.ch
           /\ (sess.state = "IDLE") = (sess'.state = "IDLE")
           /\ out' \in Seq(Item) /\ aout' \in BOOLEAN /\ refused' \in BOOLEAN
           /\ \A i \in DOMAIN out' :
                \/ out'[i].k = "R"
                \/ \E t \in Track : (t = "video" \/ t \in sess.setup) /\ out'[i] = Media(sess, t)
           /\ (sess.state = "IDLE" \/ "back" \notin sess.setup \/ aout) => UNCHANGED <<aout, refused>>
           /\ (sess.state # "IDLE" /\ "back" \in sess.setup /\ ~aout) => refused' = (refused \/ ~aout')
<1> DEFINE s == [sess EXCEPT !.state = "PLAYING"]
           audio == IF "audio" \in s.setup THEN <<"audio">> ELSE <<>>
<1>1. s \in Session /\ s.setup = sess.setup /\ s.ch = sess.ch /\ s.state = "PLAYING"
  BY ZenonT(60) DEF Session
<1>2. CASE sess.state = "IDLE" /\ Keeps(sess) /\ out' = <<Reply(455)>>
  <2>1. sess' = sess /\ UNCHANGED <<open, aout, refused, played>>
    BY <1>2, ZenonT(60) DEF Keeps
  <2>2. out' \in Seq(Item) /\ \A i \in DOMAIN out' : out'[i].k = "R"
    <3>1. Reply(455) \in Item /\ Reply(455).k = "R"
      BY Items
    <3> QED BY <1>2, <3>1
  <2> QED BY <1>2, <2>1, <2>2
<1>3. CASE /\ sess.state # "IDLE" /\ sess' = s
           /\ \/ /\ "back" \in s.setup /\ ~aout
                 /\ aout' \in BOOLEAN
                 /\ refused' = (refused \/ ~aout')
              \/ /\ "back" \notin s.setup \/ aout
                 /\ UNCHANGED <<aout, refused>>
           /\ \E video \in {<<"video">>, <<>>} :
                out' = <<Reply(200)>> \o Interleaved(s, video \o audio)
           /\ UNCHANGED <<open, played>>
  <2>1. PICK video \in {<<"video">>, <<>>} :
          out' = <<Reply(200)>> \o Interleaved(s, video \o audio)
    BY <1>3, ZenonT(60)
  <2>2. audio \in {<<"audio">>, <<>>} /\ (audio # <<>> => "audio" \in sess.setup)
    BY <1>1, ZenonT(60)
  <2> HIDE DEF audio, s
  <2>3. /\ out' \in Seq(Item)
        /\ \A i \in DOMAIN out' :
             \/ out'[i] = Reply(200)
             \/ \E t \in Track : (t = "video" \/ (t = "audio" /\ audio # <<>>)) /\ out'[i] = Media(s, t)
    <3>1. Answers(<<Reply(200)>> \o Interleaved(s, video \o audio), s, audio)
      BY <1>1, <2>2, PlayItems, ZenonT(60)
    <3>2. Answers(out', s, audio)
      BY <2>1, <3>1, ZenonT(60)
    <3> QED BY <3>2, ZenonT(60) DEF Answers
  <2>4. Reply(200).k = "R"
    BY Items
  <2>5. \A t : Media(s, t) = Media(sess, t)
    BY <1>1, ZenonT(60) DEF Media
  <2>6. \A i \in DOMAIN out' :
          \/ out'[i].k = "R"
          \/ \E t \in Track : (t = "video" \/ t \in sess.setup) /\ out'[i] = Media(sess, t)
    BY <2>2, <2>3, <2>4, <2>5, ZenonT(60)
  <2>7. aout' \in BOOLEAN /\ refused' \in BOOLEAN
    BY <1>3, ZenonT(60)
  <2>8. sess' \in Session /\ sess'.setup = sess.setup /\ sess'.ch = sess.ch /\ sess'.state # "IDLE"
    BY <1>1, <1>3, ZenonT(60)
  <2> QED BY <1>1, <1>3, <2>3, <2>6, <2>7, <2>8, ZenonT(60)
<1> QED BY <1>2, <1>3, ZenonT(60) DEF handle_play

\* A PLAY among the first k units followed a SETUP of the backchannel.
Spoke(k) == \E j \in 1..k : Units[j].k = "PLAY" /\ SetupsOf("back", j) # {}

\* Media goes out on the channel named last.
Own(u) ==
    u.k = "$" =>
      IF SetupsOf(u.track, u.at) # {} THEN u.ch = Units[LastSetup(u.track, u.at)].ch
      ELSE u.track = "video"

\* The record's types, and what its state says of the tracks set up.
Recorded ==
    /\ sess \in Session /\ aout \in BOOLEAN /\ refused \in BOOLEAN
    /\ out \in Seq(Item) /\ sends \in Seq(Item) /\ played \in Seq(Nat)
    /\ open => (sess.state = "IDLE" <=> sess.setup = {})

\* The record holds what the first h units set up.
Chosen(h) ==
    \A t \in Track :
      /\ t \in sess.setup <=> SetupsOf(t, h) # {}
      /\ t \in sess.setup => sess.ch[t] = Units[LastSetup(t, h)].ch

\* The loudspeaker is open after a PLAY with a backchannel.
Loud(h) ==
    /\ aout => Spoke(h)
    /\ open /\ ~refused /\ Spoke(h) => aout

\* The speech in the first h units is played.
Heard(h) ==
    /\ \A i, j \in DOMAIN played : i < j => played[i] < played[j]
    /\ \A i \in DOMAIN played : played[i] \in 1..h /\ Speech(played[i])
    /\ ~refused => \A n \in 1..h : Speech(n) => \E i \in DOMAIN played : played[i] = n

Owned(q) == \A i \in DOMAIN q : Own(q[i])

\* All of that, of a client that names tracks and channels.
Kept ==
    /\ Recorded
    /\ Plain => /\ Chosen(Len(handled)) /\ Loud(Len(handled)) /\ Heard(Len(handled))
                /\ Owned(out) /\ Owned(sends)

\* What the units say does not change.
LEMMA UnitsStay ==
    ASSUME plan' = plan
    PROVE  /\ Units' = Units /\ (Plain' <=> Plain)
           /\ \A t, k : SetupsOf(t, k)' = SetupsOf(t, k) /\ LastSetup(t, k)' = LastSetup(t, k)
           /\ \A k : (Spoke(k)' <=> Spoke(k)) /\ (Speech(k)' <=> Speech(k))
           /\ \A u : Own(u)' <=> Own(u)
<1>1. Units' = Units
  BY ZenonT(60) DEF Units
<1>2. Plain' <=> Plain
  BY <1>1, ZenonT(60) DEF Plain
<1>3. \A t, k : SetupsOf(t, k)' = SetupsOf(t, k)
  BY <1>1, ZenonT(60) DEF SetupsOf
<1>4. \A t, k : LastSetup(t, k)' = LastSetup(t, k)
  BY <1>3, ZenonT(60) DEF LastSetup
<1>5. \A k : Spoke(k)' <=> Spoke(k)
  BY <1>1, <1>3, ZenonT(60) DEF Spoke
<1>6. \A k : Speech(k)' <=> Speech(k)
  BY <1>1, <1>3, <1>4, ZenonT(60) DEF Speech
<1>7. \A u : Own(u)' <=> Own(u)
  BY <1>1, <1>3, <1>4, ZenonT(60) DEF Own
<1> QED BY <1>1, <1>2, <1>3, <1>4, <1>5, <1>6, <1>7, ZenonT(60)

\* One more unit adds a SETUP, which then is the last, or none.
LEMMA SetupsNext ==
    ASSUME NEW t, NEW h \in Nat
    PROVE  /\ (Units[h + 1].k = "SETUP" /\ Units[h + 1].track = t) =>
                /\ SetupsOf(t, h + 1) # {} /\ LastSetup(t, h + 1) = h + 1
           /\ ~(Units[h + 1].k = "SETUP" /\ Units[h + 1].track = t) =>
                /\ SetupsOf(t, h + 1) = SetupsOf(t, h) /\ LastSetup(t, h + 1) = LastSetup(t, h)
<1> DEFINE P(i) == Units[i].k = "SETUP" /\ Units[i].track = t
<1>1. \A i : i \in SetupsOf(t, h + 1) <=> i \in 1..(h + 1) /\ P(i)
  BY ZenonT(60) DEF SetupsOf
<1>2. \A i : i \in SetupsOf(t, h) <=> i \in 1..h /\ P(i)
  BY ZenonT(60) DEF SetupsOf
<1>3. \A i : i \in 1..(h + 1) <=> i \in 1..h \/ i = h + 1
  OBVIOUS
<1> HIDE DEF P
<1>4. CASE P(h + 1)
  <2>1. h + 1 \in SetupsOf(t, h + 1)
    BY <1>1, <1>3, <1>4, ZenonT(60)
  <2>2. \A j \in SetupsOf(t, h + 1) : j \in Nat /\ j <= h + 1
    BY <1>1
  <2>3. \A i \in SetupsOf(t, h + 1) : (\A j \in SetupsOf(t, h + 1) : j <= i) => i = h + 1
    BY <2>1, <2>2
  <2>4. LastSetup(t, h + 1) = h + 1
    <3>1. \E i \in SetupsOf(t, h + 1) : \A j \in SetupsOf(t, h + 1) : j <= i
      BY <2>1, <2>2, ZenonT(60)
    <3> QED BY <2>3, <3>1, ZenonT(60) DEF LastSetup
  <2> QED BY <1>4, <2>1, <2>4, ZenonT(60) DEF P
<1>5. CASE ~P(h + 1)
  <2>1. \A i : i \in SetupsOf(t, h + 1) <=> i \in SetupsOf(t, h)
    BY <1>1, <1>2, <1>3, <1>5, ZenonT(60)
  <2>2. SetupsOf(t, h + 1) = SetupsOf(t, h)
    BY <2>1, ZenonT(60)
  <2>3. LastSetup(t, h + 1) = LastSetup(t, h)
    BY <2>2, ZenonT(60) DEF LastSetup
  <2> QED BY <1>5, <2>2, <2>3, ZenonT(60) DEF P
<1> QED BY <1>4, <1>5, ZenonT(60)

\* A unit adds a PLAY with the backchannel set up, or none.
LEMMA SpokeNext ==
    ASSUME NEW h \in Nat
    PROVE  /\ (Units[h + 1].k = "PLAY" /\ SetupsOf("back", h) # {}) => Spoke(h + 1)
           /\ ~(Units[h + 1].k = "PLAY" /\ SetupsOf("back", h) # {}) => (Spoke(h + 1) <=> Spoke(h))
           /\ Spoke(h) => Spoke(h + 1)
<1>1. \A i : i \in 1..(h + 1) <=> i \in 1..h \/ i = h + 1
  OBVIOUS
<1>2. Units[h + 1].k = "PLAY" => SetupsOf("back", h + 1) = SetupsOf("back", h)
  <2>1. "PLAY" # "SETUP"
    BY ZenonT(60)
  <2> QED BY <2>1, SetupsNext, ZenonT(60)
<1> QED BY <1>1, <1>2, ZenonT(60) DEF Spoke

\* The media a record sends goes out on the channels it holds.
LEMMA MediaOwn ==
    ASSUME Chosen(Len(handled)), NEW t \in Track, t = "video" \/ t \in sess.setup
    PROVE  Own(Media(sess, t))
<1> DEFINE u == Media(sess, t)
<1>1. u.track = t /\ u.at = Len(handled) /\ u.ch = sess.ch[t]
  BY ZenonT(60) DEF Media
<1> HIDE DEF u
<1>2. /\ t \in sess.setup <=> SetupsOf(t, Len(handled)) # {}
      /\ t \in sess.setup => sess.ch[t] = Units[LastSetup(t, Len(handled))].ch
  BY ZenonT(60) DEF Chosen
<1>3. IF SetupsOf(u.track, u.at) # {} THEN u.ch = Units[LastSetup(u.track, u.at)].ch
      ELSE u.track = "video"
  BY <1>1, <1>2, ZenonT(60)
<1> QED BY <1>3, ZenonT(60) DEF Own, u

\* A reply has no channel.
LEMMA ReplyOwn ==
    ASSUME NEW u, u.k = "R"
    PROVE  Own(u)
BY ZenonT(60) DEF Own

\* The unit that is handled is the next one.
LEMMA HandleNext ==
    ASSUME InStep, HandleUnit
    PROVE  /\ Len(handled) \in Nat /\ Len(handled') = Len(handled) + 1
           /\ Len(handled) + 1 \in DOMAIN Units /\ Units[Len(handled) + 1] \in UnitType
           /\ IF Units[Len(handled) + 1].k = "$"
              THEN InterleavedFrame(Units[Len(handled) + 1], Len(handled) + 1)
              ELSE dispatch_rtsp(Units[Len(handled) + 1])
           /\ open /\ out = <<>> /\ UNCHANGED <<plan, sends>>
<1> DEFINE n == rbuf[1][1]
<1>1. /\ parsing /\ out = <<>> /\ handled' = Append(handled, n)
      /\ IF Units[n].k = "$" THEN InterleavedFrame(Units[n], n) ELSE dispatch_rtsp(Units[n])
      /\ UNCHANGED <<plan, sends>>
  BY ZenonT(60) DEF HandleUnit, clientVars, sendVars
<1>2. open /\ rbuf # <<>>
  BY <1>1, ZenonT(60) DEF InStep, HasUnit
<1>3. n = Len(handled) + 1 /\ n \in 1..written
  BY <1>2, NextUnit, ZenonT(60)
<1>4. handled \in Seq(Nat) /\ written \in Nat /\ written <= Len(Units) /\ plan \in Plans
  BY ZenonT(60) DEF InStep
<1>5. Len(handled) \in Nat
  BY <1>4, LenProperties, ZenonT(60)
<1> HIDE DEF n
<1>6. n \in 1..Len(Units) /\ n \in Nat /\ Len(Units) \in Nat
  BY <1>3, <1>4, UnitFacts
<1>7. n \in DOMAIN Units /\ Units[n] \in UnitType
  BY <1>4, <1>6, UnitFacts, LenProperties, ZenonT(60)
<1>8. Len(handled') = n
  BY <1>1, <1>3, <1>4, <1>6
<1> QED BY <1>1, <1>2, <1>3, <1>5, <1>7, <1>8, ZenonT(60)

\* The types of the record stay.
LEMMA HandleRecorded ==
    ASSUME InStep, Recorded, HandleUnit
    PROVE  Recorded'
<1> DEFINE n == Len(handled) + 1
           u == Units[n]
<1>1. /\ Len(handled) \in Nat /\ n \in Nat /\ u \in UnitType
      /\ IF u.k = "$" THEN InterleavedFrame(u, n) ELSE dispatch_rtsp(u)
      /\ open /\ out = <<>> /\ UNCHANGED <<plan, sends>>
  BY HandleNext
<1> HIDE DEF n, u
<1>2. /\ sess \in Session /\ aout \in BOOLEAN /\ refused \in BOOLEAN
      /\ out \in Seq(Item) /\ sends \in Seq(Item) /\ played \in Seq(Nat)
      /\ sess.state = "IDLE" <=> sess.setup = {}
  BY <1>1, ZenonT(60) DEF Recorded
<1>3. \A st \in Nat : <<Reply(st)>> \in Seq(Item)
  BY Items
<1>4. CASE u.k = "$"
  <2>1. /\ played' = IF "back" \in sess.setup /\ u.ch = sess.ch.back /\ u.speech /\ aout
                     THEN Append(played, n) ELSE played
        /\ UNCHANGED <<open, sess, aout, refused, out>>
    BY <1>1, <1>4, ZenonT(60) DEF InterleavedFrame
  <2>2. played' = Append(played, n) \/ played' = played
    BY <2>1, ZenonT(60)
  <2>3. played' \in Seq(Nat)
    <3>1. played \in Seq(Nat) /\ n \in Nat
      BY <1>1, <1>2, ZenonT(60)
    <3>2. Append(played, n) \in Seq(Nat)
      BY <3>1, AppendProperties, ZenonT(60)
    <3> QED BY <2>2, <3>1, <3>2, ZenonT(60)
  <2> QED BY <1>1, <1>2, <2>1, <2>3, ZenonT(60) DEF Recorded
<1>5. CASE u.k = "OPTIONS" /\ Keeps(sess) /\ out' = <<Reply(200)>>
  <2>1. out' \in Seq(Item) /\ UNCHANGED <<sess, open, aout, refused, played>>
    BY <1>3, <1>5 DEF Keeps
  <2> QED BY <1>1, <1>2, <2>1, ZenonT(60) DEF Recorded
<1>6. CASE u.k = "SETUP" /\ handle_setup(u)
  <2>1. /\ UNCHANGED <<open, aout, refused, played>>
        /\ \E st \in Nat : out' = <<Reply(st)>>
        /\ sess' \in Session
        /\ \/ sess' = sess
           \/ sess'.setup = sess.setup \cup {SetupTrack(u)} /\ sess'.state = "READY"
    BY <1>1, <1>2, <1>6, SetupEffect, ZenonT(60)
  <2>2. sess'.state = "IDLE" <=> sess'.setup = {}
    BY <1>2, <2>1, ZenonT(60)
  <2>3. out' \in Seq(Item)
    BY <1>3, <2>1, ZenonT(60)
  <2> QED BY <1>1, <1>2, <2>1, <2>2, <2>3, ZenonT(60) DEF Recorded
<1>7. CASE u.k = "PLAY" /\ handle_play
  <2>1. /\ UNCHANGED <<open, played>> /\ sess' \in Session
        /\ sess'.setup = sess.setup
        /\ (sess.state = "IDLE") = (sess'.state = "IDLE")
        /\ out' \in Seq(Item) /\ aout' \in BOOLEAN /\ refused' \in BOOLEAN
    BY <1>1, <1>2, <1>7, PlayEffect, ZenonT(60)
  <2> QED BY <1>1, <1>2, <2>1, ZenonT(60) DEF Recorded
<1>8. CASE u.k = "TEARDOWN" /\ handle_teardown
  <2>1. /\ sess' = [sess EXCEPT !.state = "IDLE"] /\ open' = FALSE /\ aout' = FALSE
        /\ out' = <<Reply(200)>> /\ UNCHANGED <<refused, played>>
    BY <1>8, ZenonT(60) DEF handle_teardown
  <2>2. sess' \in Session
    <3>1. sess \in Session /\ sess' = [sess EXCEPT !.state = "IDLE"]
      BY <1>2, <2>1, ZenonT(60)
    <3> QED BY <3>1, ZenonT(60) DEF Session
  <2>3. out' \in Seq(Item)
    <3>1. 200 \in Nat
      OBVIOUS
    <3> QED BY <1>3, <2>1, <3>1, ZenonT(60)
  <2> QED BY <1>1, <1>2, <2>1, <2>2, <2>3, ZenonT(60) DEF Recorded
<1> QED BY <1>1, <1>4, <1>5, <1>6, <1>7, <1>8, ZenonT(60) DEF dispatch_rtsp

\* Media and replies that are sent keep their channels.
LEMMA OwnedStays ==
    ASSUME plan' = plan
    PROVE  /\ \A q : Owned(q)' <=> Owned(q)
           /\ Owned(out)' <=> \A i \in DOMAIN out' : Own(out'[i])
           /\ Owned(sends)' <=> \A i \in DOMAIN sends' : Own(sends'[i])
<1>1. \A u : Own(u)' <=> Own(u)
  BY UnitsStay, ZenonT(60)
<1>2. \A q : Owned(q)' <=> Owned(q)
  BY <1>1, ZenonT(60) DEF Owned
<1>3. PICK o, s : o = out' /\ s = sends'
  BY ZenonT(60)
<1>4. (Owned(out)' <=> Owned(o)') /\ (Owned(sends)' <=> Owned(s)')
  <2>1. Owned(out)' <=> Owned(o)'
    BY <1>3, ZenonT(60) DEF Owned
  <2>2. Owned(sends)' <=> Owned(s)'
    BY <1>3, ZenonT(60) DEF Owned
  <2> QED BY <2>1, <2>2, ZenonT(60)
<1> QED BY <1>2, <1>3, <1>4, ZenonT(60) DEF Owned

\* What the record says of the units.
LEMMA AtLength ==
    ASSUME NEW n, n = Len(handled')
    PROVE  /\ Chosen(Len(handled))' <=> Chosen(n)'
           /\ Loud(Len(handled))' <=> Loud(n)'
           /\ Heard(Len(handled))' <=> Heard(n)'
<1>1. Chosen(Len(handled))' <=> Chosen(n)'
  BY ZenonT(60) DEF Chosen, SetupsOf, LastSetup, Units
<1>2. Loud(Len(handled))' <=> Loud(n)'
  BY ZenonT(60) DEF Loud, Spoke, SetupsOf, Units
<1>3. Heard(Len(handled))' <=> Heard(n)'
  BY ZenonT(60) DEF Heard
<1> QED BY <1>1, <1>2, <1>3, ZenonT(60)

\* The next unit as the record sees it.
LEMMA HandleChosen ==
    ASSUME InStep, Recorded, HandleUnit, Plain, Chosen(Len(handled)),
           NEW n \in Nat, n = Len(handled) + 1
    PROVE  Chosen(n)'
<1> DEFINE h == Len(handled)
           u == Units[n]
<1>1. /\ h \in Nat /\ u \in UnitType /\ n \in DOMAIN Units
      /\ IF u.k = "$" THEN InterleavedFrame(u, n) ELSE dispatch_rtsp(u)
      /\ plan' = plan /\ sess \in Session
  BY HandleNext, ZenonT(60) DEF Recorded
<1>2. \A t \in Track :
        /\ t \in sess.setup <=> SetupsOf(t, h) # {}
        /\ t \in sess.setup => sess.ch[t] = Units[LastSetup(t, h)].ch
  BY ZenonT(60) DEF Chosen
<1>3. \A t : /\ (u.k = "SETUP" /\ u.track = t) => SetupsOf(t, n) # {} /\ LastSetup(t, n) = n
             /\ ~(u.k = "SETUP" /\ u.track = t) =>
                  SetupsOf(t, n) = SetupsOf(t, h) /\ LastSetup(t, n) = LastSetup(t, h)
  BY <1>1, SetupsNext, ZenonT(60)
<1> HIDE DEF h, u
<1>4. \A t \in Track :
        /\ t \in sess'.setup <=> SetupsOf(t, n) # {}
        /\ t \in sess'.setup => sess'.ch[t] = Units[LastSetup(t, n)].ch
  <2>1. CASE u.k # "SETUP" /\ sess'.setup = sess.setup /\ sess'.ch = sess.ch
    BY <1>2, <1>3, <2>1, ZenonT(60)
  <2>2. CASE u.k = "SETUP" /\ handle_setup(u)
    <3>1. u.track # "base" /\ u.by = "tcp" /\ u.ch # NoChannel
      BY <1>1, <2>2, ZenonT(60) DEF Plain, u
    <3>2. u.track \in Track \cup {"base"}
      BY <1>1, <2>2, ZenonT(60) DEF UnitType
    <3>3. SetupTrack(u) = u.track /\ Channel(u) = u.ch /\ u.track \in Track
      BY <3>1, <3>2, ZenonT(60) DEF SetupTrack, Channel
    <3>4. /\ sess'.setup = sess.setup \cup {u.track}
          /\ sess'.ch = [sess.ch EXCEPT ![u.track] = u.ch]
      BY <1>1, <2>2, <3>1, <3>3, SetupEffect, ZenonT(60)
    <3>5. sess.ch \in [Track -> Int]
      BY <1>1, ZenonT(60) DEF Session
    <3>6. sess'.ch[u.track] = u.ch /\ \A t \in Track \ {u.track} : sess'.ch[t] = sess.ch[t]
      BY <3>3, <3>4, <3>5, ZenonT(60)
    <3>7. \A t : t \in sess'.setup <=> t \in sess.setup \/ t = u.track
      BY <3>4, ZenonT(60)
    <3>8. Units[n].ch = u.ch
      BY ZenonT(60) DEF u
    <3> TAKE t \in Track
    <3>9. CASE t = u.track
      BY <1>3, <2>2, <3>6, <3>7, <3>8, <3>9, ZenonT(60)
    <3>10. CASE t # u.track
      <4>1. sess'.ch[t] = sess.ch[t] /\ (t \in sess'.setup <=> t \in sess.setup)
        BY <3>6, <3>7, <3>10, ZenonT(60)
      <4> QED BY <1>2, <1>3, <3>10, <4>1, ZenonT(60)
    <3> QED BY <3>9, <3>10, ZenonT(60)
  <2>3. CASE u.k = "$" /\ sess' = sess
    BY <2>1, <2>3, ZenonT(60)
  <2>4. CASE u.k = "OPTIONS" /\ Keeps(sess)
    BY <2>1, <2>4, ZenonT(60) DEF Keeps
  <2>5. CASE u.k = "PLAY" /\ handle_play
    <3>1. sess'.setup = sess.setup /\ sess'.ch = sess.ch
      <4>1. Len(handled) \in Nat /\ aout \in BOOLEAN /\ refused \in BOOLEAN
        BY <1>1, ZenonT(60) DEF Recorded, h
      <4> QED BY <1>1, <2>5, <4>1, PlayEffect, ZenonT(60)
    <3> QED BY <2>1, <2>5, <3>1, ZenonT(60)
  <2>6. CASE u.k = "TEARDOWN" /\ handle_teardown
    <3>1. sess'.setup = sess.setup /\ sess'.ch = sess.ch
      BY <1>1, <2>6, ZenonT(60) DEF handle_teardown, Session
    <3> QED BY <2>1, <2>6, <3>1, ZenonT(60)
  <2> QED BY <1>1, <2>2, <2>3, <2>4, <2>5, <2>6, ZenonT(60) DEF dispatch_rtsp, InterleavedFrame
<1>5. Units' = Units /\ \A t : SetupsOf(t, n)' = SetupsOf(t, n) /\ LastSetup(t, n)' = LastSetup(t, n)
  BY <1>1, UnitsStay, ZenonT(60)
<1> QED BY <1>4, <1>5, ZenonT(60) DEF Chosen

\* The loudspeaker after the next unit.
LEMMA HandleLoud ==
    ASSUME InStep, Recorded, HandleUnit, Plain, Chosen(Len(handled)), Loud(Len(handled)),
           NEW n \in Nat, n = Len(handled) + 1
    PROVE  Loud(n)'
<1> DEFINE h == Len(handled)
           u == Units[n]
           back == SetupsOf("back", h) # {}
<1>1. /\ h \in Nat /\ u \in UnitType
      /\ IF u.k = "$" THEN InterleavedFrame(u, n) ELSE dispatch_rtsp(u)
      /\ open /\ plan' = plan
  BY HandleNext, ZenonT(60)
<1>2. /\ sess \in Session /\ aout \in BOOLEAN /\ refused \in BOOLEAN
      /\ sess.state = "IDLE" <=> sess.setup = {}
  BY <1>1, ZenonT(60) DEF Recorded
<1>3. /\ (u.k = "PLAY" /\ back) => Spoke(n)
      /\ ~(u.k = "PLAY" /\ back) => (Spoke(n) <=> Spoke(h))
      /\ Spoke(h) => Spoke(n)
  BY <1>1, SpokeNext, ZenonT(60)
<1>4. (aout => Spoke(h)) /\ (~refused /\ Spoke(h) => aout)
  BY <1>1, ZenonT(60) DEF Loud
<1>5. "back" \in sess.setup <=> back
  <2>1. "back" \in Track
    BY ZenonT(60) DEF Track
  <2> QED BY <2>1, ZenonT(60) DEF Chosen
<1> HIDE DEF h, u, back
<1>6. (aout' => Spoke(n)) /\ (open' /\ ~refused' /\ Spoke(n) => aout')
  <2>1. CASE u.k # "PLAY" /\ UNCHANGED <<aout, refused>>
    BY <1>3, <1>4, <2>1, ZenonT(60)
  <2>2. CASE u.k = "$" /\ InterleavedFrame(u, n)
    BY <2>1, <2>2, ZenonT(60) DEF InterleavedFrame
  <2>3. CASE u.k = "OPTIONS" /\ Keeps(sess)
    BY <2>1, <2>3, ZenonT(60) DEF Keeps
  <2>4. CASE u.k = "SETUP" /\ handle_setup(u)
    <3>1. UNCHANGED <<aout, refused>>
      BY <1>1, <1>2, <2>4, SetupEffect, ZenonT(60)
    <3> QED BY <2>1, <2>4, <3>1, ZenonT(60)
  <2>5. CASE u.k = "PLAY" /\ handle_play
    <3>1. /\ aout' \in BOOLEAN /\ refused' \in BOOLEAN
          /\ (sess.state = "IDLE" \/ "back" \notin sess.setup \/ aout) => UNCHANGED <<aout, refused>>
          /\ (sess.state # "IDLE" /\ "back" \in sess.setup /\ ~aout) => refused' = (refused \/ ~aout')
      <4>1. Len(handled) \in Nat
        BY <1>1, ZenonT(60) DEF h
      <4> QED BY <1>2, <2>5, <4>1, PlayEffect, ZenonT(60)
    <3>2. sess.state = "IDLE" => ~back
      BY <1>2, <1>5, ZenonT(60)
    <3>3. ~back \/ aout => (aout' <=> aout) /\ (refused' <=> refused)
      BY <1>5, <3>1, ZenonT(60)
    <3>4. back /\ ~aout => (refused' <=> refused \/ ~aout')
      BY <1>2, <1>5, <3>1, <3>2, ZenonT(60)
    <3>5. CASE ~back
      BY <1>3, <1>4, <3>3, <3>5, ZenonT(60)
    <3>6. CASE back /\ aout
      BY <1>3, <1>4, <3>3, <3>6, ZenonT(60)
    <3>7. CASE back /\ ~aout
      BY <1>3, <2>5, <3>4, <3>7, ZenonT(60)
    <3> QED BY <3>5, <3>6, <3>7, ZenonT(60)
  <2>6. CASE u.k = "TEARDOWN" /\ handle_teardown
    BY <2>6, ZenonT(60) DEF handle_teardown
  <2> QED BY <1>1, <2>2, <2>3, <2>4, <2>5, <2>6, ZenonT(60) DEF dispatch_rtsp
<1>7. Spoke(n)' <=> Spoke(n)
  BY <1>1, UnitsStay, ZenonT(60)
<1> QED BY <1>6, <1>7, ZenonT(60) DEF Loud

\* The speech in the next unit is played.
LEMMA HandleHeard ==
    ASSUME InStep, Recorded, HandleUnit, Plain, Chosen(Len(handled)), Loud(Len(handled)),
           Heard(Len(handled)), NEW n \in Nat, n = Len(handled) + 1
    PROVE  Heard(n)'
<1> DEFINE u == Units[n]
<1>0. PICK h \in Nat : h = Len(handled)
  BY HandleNext, ZenonT(60)
<1>1. /\ n = h + 1 /\ u \in UnitType
      /\ IF u.k = "$" THEN InterleavedFrame(u, n) ELSE dispatch_rtsp(u)
      /\ open /\ plan' = plan
  BY <1>0, HandleNext, ZenonT(60)
<1>2. /\ sess \in Session /\ aout \in BOOLEAN /\ refused \in BOOLEAN /\ played \in Seq(Nat)
  BY <1>1, ZenonT(60) DEF Recorded
<1>3. \A i : i \in 1..n <=> i \in 1..h \/ i = n
  BY <1>1
<1>4. /\ \A i, j \in DOMAIN played : i < j => played[i] < played[j]
      /\ \A i \in DOMAIN played : played[i] \in 1..h /\ Speech(played[i])
      /\ ~refused => \A m \in 1..h : Speech(m) => \E i \in DOMAIN played : played[i] = m
  BY <1>0, ZenonT(60) DEF Heard
<1>5. (aout => Spoke(h)) /\ (~refused /\ Spoke(h) => aout)
  BY <1>0, <1>1, ZenonT(60) DEF Loud
<1>6. /\ "back" \in sess.setup <=> SetupsOf("back", h) # {}
      /\ "back" \in sess.setup => sess.ch["back"] = Units[LastSetup("back", h)].ch
  <2>1. "back" \in Track
    BY ZenonT(60) DEF Track
  <2> QED BY <1>0, <2>1, ZenonT(60) DEF Chosen
<1>7. Speech(n) <=> u.k = "$" /\ u.speech /\ SetupsOf("back", n) # {}
                    /\ u.ch = Units[LastSetup("back", n)].ch /\ Spoke(n)
  BY ZenonT(60) DEF Speech, Spoke
<1>8. u.k = "$" => /\ SetupsOf("back", n) = SetupsOf("back", h)
                   /\ LastSetup("back", n) = LastSetup("back", h)
                   /\ Spoke(n) <=> Spoke(h)
  <2>1. "$" # "SETUP" /\ "$" # "PLAY"
    BY ZenonT(60)
  <2> QED BY <1>1, <2>1, SetupsNext, SpokeNext, ZenonT(60)
<1> HIDE DEF u
<1>9. u.k = "$" => (Speech(n) <=> u.speech /\ "back" \in sess.setup /\ u.ch = sess.ch["back"]
                                  /\ Spoke(h))
  BY <1>6, <1>7, <1>8, ZenonT(60)
<1>10. /\ \A i, j \in DOMAIN played' : i < j => played'[i] < played'[j]
       /\ \A i \in DOMAIN played' : played'[i] \in 1..n /\ Speech(played'[i])
       /\ ~refused' => \A m \in 1..n : Speech(m) => \E i \in DOMAIN played' : played'[i] = m
  <2>1. CASE played' = played /\ (~refused' => ~refused) /\ (~refused => ~Speech(n))
    BY <1>3, <1>4, <2>1, ZenonT(60)
  <2>2. CASE u.k = "$" /\ InterleavedFrame(u, n)
    <3>1. /\ played' = IF "back" \in sess.setup /\ u.ch = sess.ch["back"] /\ u.speech /\ aout
                       THEN Append(played, n) ELSE played
          /\ refused' = refused
      BY <2>2, ZenonT(60) DEF InterleavedFrame
    <3>2. CASE "back" \in sess.setup /\ u.ch = sess.ch["back"] /\ u.speech /\ aout
      <4>1. Speech(n) /\ played' = Append(played, n)
        BY <1>5, <1>9, <2>2, <3>1, <3>2, ZenonT(60)
      <4> DEFINE l == Len(played)
      <4>2. l \in Nat /\ DOMAIN played = 1..l /\ \A i \in 1..l : played[i] \in Nat
        BY <1>2, LenProperties, ZenonT(60)
      <4>3. DOMAIN played' = 1..(l + 1) /\ played'[l + 1] = n
            /\ \A i \in 1..l : played'[i] = played[i]
        BY <1>2, <4>1, <4>2
      <4> HIDE DEF l
      <4>4. \A i : i \in 1..(l + 1) <=> i \in 1..l \/ i = l + 1
        BY <4>2
      <4>5. \A i \in 1..l : played[i] < n
        BY <1>1, <1>4, <4>2
      <4>6. \A i, j \in DOMAIN played' : i < j => played'[i] < played'[j]
        <5> SUFFICES ASSUME NEW i \in 1..(l + 1), NEW j \in 1..(l + 1), i < j
                     PROVE  played'[i] < played'[j]
          BY <4>3, ZenonT(60)
        <5>1. i \in 1..l
          BY <4>2
        <5>2. CASE j \in 1..l
          BY <1>4, <4>2, <4>3, <5>1, <5>2, ZenonT(60)
        <5>3. CASE j = l + 1
          BY <4>3, <4>5, <5>1, <5>3, ZenonT(60)
        <5> QED BY <4>4, <5>2, <5>3, ZenonT(60)
      <4>7. \A i \in DOMAIN played' : played'[i] \in 1..n /\ Speech(played'[i])
        <5>1. n \in 1..n
          BY <1>1
        <5> QED BY <1>3, <1>4, <4>1, <4>2, <4>3, <4>4, <5>1, ZenonT(60)
      <4>8. ~refused' => \A m \in 1..n : Speech(m) => \E i \in DOMAIN played' : played'[i] = m
        <5>1. \A m : (\E i \in DOMAIN played : played[i] = m) => \E i \in DOMAIN played' : played'[i] = m
          BY <4>2, <4>3, <4>4, ZenonT(60)
        <5>2. l + 1 \in DOMAIN played'
          BY <4>3, <4>4, ZenonT(60)
        <5> SUFFICES ASSUME ~refused', NEW m \in 1..n, Speech(m)
                     PROVE  \E i \in DOMAIN played' : played'[i] = m
          BY ZenonT(60)
        <5>3. CASE m = n
          BY <4>3, <5>2, <5>3, ZenonT(60)
        <5>4. CASE m \in 1..h
          <6>1. ~refused
            BY <3>1, ZenonT(60)
          <6> QED BY <1>4, <5>1, <5>4, <6>1, ZenonT(60)
        <5> QED BY <1>3, <5>3, <5>4, ZenonT(60)
      <4> QED BY <4>6, <4>7, <4>8, ZenonT(60)
    <3>3. CASE ~("back" \in sess.setup /\ u.ch = sess.ch["back"] /\ u.speech /\ aout)
      <4>1. played' = played
        BY <3>1, <3>3, ZenonT(60)
      <4>2. ~refused => ~Speech(n)
        BY <1>5, <1>9, <2>2, <3>3, ZenonT(60)
      <4> QED BY <2>1, <3>1, <4>1, <4>2, ZenonT(60)
    <3> QED BY <3>2, <3>3, ZenonT(60)
  <2>3. ASSUME u.k # "$", dispatch_rtsp(u) PROVE played' = played /\ (~refused' => ~refused)
    <3>1. CASE u.k = "OPTIONS" /\ Keeps(sess)
      BY <3>1, ZenonT(60) DEF Keeps
    <3>2. CASE u.k = "SETUP" /\ handle_setup(u)
      BY <1>1, <1>2, <3>2, SetupEffect, ZenonT(60)
    <3>3. CASE u.k = "PLAY" /\ handle_play
      <4>1. /\ played' = played /\ aout' \in BOOLEAN
            /\ (sess.state = "IDLE" \/ "back" \notin sess.setup \/ aout) => UNCHANGED <<aout, refused>>
            /\ (sess.state # "IDLE" /\ "back" \in sess.setup /\ ~aout) =>
                 refused' = (refused \/ ~aout')
        <5>1. Len(handled) \in Nat
          BY <1>0, ZenonT(60)
        <5> QED BY <1>2, <3>3, <5>1, PlayEffect, ZenonT(60)
      <4> QED BY <1>2, <4>1
    <3>4. CASE u.k = "TEARDOWN" /\ handle_teardown
      BY <3>4, ZenonT(60) DEF handle_teardown
    <3> QED BY <2>3, <3>1, <3>2, <3>3, <3>4, ZenonT(60) DEF dispatch_rtsp
  <2>4. CASE u.k # "$" /\ dispatch_rtsp(u)
    BY <1>7, <2>1, <2>3, <2>4, ZenonT(60)
  <2> QED BY <1>1, <2>2, <2>4, ZenonT(60)
<1>11. \A m : Speech(m)' <=> Speech(m)
  BY <1>1, UnitsStay, ZenonT(60)
<1> QED
  <2>1. PICK p : p = played'
    BY ZenonT(60)
  <2>2. \A i \in DOMAIN p : p[i] \in 1..n /\ Speech(p[i])'
    BY <1>10, <1>11, <2>1, ZenonT(60)
  <2>3. \A i \in DOMAIN played' : played'[i] \in 1..n /\ Speech(played[i])'
    BY <2>1, <2>2, ZenonT(60)
  <2> QED BY <1>10, <1>11, <2>3, ZenonT(60) DEF Heard

\* What the next unit's handler sends goes out on the channels named last.
LEMMA HandleOwned ==
    ASSUME InStep, Recorded, HandleUnit, Plain, Chosen(Len(handled)), Owned(sends)
    PROVE  Owned(out)' /\ Owned(sends)'
<1> DEFINE n == Len(handled) + 1
           u == Units[n]
<1>1. /\ Len(handled) \in Nat /\ u \in UnitType
      /\ IF u.k = "$" THEN InterleavedFrame(u, n) ELSE dispatch_rtsp(u)
      /\ out = <<>> /\ UNCHANGED <<plan, sends>>
  BY HandleNext, ZenonT(60)
<1>2. sess \in Session /\ aout \in BOOLEAN /\ refused \in BOOLEAN
  BY ZenonT(60) DEF Recorded
<1> HIDE DEF n, u
<1>3. ASSUME NEW st \in Nat, out' = <<Reply(st)>> PROVE \A i \in DOMAIN out' : Own(out'[i])
  <2>1. Reply(st).k = "R"
    BY Items, ZenonT(60)
  <2>2. Own(Reply(st))
    BY <2>1, ReplyOwn, ZenonT(60)
  <2>3. \A i \in DOMAIN out' : out'[i] = Reply(st)
    BY <1>3
  <2> QED BY <2>2, <2>3, ZenonT(60)
<1>4. \A i \in DOMAIN out' : Own(out'[i])
  <2>1. CASE u.k = "$" /\ InterleavedFrame(u, n)
    <3>1. out' = <<>>
      BY <1>1, <2>1, ZenonT(60) DEF InterleavedFrame
    <3> QED BY <3>1
  <2>2. CASE out' = <<Reply(200)>>
    BY <1>3, <2>2
  <2>3. CASE u.k = "SETUP" /\ handle_setup(u)
    <3>1. \E st \in Nat : out' = <<Reply(st)>>
      BY <1>1, <1>2, <2>3, SetupEffect, ZenonT(60)
    <3> QED BY <1>3, <3>1, ZenonT(60)
  <2>4. CASE u.k = "PLAY" /\ handle_play
    <3>1. \A i \in DOMAIN out' :
            \/ out'[i].k = "R"
            \/ \E t \in Track : (t = "video" \/ t \in sess.setup) /\ out'[i] = Media(sess, t)
      BY <1>1, <1>2, <2>4, PlayEffect, ZenonT(60)
    <3> TAKE i \in DOMAIN out'
    <3>2. CASE out'[i].k = "R"
      BY <3>2, ReplyOwn, ZenonT(60)
    <3>3. CASE \E t \in Track : (t = "video" \/ t \in sess.setup) /\ out'[i] = Media(sess, t)
      <4>1. PICK t \in Track : (t = "video" \/ t \in sess.setup) /\ out'[i] = Media(sess, t)
        BY <3>3, ZenonT(60)
      <4>2. Own(Media(sess, t))
        BY <4>1, MediaOwn, ZenonT(60)
      <4> QED BY <4>1, <4>2, ZenonT(60)
    <3> QED BY <3>1, <3>2, <3>3, ZenonT(60)
  <2> QED BY <1>1, <2>1, <2>2, <2>3, <2>4, ZenonT(60) DEF dispatch_rtsp, handle_teardown
<1>5. Owned(out)'
  BY <1>1, <1>4, OwnedStays, ZenonT(60)
<1>6. Owned(sends)'
  <2>1. \A i \in DOMAIN sends' : Own(sends'[i])
    BY <1>1, ZenonT(60) DEF Owned
  <2> QED BY <1>1, <2>1, OwnedStays, ZenonT(60)
<1> QED BY <1>5, <1>6, ZenonT(60)

\* A unit is handled.
LEMMA HandleKept ==
    ASSUME InStep, Kept, HandleUnit
    PROVE  Kept'
<1>1. Recorded'
  BY HandleRecorded, ZenonT(60) DEF Kept
<1>2. plan' = plan /\ Len(handled') = Len(handled) + 1 /\ Len(handled) \in Nat
  BY HandleNext, ZenonT(60)
<1>3. Plain' <=> Plain
  BY <1>2, UnitsStay, ZenonT(60)
<1>4. ASSUME Plain
      PROVE  /\ Chosen(Len(handled))' /\ Loud(Len(handled))' /\ Heard(Len(handled))'
             /\ Owned(out)' /\ Owned(sends)'
  <2>1. /\ Recorded /\ Chosen(Len(handled)) /\ Loud(Len(handled)) /\ Heard(Len(handled))
        /\ Owned(sends)
    BY <1>4, ZenonT(60) DEF Kept
  <2>2. Owned(out)' /\ Owned(sends)'
    BY <1>4, <2>1, HandleOwned, ZenonT(60)
  <2>3. PICK n \in Nat : n = Len(handled) + 1
    BY <1>2
  <2>4. Chosen(n)'
    BY <1>4, <2>1, <2>3, HandleChosen, ZenonT(60)
  <2>5. Loud(n)'
    BY <1>4, <2>1, <2>3, HandleLoud, ZenonT(60)
  <2>6. Heard(n)'
    BY <1>4, <2>1, <2>3, HandleHeard, ZenonT(60)
  <2>7. n = Len(handled')
    BY <1>2, <2>3, ZenonT(60)
  <2> QED BY <2>2, <2>4, <2>5, <2>6, <2>7, AtLength, ZenonT(60)
<1> QED BY <1>1, <1>3, <1>4, ZenonT(60) DEF Kept

\* What depends on the units and the record alone stays with them.
LEMMA RecordStays ==
    ASSUME UNCHANGED <<plan, handled, sess, refused, played>>
    PROVE  /\ Chosen(Len(handled))' <=> Chosen(Len(handled))
           /\ Heard(Len(handled))' <=> Heard(Len(handled))
           /\ Spoke(Len(handled))' <=> Spoke(Len(handled))
<1>1. Units' = Units
  BY ZenonT(60) DEF Units
<1>2. \A t : SetupsOf(t, Len(handled))' = SetupsOf(t, Len(handled))
  BY <1>1, ZenonT(60) DEF SetupsOf
<1>3. \A t : LastSetup(t, Len(handled))' = LastSetup(t, Len(handled))
  BY <1>2, ZenonT(60) DEF LastSetup
<1>4. Chosen(Len(handled))' <=> Chosen(Len(handled))
  BY <1>1, <1>2, <1>3, ZenonT(60) DEF Chosen
<1>5. \A k : Speech(k)' <=> Speech(k)
  BY UnitsStay, ZenonT(60)
<1>6. Heard(Len(handled))' <=> Heard(Len(handled))
  <2>1. PICK p : p = played
    BY ZenonT(60)
  <2>2. \A i : Speech(p[i])' <=> Speech(p[i])
    BY <1>5, ZenonT(60)
  <2>3. p = played'
    BY <2>1, ZenonT(60)
  <2>4. \A i : (Speech(played[i])' <=> Speech(p[i])') /\ (Speech(played[i]) <=> Speech(p[i]))
    BY <2>1, <2>3, ZenonT(60)
  <2>5. \A i : Speech(played[i])' <=> Speech(played[i])
    BY <2>2, <2>4, ZenonT(60)
  <2> QED BY <1>5, <2>5, ZenonT(60) DEF Heard
<1>7. Spoke(Len(handled))' <=> Spoke(Len(handled))
  BY <1>1, ZenonT(60) DEF Spoke, SetupsOf
<1> QED BY <1>4, <1>6, <1>7, ZenonT(60)

\* Bytes arrive; if rbuf gets too long, the loudspeaker is closed.
LEMMA RecvKept ==
    ASSUME InStep, Kept, rtsp_recv_handler
    PROVE  Kept'
<1>1. /\ open /\ out = <<>>
      /\ UNCHANGED <<plan, handled, sess, refused, played, out, sends>>
  BY ZenonT(60) DEF rtsp_recv_handler, Idle, clientVars, sendVars
<1>2. PICK k \in 1..RxSz : Received(k)
  BY ZenonT(60) DEF rtsp_recv_handler
<1>3. aout' = (aout /\ open')
  BY <1>2, ZenonT(60) DEF Received
<1>4. /\ sess \in Session /\ aout \in BOOLEAN /\ refused \in BOOLEAN
      /\ out \in Seq(Item) /\ sends \in Seq(Item) /\ played \in Seq(Nat)
      /\ sess.state = "IDLE" <=> sess.setup = {}
  BY <1>1, ZenonT(60) DEF Kept, Recorded
<1>5. aout' \in BOOLEAN /\ (aout' <=> aout /\ open')
  BY <1>3, ZenonT(60)
<1>6. Recorded'
  BY <1>1, <1>4, <1>5, ZenonT(60) DEF Recorded
<1>7. Plain' <=> Plain
  BY <1>1, UnitsStay, ZenonT(60)
<1>8. ASSUME Plain
      PROVE  /\ Chosen(Len(handled))' /\ Loud(Len(handled))' /\ Heard(Len(handled))'
             /\ Owned(out)' /\ Owned(sends)'
  <2>1. /\ Chosen(Len(handled)) /\ Loud(Len(handled)) /\ Heard(Len(handled))
        /\ Owned(out) /\ Owned(sends)
    BY <1>8, ZenonT(60) DEF Kept
  <2>2. /\ Chosen(Len(handled))' /\ Heard(Len(handled))'
        /\ Spoke(Len(handled))' <=> Spoke(Len(handled))
    BY <1>1, <2>1, RecordStays, ZenonT(60)
  <2>3. Loud(Len(handled))'
    <3>1. refused' <=> refused
      BY <1>1, <1>4, ZenonT(60)
    <3> QED BY <1>1, <1>5, <2>1, <2>2, <3>1, ZenonT(60) DEF Loud
  <2>4. (\A i \in DOMAIN out' : Own(out'[i])) /\ \A i \in DOMAIN sends' : Own(sends'[i])
    BY <1>1, <2>1, ZenonT(60) DEF Owned
  <2> QED BY <1>1, <2>2, <2>3, <2>4, OwnedStays, ZenonT(60)
<1> QED BY <1>6, <1>7, <1>8, ZenonT(60) DEF Kept

\* Only what is to be sent, or was, changes, and it stays on its channels.
LEMMA SentKept ==
    ASSUME Kept, UNCHANGED <<plan, handled, open, sess, aout, refused, played>>,
           out' \in Seq(Item), sends' \in Seq(Item),
           Plain => /\ \A i \in DOMAIN out' : Own(out'[i])
                    /\ \A i \in DOMAIN sends' : Own(sends'[i])
    PROVE  Kept'
<1>1. Recorded'
  BY ZenonT(60) DEF Kept, Recorded
<1>2. Plain' <=> Plain
  BY UnitsStay, ZenonT(60)
<1>3. ASSUME Plain
      PROVE  /\ Chosen(Len(handled))' /\ Loud(Len(handled))' /\ Heard(Len(handled))'
             /\ Owned(out)' /\ Owned(sends)'
  <2>1. Chosen(Len(handled)) /\ Loud(Len(handled)) /\ Heard(Len(handled))
    BY <1>3, ZenonT(60) DEF Kept
  <2>2. /\ Chosen(Len(handled))' /\ Heard(Len(handled))'
        /\ Spoke(Len(handled))' <=> Spoke(Len(handled))
    BY <2>1, RecordStays, ZenonT(60)
  <2>3. Loud(Len(handled))'
    <3>1. (refused' <=> refused) /\ (aout' <=> aout) /\ (open' <=> open)
      BY ZenonT(60)
    <3> QED BY <2>1, <2>2, <3>1, ZenonT(60) DEF Loud
  <2>4. Owned(out)' /\ Owned(sends)'
    BY <1>3, OwnedStays, ZenonT(60)
  <2> QED BY <2>2, <2>3, <2>4, ZenonT(60)
<1> QED BY <1>1, <1>2, <1>3, ZenonT(60) DEF Kept

\* What tcp_send takes from out.
LEMMA SendShape ==
    ASSUME Kept, tcp_send
    PROVE  /\ UNCHANGED <<plan, handled, open, sess, aout, refused, played>>
           /\ out # <<>> /\ out[1] \in Item /\ Head(out) = out[1] /\ 1 \in DOMAIN out
           /\ out' \in Seq(Item) /\ sends' = Append(sends, out[1]) /\ sends' \in Seq(Item)
           /\ \A i \in DOMAIN out' : i + 1 \in DOMAIN out /\ out'[i] = out[i + 1]
           /\ Len(sends) \in Nat /\ DOMAIN sends = 1..Len(sends) /\ DOMAIN sends' = 1..(Len(sends) + 1)
           /\ \A i \in 1..Len(sends) : sends'[i] = sends[i]
           /\ sends'[Len(sends) + 1] = out[1]
<1>1. /\ UNCHANGED <<plan, handled, open, sess, aout, refused, played>>
      /\ out # <<>> /\ out' = Tail(out) /\ sends' = Append(sends, Head(out))
  BY ZenonT(60) DEF tcp_send, clientVars, parseVars, sessVars
<1>2. out \in Seq(Item) /\ sends \in Seq(Item)
  BY ZenonT(60) DEF Kept, Recorded
<1>3. Len(out) \in Nat \ {0} /\ DOMAIN out = 1..Len(out) /\ out[1] \in Item /\ Head(out) = out[1]
  BY <1>1, <1>2
<1>4. out' \in Seq(Item) /\ Len(out') = Len(out) - 1 /\ \A i \in 1..(Len(out) - 1) : out'[i] = out[i + 1]
  BY <1>1, <1>2, <1>3
<1>5. DOMAIN out' = 1..(Len(out) - 1)
  BY <1>4, LenProperties, ZenonT(60)
<1>6. \A i \in DOMAIN out' : i + 1 \in DOMAIN out /\ out'[i] = out[i + 1]
  BY <1>3, <1>4, <1>5
<1>7. sends' = Append(sends, out[1])
  BY <1>1, <1>3, ZenonT(60)
<1>8. Len(sends) \in Nat /\ DOMAIN sends = 1..Len(sends)
  BY <1>2, LenProperties, ZenonT(60)
<1>9. /\ sends' \in Seq(Item) /\ Len(sends') = Len(sends) + 1
      /\ \A i \in 1..Len(sends) : sends'[i] = sends[i]
      /\ sends'[Len(sends) + 1] = out[1]
  BY <1>2, <1>3, <1>7, <1>8
<1>10. DOMAIN sends' = 1..(Len(sends) + 1)
  BY <1>9, LenProperties, ZenonT(60)
<1>11. 1 \in DOMAIN out
  BY <1>3
<1> QED BY <1>1, <1>3, <1>4, <1>6, <1>7, <1>8, <1>9, <1>10, <1>11, ZenonT(60)

\* An item is handed to tcp_send.
LEMMA SendKept ==
    ASSUME Kept, tcp_send
    PROVE  Kept'
<1>1. /\ UNCHANGED <<plan, handled, open, sess, aout, refused, played>>
      /\ 1 \in DOMAIN out
      /\ out' \in Seq(Item) /\ sends' \in Seq(Item)
      /\ \A i \in DOMAIN out' : i + 1 \in DOMAIN out /\ out'[i] = out[i + 1]
      /\ Len(sends) \in Nat /\ DOMAIN sends = 1..Len(sends) /\ DOMAIN sends' = 1..(Len(sends) + 1)
      /\ \A i \in 1..Len(sends) : sends'[i] = sends[i]
      /\ sends'[Len(sends) + 1] = out[1]
  BY SendShape, ZenonT(60)
<1>2. Plain => Owned(out) /\ Owned(sends)
  BY ZenonT(60) DEF Kept
<1>3. \A i : i \in 1..(Len(sends) + 1) <=> i \in 1..Len(sends) \/ i = Len(sends) + 1
  BY <1>1
<1>4. Plain => \A i \in DOMAIN out' : Own(out'[i])
  BY <1>1, <1>2, ZenonT(60) DEF Owned
<1>5. Plain => \A i \in DOMAIN sends' : Own(sends'[i])
  BY <1>1, <1>2, <1>3, ZenonT(60) DEF Owned
<1> QED BY <1>1, <1>4, <1>5, SentKept, ZenonT(60)

\* A timer sends media.
LEMMA TimerKept ==
    ASSUME InStep, Kept, NEW t \in {"audio", "video"}, SendTimer(t)
    PROVE  Kept'
<1>1. /\ UNCHANGED <<plan, handled, open, sess, aout, refused, played, sends>>
      /\ t \in sess.setup /\ out' = Interleaved(sess, <<t>>)
  BY ZenonT(60) DEF SendTimer, clientVars, parseVars, sessVars, sendVars
<1>2. t \in Track /\ sess \in Session /\ Len(handled) \in Nat /\ sends \in Seq(Item)
  <2>1. handled \in Seq(Nat) /\ sess \in Session /\ sends \in Seq(Item)
    BY ZenonT(60) DEF InStep, Kept, Recorded
  <2> QED BY <2>1, LenProperties, ZenonT(60) DEF Track
<1>3. <<t>> \in Seq(Track) /\ \A j \in DOMAIN <<t>> : <<t>>[j] = t
  BY <1>2
<1>4. /\ out' \in Seq(Item)
      /\ \A i \in DOMAIN out' : \E j \in DOMAIN <<t>> : out'[i] = Media(sess, <<t>>[j])
  BY <1>1, <1>2, <1>3, InterleavedItems, ZenonT(60)
<1>5. \A i \in DOMAIN out' : out'[i] = Media(sess, t)
  BY <1>3, <1>4, ZenonT(60)
<1>6. ASSUME Plain
      PROVE  /\ \A i \in DOMAIN out' : Own(out'[i])
             /\ \A i \in DOMAIN sends' : Own(sends'[i])
  <2>1. Chosen(Len(handled)) /\ Owned(sends)
    BY <1>6, ZenonT(60) DEF Kept
  <2>2. Own(Media(sess, t))
    BY <1>1, <1>2, <2>1, MediaOwn, ZenonT(60)
  <2>3. \A i \in DOMAIN sends' : Own(sends'[i])
    BY <1>1, <2>1, ZenonT(60) DEF Owned
  <2> QED BY <1>5, <2>2, <2>3, ZenonT(60)
<1>7. sends' \in Seq(Item)
  BY <1>1, <1>2, ZenonT(60)
<1>8. UNCHANGED <<plan, handled, open, sess, aout, refused, played>>
  BY <1>1, ZenonT(60)
<1> QED BY <1>4, <1>6, <1>7, <1>8, SentKept, ZenonT(60)

\* Every step keeps the record.
LEMMA NextKept ==
    ASSUME InStep, Kept, [Next]_vars
    PROVE  Kept'
<1>1. CASE rtsp_recv_handler
  BY <1>1, RecvKept, ZenonT(60)
<1>2. CASE HandleUnit
  BY <1>2, HandleKept, ZenonT(60)
<1>3. CASE tcp_send
  BY <1>3, SendKept, ZenonT(60)
<1>4. CASE SendTimer("audio")
  BY <1>4, TimerKept, ZenonT(60)
<1>5. CASE SendTimer("video")
  BY <1>5, TimerKept, ZenonT(60)
<1>6. CASE UNCHANGED <<plan, handled, open, sess, aout, refused, played, out, sends>>
  <2>1. UNCHANGED <<plan, handled, open, sess, aout, refused, played>>
        /\ out' = out /\ sends' = sends
    BY <1>6, ZenonT(60)
  <2>2. out' \in Seq(Item) /\ sends' \in Seq(Item)
    BY <2>1, ZenonT(60) DEF Kept, Recorded
  <2>3. Plain => /\ \A i \in DOMAIN out' : Own(out'[i])
                 /\ \A i \in DOMAIN sends' : Own(sends'[i])
    BY <2>1, ZenonT(60) DEF Kept, Owned
  <2> QED BY <2>1, <2>2, <2>3, SentKept, ZenonT(60)
<1>7. \/ rtsp_recv_handler \/ HandleUnit \/ tcp_send \/ SendTimer("audio") \/ SendTimer("video")
      \/ UNCHANGED <<plan, handled, open, sess, aout, refused, played, out, sends>>
  BY ZenonT(60) DEF Next, Device, ClientWrites, readLoop, dequeue, audio_send_timer, video_send_timer,
     clientVars, parseVars, sessVars, sendVars, vars
<1> QED BY <1>1, <1>2, <1>3, <1>4, <1>5, <1>6, <1>7, ZenonT(60)

\* A new client's record.
LEMMA InitKept ==
    ASSUME Init
    PROVE  Kept
<1>1. /\ handled = <<>> /\ sess = NewSession /\ aout = FALSE /\ refused = FALSE /\ played = <<>>
      /\ out = <<>> /\ sends = <<>>
  BY ZenonT(60) DEF Init
<1>2. /\ sess \in Session /\ sess.state = "IDLE" /\ sess.setup = {} /\ Len(handled) = 0
      /\ out \in Seq(Item) /\ sends \in Seq(Item) /\ played \in Seq(Nat)
  <2>1. sess \in Session
    BY <1>1, NewSessionType, ZenonT(60)
  <2> QED BY <1>1, <2>1 DEF NewSession
<1>3. Recorded
  BY <1>1, <1>2, ZenonT(60) DEF Recorded
<1>4. \A t : SetupsOf(t, Len(handled)) = {}
  BY <1>2 DEF SetupsOf
<1>5. Chosen(Len(handled))
  BY <1>2, <1>4, ZenonT(60) DEF Chosen
<1>6. ~Spoke(Len(handled))
  BY <1>2 DEF Spoke
<1>7. Loud(Len(handled))
  BY <1>1, <1>6, ZenonT(60) DEF Loud
<1>8. Heard(Len(handled))
  BY <1>1, <1>2 DEF Heard
<1>9. Owned(out) /\ Owned(sends)
  BY <1>1 DEF Owned
<1> QED BY <1>3, <1>5, <1>7, <1>8, <1>9, ZenonT(60) DEF Kept

\* The record is always kept.
LEMMA AlwaysKept == Spec => []Kept
<1>1. Init => Kept
  BY InitKept, ZenonT(60)
<1>2. InStep /\ Kept /\ [Next]_vars => Kept'
  BY NextKept, ZenonT(60)
<1> QED BY <1>1, <1>2, AlwaysInStep, PTL DEF Spec

\* Media goes out on the channel its client named last (handle_setup against
\* the senders' use of the channels).
THEOREM MediaOnOwnChannel == Spec => []OwnChannel
<1>1. Kept => OwnChannel
  BY ZenonT(60) DEF Kept, Owned, Own, OwnChannel
<1> QED BY <1>1, AlwaysKept, PTL

\* The device plays the speech of its client, all of it unless the loudspeaker
\* was refused, and nothing else (interleaved frames in rtsp_recv_handler).
THEOREM PlaysSpeech == Spec => []SpeechIsPlayed
<1>1. Kept => SpeechIsPlayed
  BY ZenonT(60) DEF Kept, Heard, SpeechIsPlayed
<1> QED BY <1>1, AlwaysKept, PTL

----------------------------------------------------------------------------
(* From the device to the client.                                          *)

\* The frames f are sent ones, in order, behind those the client has taken.
OfSends(f) ==
    /\ \A k \in DOMAIN f : f[k][1] \in DOMAIN sends /\ f[k][2] = sends[f[k][1]].len
    /\ \A i, k \in DOMAIN f : i < k => f[i][1] < f[k][1]
    /\ \A i \in DOMAIN got : \A k \in DOMAIN f : got[i][1][1] < f[k][1]

\* What the client took is a frame that was sent.
Taken(x) == x[1][1] \in DOMAIN sends /\ x = Bytes(x[1][1], sends[x[1][1]].len)

\* What the kernel holds and what is queued behind it are whole frames, but for
\* the place where the one ends and the other begins.
Flow ==
    /\ wire \in Seq(Byte) /\ sendq \in Seq(Byte) /\ got \in Seq(Seq(Byte))
    /\ Len(sendq) <= TxqMax
    /\ \E f : Laid(f, wire \o sendq) /\ OfSends(f)
    /\ \A i \in DOMAIN got : Taken(got[i])
    /\ \A i, j \in DOMAIN got : i < j => got[i][1][1] < got[j][1][1]

\* Bytes that only move leave the frames as they are.
LEMMA FlowMoves ==
    ASSUME Flow, UNCHANGED <<sends, got>>, wire' \in Seq(Byte), sendq' \in Seq(Byte),
           Len(sendq') <= TxqMax, wire' \o sendq' = wire \o sendq
    PROVE  Flow'
<1>1. PICK f : Laid(f, wire \o sendq) /\ OfSends(f)
  BY ZenonT(60) DEF Flow
<1>2. OfSends(f)'
  BY <1>1, ZenonT(60) DEF OfSends
<1>3. Laid(f, wire' \o sendq')
  BY <1>1, ZenonT(60)
<1>4. \A i \in DOMAIN got' : Taken(got[i])'
  BY ZenonT(60) DEF Flow, Taken, Bytes
<1>5. got' \in Seq(Seq(Byte)) /\ \A i, j \in DOMAIN got' : i < j => got'[i][1][1] < got'[j][1][1]
  BY ZenonT(60) DEF Flow
<1>6. \E g : Laid(g, wire' \o sendq') /\ OfSends(g)'
  BY <1>2, <1>3, ZenonT(60)
<1> QED BY <1>4, <1>5, <1>6, ZenonT(60) DEF Flow

\* The kernel takes bytes of the queue.
LEMMA DequeueFlow ==
    ASSUME Flow, dequeue
    PROVE  Flow'
<1>1. /\ sendq # <<>> /\ UNCHANGED <<sends, got>>
      /\ \E n \in 1..(sends[sendq[1][1]].len - sendq[1][2] + 1) :
           /\ wire' = wire \o SubSeq(sendq, 1, n)
           /\ sendq' = SubSeq(sendq, n + 1, Len(sendq))
  BY ZenonT(60) DEF dequeue
<1>2. PICK n \in 1..(sends[sendq[1][1]].len - sendq[1][2] + 1) :
           /\ wire' = wire \o SubSeq(sendq, 1, n)
           /\ sendq' = SubSeq(sendq, n + 1, Len(sendq))
  BY <1>1, ZenonT(60)
<1>3. PICK f : Laid(f, wire \o sendq) /\ OfSends(f)
  BY ZenonT(60) DEF Flow
<1>4. wire \in Seq(Byte) /\ sendq \in Seq(Byte) /\ Len(sendq) <= TxqMax
  BY ZenonT(60) DEF Flow
<1> DEFINE a == Len(wire)
           b == Len(sendq)
           q == wire \o sendq
<1>5. /\ a \in Nat /\ b \in Nat /\ q \in Seq(Byte) /\ Len(q) = a + b
      /\ \A x \in 1..b : q[a + x] = sendq[x]
  BY <1>4, JoinedBytes, ZenonT(60)
<1>6. b # 0
  BY <1>1, <1>4, EmptySeq, ZenonT(60)
<1> HIDE DEF a, b, q
<1>7. a + 1 \in 1..Len(q) /\ 1 \in 1..b
  BY <1>5, <1>6
<1>8. PICK k \in DOMAIN f : \E j \in 1..f[k][2] : ByteOf(f, q, a + 1, k, j)
  BY <1>3, <1>7, LaidNext, ZenonT(60) DEF q
<1>9. PICK j \in 1..f[k][2] : ByteOf(f, q, a + 1, k, j)
  BY <1>8, ZenonT(60)
<1>10. /\ sendq[1] = <<f[k][1], j>> /\ f[k][2] \in Nat /\ f[k][2] - j <= Len(q) - (a + 1)
  BY <1>5, <1>7, <1>9, ZenonT(60) DEF ByteOf
<1>11. sends[f[k][1]].len = f[k][2]
  BY <1>3, <1>8, ZenonT(60) DEF OfSends
<1>12. n \in 1..(f[k][2] - j + 1)
  <2>1. sendq[1][1] = f[k][1] /\ sendq[1][2] = j
    BY <1>10
  <2> QED BY <1>2, <1>11, <2>1, ZenonT(60)
<1>13. n \in Nat /\ n <= b
  <2> DEFINE l == f[k][2]
  <2>1. l \in Nat /\ l - j <= Len(q) - (a + 1) /\ n \in 1..(l - j + 1) /\ j \in 1..l
    BY <1>9, <1>10, <1>12, ZenonT(60)
  <2> HIDE DEF l
  <2> QED BY <1>5, <2>1
<1>14. /\ wire' \in Seq(Byte) /\ sendq' \in Seq(Byte) /\ Len(sendq') = b - n
       /\ wire' \o sendq' = wire \o sendq
  BY <1>2, <1>4, <1>13, Regroup, ZenonT(60) DEF b
<1>15. Len(sendq') <= TxqMax
  <2>1. b <= TxqMax
    BY <1>4, ZenonT(60) DEF b
  <2> QED BY <1>5, <1>13, <1>14, <2>1, RtspTransportAssumption
<1> QED BY <1>1, <1>14, <1>15, FlowMoves, ZenonT(60)

\* The client takes a frame.
LEMMA ReadFlow ==
    ASSUME Flow, readLoop
    PROVE  Flow'
<1>1. /\ wire # <<>> /\ ReadLength <= Len(wire)
      /\ got' = Append(got, SubSeq(wire, 1, ReadLength))
      /\ wire' = SubSeq(wire, ReadLength + 1, Len(wire))
      /\ UNCHANGED <<sends, sendq>>
  BY ZenonT(60) DEF readLoop
<1>2. PICK f : Laid(f, wire \o sendq) /\ OfSends(f)
  BY ZenonT(60) DEF Flow
<1>3. /\ wire \in Seq(Byte) /\ sendq \in Seq(Byte) /\ got \in Seq(Seq(Byte)) /\ Len(sendq) <= TxqMax
      /\ \A i \in DOMAIN got : Taken(got[i])
      /\ \A i, j \in DOMAIN got : i < j => got[i][1][1] < got[j][1][1]
  BY ZenonT(60) DEF Flow
<1> DEFINE q == wire \o sendq
           a == Len(wire)
           n == f[1][1]
<1>4. /\ q \in Seq(Byte) /\ a \in Nat /\ Len(sendq) \in Nat /\ Len(q) = a + Len(sendq)
      /\ \A x \in 1..a : q[x] = wire[x]
  BY <1>3, JoinedBytes, ZenonT(60)
<1>5. a # 0 /\ 1 \in 1..a
  BY <1>1, <1>3, EmptySeq
<1>6. q # <<>>
  <2>1. Len(q) # 0
    BY <1>4, <1>5
  <2> QED BY <1>4, <2>1, EmptySeq, ZenonT(60)
<1> HIDE DEF q, a
<1>7. /\ f \in Seq(Frame) /\ f # <<>> /\ 1 \in DOMAIN f /\ n \in Nat /\ f[1][2] \in Nat \ {0}
      /\ \A j \in 1..f[1][2] : q[j] = <<n, j>>
  <2>1. Laid(f, q)
    BY <1>2, ZenonT(60) DEF q
  <2>2. /\ f \in Seq(Frame) /\ (q = <<>> <=> f = <<>>)
        /\ f # <<>> => /\ 1 \in DOMAIN f /\ f[1][1] \in Nat /\ f[1][2] \in Nat \ {0}
                       /\ \A j \in 1..f[1][2] : q[j] = <<f[1][1], j>>
    BY <2>1, LaidHead
  <2> QED BY <1>6, <2>2, ZenonT(60)
<1>8. PICK l \in Nat \ {0} : l = f[1][2]
  BY <1>7, ZenonT(60)
<1>9. wire[1] = <<n, 1>>
  <2>1. 1 \in 1..l
    OBVIOUS
  <2> QED BY <1>4, <1>5, <1>7, <1>8, <2>1, ZenonT(60)
<1>10. ReadLength = l /\ n \in DOMAIN sends /\ sends[n].len = l
  <2>1. n \in DOMAIN sends /\ sends[n].len = l
    BY <1>2, <1>7, <1>8, ZenonT(60) DEF OfSends
  <2>2. wire[1][1] = n /\ wire[1][2] = 1
    BY <1>9
  <2> QED BY <2>1, <2>2, ZenonT(60) DEF ReadLength
<1>11. l <= a /\ got' = Append(got, SubSeq(wire, 1, l)) /\ wire' = SubSeq(wire, l + 1, a)
  BY <1>1, <1>10, ZenonT(60) DEF a
<1>12. SubSeq(wire, 1, l) = Bytes(n, l)
  <2> DEFINE s == SubSeq(wire, 1, l)
             t == Bytes(n, l)
  <2>1. s \in Seq(Byte) /\ Len(s) = l /\ \A x \in 1..l : s[x] = wire[x]
    <3>1. 0 \in Nat /\ 0 <= l /\ 0 + 1 = 1 /\ l - 0 = l /\ \A x \in 1..l : 0 + x = x
      OBVIOUS
    <3>2. l <= Len(wire) /\ l \in Nat
      BY <1>11, ZenonT(60) DEF a
    <3>3. /\ SubSeq(wire, 0 + 1, l) \in Seq(Byte) /\ Len(SubSeq(wire, 0 + 1, l)) = l - 0
          /\ \A x \in 1..(l - 0) : SubSeq(wire, 0 + 1, l)[x] = wire[0 + x]
      BY <1>3, <3>1, <3>2, CutBytes, ZenonT(60)
    <3> QED BY <3>1, <3>3, ZenonT(60)
  <2>2. t \in Seq(Byte) /\ Len(t) = l /\ \A x \in 1..l : t[x] = <<n, x>>
    BY <1>7, FrameBytes, ZenonT(60)
  <2>3. \A x \in 1..l : x \in 1..a
    BY <1>4, <1>11
  <2>4. \A x \in 1..l : s[x] = t[x]
    BY <1>4, <1>7, <1>8, <2>1, <2>2, <2>3, ZenonT(60)
  <2> HIDE DEF s, t
  <2>5. s = t
    <3>1. Len(s) = Len(t) /\ \A x \in 1..Len(s) : s[x] = t[x]
      BY <2>1, <2>2, <2>4, ZenonT(60)
    <3> QED BY <2>1, <2>2, <3>1, SameBytes, ZenonT(60)
  <2> QED BY <2>5, ZenonT(60) DEF s, t
<1> DEFINE x == Bytes(n, l)
<1>13. x \in Seq(Byte) /\ x[1][1] = n
  <2>1. x \in Seq(Byte) /\ x[1] = <<n, 1>>
    <3>1. 1 \in 1..l
      OBVIOUS
    <3> QED BY <1>7, <3>1, FrameBytes, ZenonT(60)
  <2> QED BY <2>1
<1>14. Taken(x)
  BY <1>10, <1>13, ZenonT(60) DEF Taken
<1> HIDE DEF x, n
<1> DEFINE g == Len(got)
<1>15. /\ got' \in Seq(Seq(Byte)) /\ g \in Nat /\ DOMAIN got = 1..g /\ DOMAIN got' = 1..(g + 1)
       /\ got'[g + 1] = x /\ \A i \in 1..g : got'[i] = got[i]
  <2>1. got' = Append(got, x)
    BY <1>11, <1>12, ZenonT(60) DEF x
  <2>2. g \in Nat /\ DOMAIN got = 1..g
    BY <1>3, LenProperties, ZenonT(60)
  <2>3. /\ got' \in Seq(Seq(Byte)) /\ Len(got') = g + 1
        /\ got'[g + 1] = x /\ \A i \in 1..g : got'[i] = got[i]
    BY <1>3, <1>13, <2>1, <2>2
  <2> QED BY <2>2, <2>3, LenProperties, ZenonT(60)
<1> HIDE DEF g
<1>16. \A i : i \in 1..(g + 1) <=> i \in 1..g \/ i = g + 1
  BY <1>15
<1>17. \A i \in DOMAIN got' : Taken(got'[i])
  BY <1>3, <1>14, <1>15, <1>16, ZenonT(60)
<1>18. \A i \in DOMAIN got : got[i][1][1] < n
  BY <1>2, <1>7, ZenonT(60) DEF OfSends, n
<1>19. \A i, j \in DOMAIN got' : i < j => got'[i][1][1] < got'[j][1][1]
  <2> SUFFICES ASSUME NEW i \in 1..(g + 1), NEW j \in 1..(g + 1), i < j
               PROVE  got'[i][1][1] < got'[j][1][1]
    BY <1>15, ZenonT(60)
  <2>1. i \in 1..g
    BY <1>15
  <2>2. CASE j \in 1..g
    BY <1>3, <1>15, <2>1, <2>2, ZenonT(60)
  <2>3. CASE j = g + 1
    BY <1>13, <1>15, <1>18, <2>1, <2>3, ZenonT(60)
  <2> QED BY <1>16, <2>2, <2>3, ZenonT(60)
<1> DEFINE t == Tail(f)
           m == Len(f)
<1>20. /\ m \in Nat /\ DOMAIN f = 1..m /\ DOMAIN t = 1..(m - 1)
       /\ \A k \in 1..(m - 1) : t[k] = f[k + 1]
  BY <1>7
<1>21. Laid(t, wire' \o sendq')
  <2>1. Laid(t, SubSeq(q, l + 1, Len(q)))
    BY <1>2, <1>7, <1>8, LaidDrop, ZenonT(60) DEF q
  <2>2. l \in Nat /\ l <= Len(wire)
    BY <1>11, ZenonT(60) DEF a
  <2>3. wire' \o sendq = SubSeq(q, l + 1, Len(q))
    BY <1>3, <1>11, <2>2, CutFirst, ZenonT(60) DEF a, q
  <2> QED BY <1>1, <2>1, <2>3, ZenonT(60)
<1> HIDE DEF t, m
<1>22. \A k \in DOMAIN t : k + 1 \in DOMAIN f /\ t[k] = f[k + 1] /\ 1 < k + 1 /\ k \in Nat
  BY <1>20
<1>23. OfSends(t)'
  <2>1. \A k \in DOMAIN t : t[k][1] \in DOMAIN sends /\ t[k][2] = sends[t[k][1]].len
    BY <1>2, <1>22, ZenonT(60) DEF OfSends
  <2>2. \A i, k \in DOMAIN t : i < k => t[i][1] < t[k][1]
    <3>1. \A i, k \in DOMAIN t : i < k => i + 1 < k + 1
      BY <1>22
    <3> QED BY <1>2, <1>22, <3>1, ZenonT(60) DEF OfSends
  <2>3. \A i \in DOMAIN got' : \A k \in DOMAIN t : got'[i][1][1] < t[k][1]
    <3>1. \A k \in DOMAIN t : n < t[k][1]
      BY <1>2, <1>7, <1>22, ZenonT(60) DEF OfSends, n
    <3>2. \A i \in DOMAIN got : \A k \in DOMAIN t : got[i][1][1] < t[k][1]
      BY <1>2, <1>22, ZenonT(60) DEF OfSends
    <3> QED BY <1>13, <1>15, <1>16, <3>1, <3>2, ZenonT(60)
  <2> QED BY <1>1, <2>1, <2>2, <2>3, ZenonT(60) DEF OfSends
<1>24. wire' \in Seq(Byte) /\ sendq' \in Seq(Byte) /\ Len(sendq') <= TxqMax
  <2>1. l \in Nat /\ l <= Len(wire)
    BY <1>11, ZenonT(60) DEF a
  <2>2. wire' \in Seq(Byte)
    BY <1>3, <1>11, <2>1, CutFirst, ZenonT(60) DEF a
  <2> QED BY <1>1, <1>3, <2>2, ZenonT(60)
<1>25. \A i \in DOMAIN got' : Taken(got[i])'
  BY <1>1, <1>17, ZenonT(60) DEF Taken, Bytes
<1>26. \E h : Laid(h, wire' \o sendq') /\ OfSends(h)'
  BY <1>21, <1>23, ZenonT(60)
<1> QED BY <1>15, <1>19, <1>24, <1>25, <1>26, ZenonT(60) DEF Flow

\* One more frame is sent and laid behind the others.
LEMMA OneMore ==
    ASSUME Kept, Flow, tcp_send, NEW f, Laid(f, wire \o sendq), OfSends(f),
           NEW n \in Nat, n = Len(sends) + 1, NEW l \in Nat \ {0}, l = out[1].len
    PROVE  /\ OfSends(f)' /\ OfSends(Append(f, <<n, l>>))'
           /\ \A i \in DOMAIN got' : Taken(got[i])'
           /\ got' = got
<1>1. /\ Len(sends) \in Nat /\ DOMAIN sends = 1..Len(sends) /\ DOMAIN sends' = 1..(Len(sends) + 1)
      /\ \A i \in 1..Len(sends) : sends'[i] = sends[i]
      /\ sends'[Len(sends) + 1] = out[1]
  BY SendShape, ZenonT(60)
<1>2. got' = got
  BY ZenonT(60) DEF tcp_send
<1>3. \A i \in DOMAIN sends : i \in DOMAIN sends' /\ sends'[i] = sends[i] /\ i < n
  BY <1>1
<1>4. n \in DOMAIN sends' /\ sends'[n] = out[1]
  BY <1>1
<1>5. /\ \A k \in DOMAIN f : f[k][1] \in DOMAIN sends /\ f[k][2] = sends[f[k][1]].len
      /\ \A i, k \in DOMAIN f : i < k => f[i][1] < f[k][1]
      /\ \A i \in DOMAIN got : \A k \in DOMAIN f : got[i][1][1] < f[k][1]
  BY ZenonT(60) DEF OfSends
<1>6. \A i \in DOMAIN got : Taken(got[i])
  BY ZenonT(60) DEF Flow
<1>7. OfSends(f)'
  BY <1>2, <1>3, <1>5, ZenonT(60) DEF OfSends
<1>8. \A i \in DOMAIN got' : Taken(got[i])'
  <2>1. \A i \in DOMAIN got' :
          /\ got'[i][1][1] \in DOMAIN sends'
          /\ got'[i] = Bytes(got'[i][1][1], sends'[got'[i][1][1]].len)
    <3> SUFFICES ASSUME NEW i \in DOMAIN got
                 PROVE  /\ got[i][1][1] \in DOMAIN sends'
                        /\ got[i] = Bytes(got[i][1][1], sends'[got[i][1][1]].len)
      BY <1>2, ZenonT(60)
    <3>1. got[i][1][1] \in DOMAIN sends /\ got[i] = Bytes(got[i][1][1], sends[got[i][1][1]].len)
      BY <1>6, ZenonT(60) DEF Taken
    <3>2. got[i][1][1] \in DOMAIN sends' /\ sends'[got[i][1][1]] = sends[got[i][1][1]]
      BY <1>3, <3>1, ZenonT(60)
    <3> QED BY <3>1, <3>2, ZenonT(60)
  <2> QED BY <2>1, ZenonT(60) DEF Taken, Bytes
<1> DEFINE g == Append(f, <<n, l>>)
           m == Len(f)
<1>9. f \in Seq(Frame)
  BY LaidHead, ZenonT(60)
<1>10. /\ m \in Nat /\ DOMAIN f = 1..m /\ DOMAIN g = 1..(m + 1)
       /\ \A k \in 1..m : g[k] = f[k]
       /\ g[m + 1] = <<n, l>>
  <2>1. <<n, l>> \in Frame
    BY ZenonT(60) DEF Frame
  <2>2. m \in Nat /\ DOMAIN f = 1..m
    BY <1>9, LenProperties, ZenonT(60)
  <2>3. g \in Seq(Frame) /\ Len(g) = m + 1 /\ g[m + 1] = <<n, l>> /\ \A k \in 1..m : g[k] = f[k]
    BY <1>9, <2>1, OneFrameMore, ZenonT(60)
  <2> QED BY <2>2, <2>3, LenProperties, ZenonT(60)
<1> HIDE DEF g, m
<1>11. \A k : k \in 1..(m + 1) <=> k \in 1..m \/ k = m + 1
  BY <1>10
<1>12. g[m + 1][1] = n /\ g[m + 1][2] = l
  BY <1>10
<1>13. \A k \in DOMAIN g : g[k][1] \in DOMAIN sends' /\ g[k][2] = sends'[g[k][1]].len
  <2> TAKE k \in DOMAIN g
  <2>1. CASE k = m + 1
    BY <1>4, <1>12, <2>1, ZenonT(60)
  <2>2. CASE k \in 1..m
    <3>1. g[k] = f[k] /\ f[k][1] \in DOMAIN sends /\ f[k][2] = sends[f[k][1]].len
      BY <1>5, <1>10, <2>2, ZenonT(60)
    <3>2. f[k][1] \in DOMAIN sends' /\ sends'[f[k][1]] = sends[f[k][1]]
      BY <1>3, <3>1, ZenonT(60)
    <3> QED BY <3>1, <3>2, ZenonT(60)
  <2> QED BY <1>10, <1>11, <2>1, <2>2, ZenonT(60)
<1>14. \A i, k \in DOMAIN g : i < k => g[i][1] < g[k][1]
  <2> SUFFICES ASSUME NEW i \in 1..(m + 1), NEW k \in 1..(m + 1), i < k
               PROVE  g[i][1] < g[k][1]
    BY <1>10, ZenonT(60)
  <2>1. i \in 1..m
    BY <1>10
  <2>2. CASE k \in 1..m
    BY <1>5, <1>10, <2>1, <2>2, ZenonT(60)
  <2>3. CASE k = m + 1
    <3>1. g[i] = f[i] /\ f[i][1] \in DOMAIN sends
      BY <1>5, <1>10, <2>1, ZenonT(60)
    <3>2. f[i][1] < n
      BY <1>3, <3>1, ZenonT(60)
    <3> QED BY <1>12, <2>3, <3>1, <3>2, ZenonT(60)
  <2> QED BY <1>11, <2>2, <2>3, ZenonT(60)
<1>15. \A i \in DOMAIN got' : \A k \in DOMAIN g : got'[i][1][1] < g[k][1]
  <2>1. \A i \in DOMAIN got : got[i][1][1] < n
    BY <1>3, <1>6, ZenonT(60) DEF Taken
  <2> QED BY <1>2, <1>5, <1>10, <1>11, <1>12, <2>1, ZenonT(60)
<1>16. OfSends(g)'
  BY <1>13, <1>14, <1>15, ZenonT(60) DEF OfSends
<1> QED BY <1>2, <1>7, <1>8, <1>16, ZenonT(60) DEF g

\* An item goes to the kernel, the queue, both or, if the queue is full, nowhere.
LEMMA SendFlow ==
    ASSUME Kept, Flow, tcp_send
    PROVE  Flow'
<1>1. Len(sends) \in Nat /\ out[1] \in Item /\ Head(out) = out[1]
  BY SendShape, ZenonT(60)
<1>2. PICK n \in Nat : n = Len(sends) + 1
  BY <1>1
<1>3. PICK l \in Nat \ {0} : l = out[1].len /\ l <= TxqMax
  BY <1>1, ItemFacts, ZenonT(60)
<1> DEFINE b == Bytes(n, l)
           q == wire \o sendq
<1>4. b \in Seq(Byte) /\ Len(b) = l
  BY FrameBytes, ZenonT(60)
<1>5. \E k \in 0..Len(b) :
        /\ sendq # <<>> => k = 0
        /\ wire' = wire \o SubSeq(b, 1, k)
        /\ sendq' = IF Fits(sendq, SubSeq(b, k + 1, Len(b)))
                    THEN sendq \o SubSeq(b, k + 1, Len(b)) ELSE sendq
  BY <1>1, <1>2, <1>3, ZenonT(60) DEF tcp_send
<1> HIDE DEF b
<1>6. PICK k \in 0..l :
        /\ sendq # <<>> => k = 0
        /\ wire' = wire \o SubSeq(b, 1, k)
        /\ sendq' = IF Fits(sendq, SubSeq(b, k + 1, Len(b)))
                    THEN sendq \o SubSeq(b, k + 1, Len(b)) ELSE sendq
  BY <1>4, <1>5, ZenonT(60)
<1>7. PICK f : Laid(f, q) /\ OfSends(f)
  BY ZenonT(60) DEF Flow
<1>8. /\ wire \in Seq(Byte) /\ sendq \in Seq(Byte) /\ got \in Seq(Seq(Byte)) /\ Len(sendq) <= TxqMax
      /\ \A i, j \in DOMAIN got : i < j => got[i][1][1] < got[j][1][1]
  BY ZenonT(60) DEF Flow
<1>9. /\ OfSends(f)' /\ OfSends(Append(f, <<n, l>>))'
      /\ \A i \in DOMAIN got' : Taken(got[i])'
      /\ got' = got
  BY <1>2, <1>3, <1>7, OneMore, ZenonT(60)
<1>10. Laid(Append(f, <<n, l>>), q \o b)
  BY <1>7, LaidAppend, ZenonT(60) DEF b
<1> DEFINE rest == SubSeq(b, k + 1, Len(b))
           first == SubSeq(b, 1, k)
<1>11. k \in Nat /\ k <= Len(b)
  BY <1>4
<1>12. /\ rest \in Seq(Byte) /\ Len(rest) = l - k /\ first \in Seq(Byte) /\ Len(first) = k
       /\ (wire \o first) \o rest = wire \o b /\ wire \o first \in Seq(Byte)
  <2>1. /\ rest \in Seq(Byte) /\ Len(rest) = Len(b) - k /\ first \in Seq(Byte) /\ Len(first) = k
        /\ (wire \o first) \o rest = wire \o b /\ wire \o first \in Seq(Byte)
    <3>1. wire \in Seq(Byte) /\ b \in Seq(Byte) /\ k \in Nat /\ k <= Len(b)
      BY <1>4, <1>8, <1>11, ZenonT(60)
    <3> QED BY <3>1, Regroup, ZenonT(60)
  <2> QED BY <1>4, <2>1, ZenonT(60)
<1>13. /\ wire' \in Seq(Byte) /\ sendq' \in Seq(Byte) /\ Len(sendq') <= TxqMax
       /\ \E g : Laid(g, wire' \o sendq') /\ OfSends(g)'
  <2>1. CASE sendq = <<>>
    <3>1. Len(sendq) = 0 /\ sendq \o rest = rest /\ q = wire
      <4> HIDE DEF rest
      <4> QED BY <1>8, <1>12, <2>1
    <3>2. Fits(sendq, rest) /\ Len(rest) <= TxqMax
      <4> HIDE DEF rest
      <4> QED BY <1>3, <1>12, <3>1, RtspTransportAssumption DEF Fits
    <3>3. sendq' = rest
      BY <1>6, <3>1, <3>2, ZenonT(60)
    <3>4. wire' \o sendq' = q \o b
      BY <1>6, <1>12, <3>1, <3>3, ZenonT(60)
    <3> QED BY <1>6, <1>9, <1>10, <1>12, <3>2, <3>3, <3>4, ZenonT(60)
  <2>2. CASE sendq # <<>>
    <3>1. k = 0
      BY <1>6, <2>2, ZenonT(60)
    <3>2. first = <<>>
      <4> HIDE DEF first
      <4> QED BY <1>12, <3>1, EmptySeq, ZenonT(60)
    <3>3. wire' = wire
      <4>1. wire \o <<>> = wire
        BY <1>8
      <4> QED BY <1>6, <3>2, <4>1, ZenonT(60)
    <3>4. rest = b
      <4>1. k + 1 = 1 /\ Len(b) = l
        BY <1>4, <3>1
      <4>2. rest = SubSeq(b, 1, Len(b))
        BY <4>1, ZenonT(60)
      <4>3. SubSeq(b, 1, Len(b)) = b
        BY <1>4, SubSeqFull, ZenonT(60)
      <4> QED BY <4>2, <4>3, ZenonT(60)
    <3>5. CASE Fits(sendq, rest)
      <4>1. sendq' = sendq \o b
        BY <1>6, <3>4, <3>5, ZenonT(60)
      <4>2. sendq \o b \in Seq(Byte) /\ Len(sendq \o b) = Len(sendq) + Len(b)
        BY <1>4, <1>8, JoinedBytes, ZenonT(60)
      <4>3. Len(sendq) + Len(b) <= TxqMax
        BY <3>4, <3>5, ZenonT(60) DEF Fits
      <4>4. wire \o (sendq \o b) = q \o b
        BY <1>4, <1>8, JoinAgain, ZenonT(60)
      <4> QED BY <1>8, <1>9, <1>10, <3>3, <4>1, <4>2, <4>3, <4>4, ZenonT(60)
    <3>6. CASE ~Fits(sendq, rest)
      <4>1. sendq' = sendq
        BY <1>6, <3>6, ZenonT(60)
      <4> QED BY <1>7, <1>8, <1>9, <3>3, <4>1, ZenonT(60)
    <3> QED BY <3>5, <3>6, ZenonT(60)
  <2> QED BY <2>1, <2>2, ZenonT(60)
<1>14. got' \in Seq(Seq(Byte)) /\ \A i, j \in DOMAIN got' : i < j => got'[i][1][1] < got'[j][1][1]
  BY <1>8, <1>9, ZenonT(60)
<1> QED BY <1>9, <1>13, <1>14, ZenonT(60) DEF Flow

\* Every step keeps the frames whole.
LEMMA NextFlow ==
    ASSUME Kept, Flow, [Next]_vars
    PROVE  Flow'
<1>1. CASE readLoop
  BY <1>1, ReadFlow, ZenonT(60)
<1>2. CASE tcp_send
  BY <1>2, SendFlow, ZenonT(60)
<1>3. CASE dequeue
  BY <1>3, DequeueFlow, ZenonT(60)
<1>4. CASE UNCHANGED <<sends, sendq, wire, got>>
  <2>1. /\ UNCHANGED <<sends, got>> /\ wire' \in Seq(Byte) /\ sendq' \in Seq(Byte)
        /\ Len(sendq') <= TxqMax /\ wire' \o sendq' = wire \o sendq
    BY <1>4, ZenonT(60) DEF Flow
  <2> QED BY <2>1, FlowMoves, ZenonT(60)
<1>5. readLoop \/ tcp_send \/ dequeue \/ UNCHANGED <<sends, sendq, wire, got>>
  BY ZenonT(60) DEF Next, Device, ClientWrites, rtsp_recv_handler, HandleUnit, audio_send_timer,
     video_send_timer, SendTimer, sendVars, vars
<1> QED BY <1>1, <1>2, <1>3, <1>4, <1>5, ZenonT(60)

\* Nothing is under way at first.
LEMMA InitFlow ==
    ASSUME Init
    PROVE  Flow
<1>1. sends = <<>> /\ sendq = <<>> /\ wire = <<>> /\ got = <<>>
  BY ZenonT(60) DEF Init
<1>2. wire \o sendq = <<>> /\ Len(sendq) = 0
  BY <1>1
<1>3. Laid(<<>>, wire \o sendq) /\ OfSends(<<>>)
  <2>1. OfSends(<<>>)
    BY DEF OfSends
  <2> QED BY <1>2, <2>1, LaidNone, ZenonT(60)
<1>4. /\ wire \in Seq(Byte) /\ sendq \in Seq(Byte) /\ got \in Seq(Seq(Byte)) /\ DOMAIN got = {}
      /\ Len(sendq) <= TxqMax
  BY <1>1, <1>2, RtspTransportAssumption
<1> QED BY <1>3, <1>4, ZenonT(60) DEF Flow

\* The frames are always whole.
LEMMA AlwaysFlow == Spec => []Flow
<1>1. Init => Flow
  BY InitFlow, ZenonT(60)
<1>2. Kept /\ Flow /\ [Next]_vars => Flow'
  BY NextFlow, ZenonT(60)
<1> QED BY <1>1, <1>2, AlwaysKept, PTL DEF Spec

\* However much of a frame the kernel takes and the queue refuses, the client
\* takes whole replies and frames from the stream, in order (tcp_send, dequeue).
THEOREM FramesAreWhole == Spec => []WholeFrames
<1>1. Flow => WholeFrames
  BY ZenonT(60) DEF Flow, Taken, WholeFrames
<1> QED BY <1>1, AlwaysFlow, PTL

\* The buffers keep their limits, and the device closes a connection because of
\* one only if a unit of its client leaves no room for a read (rtsp_recv_handler).
THEOREM OverflowExplained == Spec => []OverflowHasACause
<1>1. InStep /\ Flow => OverflowHasACause
  BY ZenonT(60) DEF InStep, Flow, OverflowHasACause
<1> QED BY <1>1, AlwaysInStep, AlwaysFlow, PTL
=============================================================================
