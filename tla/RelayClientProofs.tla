------------------------- MODULE RelayClientProofs -------------------------
(***************************************************************************)
(* Proofs about the device side of the relay, for every value of the       *)
(* constants of RelayClient.                                               *)
(***************************************************************************)
EXTENDS RelayClient, TLAPS

\* The relay has said OK on the connection at hand.
Accepted == peer \in {"registered", "bridged", "gone"}

Holds(s, u) == \E i \in DOMAIN s : s[i] = u

\* An OK that is buffered or in flight was sent by the relay on this
\* connection, and nothing is buffered or in flight without a connection.
OkIsCurrent ==
    /\ Holds(wire, "OK") => Accepted
    /\ Holds(rbuf, "OK") => Accepted
    /\ Accepted => tc = "open"
    /\ registered => Accepted

IInv == TypeOK /\ NeverStranded /\ DelayInRange

\* An empty line buffer (relay_client.c:101) is a sequence of units.
LEMMA EmptySeq == <<>> \in Seq(Unit)
OBVIOUS

\* relay_backoff_delay returns a delay between the first interval and the cap.
LEMMA DelayBounds ==
    ASSUME NEW k \in 0..6
    PROVE  /\ Delay(k) \in Nat
           /\ RECONNECT_INTERVAL_MS <= Delay(k)
           /\ Delay(k) <= MAX_RECONNECT_MS
<1> DEFINE f == <<1, 2, 4, 8, 16, 32, 64>>[k + 1]
<1>1. f \in Nat /\ f >= 1
  OBVIOUS
<1>2. RECONNECT_INTERVAL_MS * f \in Nat /\ RECONNECT_INTERVAL_MS <= RECONNECT_INTERVAL_MS * f
  <2> HIDE DEF f
  <2> QED BY <1>1, RelayClientAssumption
<1> HIDE DEF f
<1>3. Delay(k) = IF RECONNECT_INTERVAL_MS * f > MAX_RECONNECT_MS
                 THEN MAX_RECONNECT_MS ELSE RECONNECT_INTERVAL_MS * f
  BY ZenonT(60) DEF Delay, f
<1> QED BY <1>2, <1>3, RelayClientAssumption

\* What relay_schedule_reconnect leaves behind: an armed timer in range.
LEMMA Scheduled ==
    ASSUME TypeOK, relay_schedule_reconnect
    PROVE  /\ tmr' \in Nat /\ backoff' \in 0..6
           /\ tmr' > 0
           /\ RECONNECT_INTERVAL_MS <= tmr' /\ tmr' <= MAX_RECONNECT_MS
<1>1. backoff \in 0..6
  BY ZenonT(60) DEF TypeOK
<1>2. tmr' = Delay(backoff)
  BY ZenonT(60) DEF relay_schedule_reconnect
<1>3. backoff' \in 0..6
  BY <1>1 DEF relay_schedule_reconnect
<1> QED BY <1>1, <1>2, <1>3, DelayBounds, RelayClientAssumption

\* relay_do_connect ends with a connection under way or an armed timer.
LEMMA Connected ==
    ASSUME TypeOK, relay_do_connect
    PROVE  /\ tmr' \in Nat /\ backoff' \in 0..6
           /\ tc' \in {"none", "connecting"}
           /\ rbuf' = <<>> /\ wire' = <<>>
           /\ registered' = FALSE /\ peer' = "silent"
           /\ (tc' # "none") # (tmr' > 0)
           /\ DelayInRange'
<1>1. CASE FreshConnection("none") /\ relay_schedule_reconnect
  BY <1>1, Scheduled, ZenonT(60) DEF FreshConnection, DelayInRange
<1>2. CASE FreshConnection("connecting") /\ tmr' = 0 /\ UNCHANGED backoff
  BY <1>2 DEF FreshConnection, DelayInRange, TypeOK
<1> QED BY <1>1, <1>2, ZenonT(60) DEF relay_do_connect

\* The release of a connection arms the timer, as relay_close_handler does.
LEMMA Closed ==
    ASSUME IInv, CloseBody, life = "up"
    PROVE  IInv'
<1> USE DEF IInv
<1>1. tmr' \in Nat /\ backoff' \in 0..6 /\ tmr' > 0 /\ DelayInRange'
  BY Scheduled, ZenonT(60) DEF CloseBody, DelayInRange
<1>2. TypeOK'
  BY <1>1, EmptySeq, ZenonT(60) DEF CloseBody, FreshConnection, TypeOK
<1> QED BY <1>1, <1>2, ZenonT(60) DEF CloseBody, FreshConnection, NeverStranded

\* What follows a line end in the buffer is again a sequence of units.
LEMMA SuffixType ==
    ASSUME NEW s \in Seq(Unit), NEW i \in 1..(Len(s) + 1)
    PROVE  SubSeq(s, i, Len(s)) \in Seq(Unit)
OBVIOUS

\* Reading lines keeps IInv, whether or not a BRIDGE is among them.
LEMMA LinesRead ==
    ASSUME IInv, life = "up", tc = "open", UNCHANGED life,
           wire' \in Seq(Unit),
           NEW buf \in Seq(Unit), ReadLines(buf)
    PROVE  IInv'
<1> USE DEF IInv
<1>1. ASSUME NEW i \in DOMAIN buf, HandOff(buf, i)
      PROVE  IInv'
  <2>1. lost' \in Seq(Unit)
    BY <1>1, SuffixType DEF HandOff
  <2>2. tmr' = RECONNECT_INTERVAL_MS /\ tmr' \in Nat /\ tmr' > 0
    BY <1>1, RelayClientAssumption DEF HandOff
  <2>3. TypeOK'
    <3>1. rbuf' \in Seq(Unit)
      BY <1>1, EmptySeq, ZenonT(60) DEF HandOff, FreshConnection
    <3>2. backoff' \in 0..6
      BY <1>1 DEF HandOff
    <3>3. registered' \in BOOLEAN
      BY <1>1, ZenonT(60) DEF HandOff, FreshConnection
    <3>4. tc' = "none" /\ peer' = "silent"
      BY <1>1, ZenonT(60) DEF HandOff, FreshConnection
    <3> QED BY <2>1, <2>2, <3>1, <3>2, <3>3, <3>4, ZenonT(60) DEF TypeOK
  <2>4. DelayInRange'
    BY <2>2, RelayClientAssumption DEF DelayInRange
  <2> QED BY <1>1, <2>2, <2>3, <2>4, ZenonT(60) DEF HandOff, FreshConnection, NeverStranded
<1>2. ASSUME NEW last \in {0} \cup LineEnds(buf),
             rbuf' = SubSeq(buf, last + 1, Len(buf)),
             registered' \in BOOLEAN,
             UNCHANGED <<tc, tmr, backoff, peer, lost>>
      PROVE  IInv'
  <2>1. last + 1 \in 1..(Len(buf) + 1)
    BY DEF LineEnds
  <2>2. rbuf' \in Seq(Unit)
    BY <1>2, <2>1, SuffixType, ZenonT(60)
  <2>3. TypeOK'
    BY <1>2, <2>2, ZenonT(60) DEF TypeOK
  <2> QED BY <1>2, <2>3, ZenonT(60) DEF NeverStranded, DelayInRange
<1>3. registered \in BOOLEAN
  BY ZenonT(60) DEF TypeOK
<1> QED BY <1>1, <1>2, <1>3, ZenonT(60) DEF ReadLines

\* relay_recv_handler keeps IInv.
LEMMA Received ==
    ASSUME IInv, relay_recv_handler
    PROVE  IInv'
<1>1. life = "up"
  BY ZenonT(60) DEF IInv, NeverStranded, relay_recv_handler
<1>2. PICK n \in 1..RXSZ :
          /\ n <= Len(wire)
          /\ IF Len(rbuf) + n > MAX_RBUF_SIZE
             THEN CloseBody
             ELSE /\ ReadLines(rbuf \o SubSeq(wire, 1, n))
                  /\ wire' = IF tc' = "open" THEN SubSeq(wire, n + 1, Len(wire))
                             ELSE <<>>
                  /\ UNCHANGED life
  BY ZenonT(60) DEF relay_recv_handler
<1>3. rbuf \in Seq(Unit) /\ wire \in Seq(Unit) /\ tc = "open"
  BY ZenonT(60) DEF IInv, TypeOK, relay_recv_handler
<1>4. n + 1 \in 1..(Len(wire) + 1) /\ n \in 1..Len(wire)
  BY <1>2, <1>3, RelayClientAssumption
<1>5. SubSeq(wire, n + 1, Len(wire)) \in Seq(Unit)
  BY <1>3, <1>4, SuffixType, ZenonT(60)
<1>6. rbuf \o SubSeq(wire, 1, n) \in Seq(Unit)
  BY <1>3, <1>4
<1>7. CASE Len(rbuf) + n > MAX_RBUF_SIZE
  BY <1>1, <1>2, <1>7, Closed, ZenonT(60)
<1>8. CASE ~(Len(rbuf) + n > MAX_RBUF_SIZE)
  <2>1. wire' \in Seq(Unit)
    BY <1>2, <1>5, <1>8, EmptySeq, ZenonT(60)
  <2> QED BY <1>1, <1>2, <1>3, <1>6, <1>8, <2>1, LinesRead, ZenonT(60)
<1> QED BY <1>7, <1>8, ZenonT(60)

\* A relay that sends units keeps IInv.
LEMMA Sent ==
    ASSUME IInv, NEW units \in Seq(Unit), NEW from,
           NEW to \in {"registered", "refused", "overtaken", "bridged"},
           RelaySends(units, from, to)
    PROVE  IInv'
<1>1. wire' \in Seq(Unit)
  BY DEF RelaySends, IInv, TypeOK
<1>2. TypeOK'
  BY <1>1, ZenonT(60) DEF RelaySends, IInv, TypeOK
<1> QED BY <1>2, ZenonT(60) DEF RelaySends, IInv, NeverStranded, DelayInRange

\* Every step of the device and of the relay keeps IInv.
LEMMA StepKeepsIInv == IInv /\ [Next]_vars => IInv'
<1> SUFFICES ASSUME IInv, [Next]_vars PROVE IInv'
  BY ZenonT(60)
<1>1. CASE relay_client_start
  <2>1. TypeOK' /\ NeverStranded'
    BY <1>1, Connected, EmptySeq, ZenonT(60) DEF IInv, relay_client_start, TypeOK, NeverStranded
  <2> QED BY <1>1, <2>1, Connected, ZenonT(60) DEF IInv, relay_client_start
<1>2. CASE relay_reconnect
  <2>1. life = "up"
    BY <1>2 DEF IInv, relay_reconnect, NeverStranded
  <2>2. TypeOK' /\ NeverStranded'
    BY <1>2, <2>1, Connected, EmptySeq, ZenonT(60)
       DEF IInv, relay_reconnect, TypeOK, NeverStranded
  <2> QED BY <1>2, <2>2, Connected, ZenonT(60) DEF IInv, relay_reconnect
<1>3. CASE relay_estab_handler
  BY <1>3 DEF IInv, relay_estab_handler, TypeOK, NeverStranded, DelayInRange
<1>4. CASE relay_close_handler
  <2>1. life = "up"
    BY <1>4, ZenonT(60) DEF IInv, relay_close_handler, NeverStranded
  <2> QED BY <1>4, <2>1, Closed, ZenonT(60) DEF relay_close_handler
<1>5. CASE relay_recv_handler
  BY <1>5, Received, ZenonT(60)
<1>6. CASE relay_client_stop
  <2>1. rbuf' \in Seq(Unit) /\ wire' \in Seq(Unit)
    BY <1>6, EmptySeq, ZenonT(60) DEF relay_client_stop, FreshConnection
  <2>2. TypeOK'
    BY <1>6, <2>1, ZenonT(60) DEF IInv, relay_client_stop, FreshConnection, TypeOK
  <2> QED BY <1>6, <2>2
          DEF IInv, relay_client_stop, FreshConnection, NeverStranded, DelayInRange
<1>7. CASE Relay
  <2>1. /\ <<"OK", "NL">> \in Seq(Unit) /\ <<"ERROR", "NL">> \in Seq(Unit)
        /\ <<"BRIDGE", "NL">> \in Seq(Unit) /\ <<"DATA">> \in Seq(Unit)
    BY DEF Unit
  <2>2. CASE RelayAccepts
    BY <2>1, <2>2, Sent, ZenonT(60) DEF RelayAccepts
  <2>3. CASE RelayRefuses
    BY <2>1, <2>3, Sent, ZenonT(60) DEF RelayRefuses
  <2>4. CASE RelayBridges
    BY <2>1, <2>4, Sent, ZenonT(60) DEF RelayBridges
  <2>5. CASE RelayForwards
    BY <2>1, <2>5, Sent, ZenonT(60) DEF RelayForwards
  <2>6. CASE RelayOvertakes
    BY <2>1, <2>6, Sent, ZenonT(60) DEF RelayOvertakes
  <2>7. CASE RelayCatchesUp
    BY <2>1, <2>7, Sent, ZenonT(60) DEF RelayCatchesUp
  <2>8. CASE RelayVanishes
    BY <2>8, ZenonT(60) DEF RelayVanishes, IInv, TypeOK, NeverStranded, DelayInRange
  <2> QED BY <1>7, <2>2, <2>3, <2>4, <2>5, <2>6, <2>7, <2>8, ZenonT(60) DEF Relay
<1>8. CASE UNCHANGED vars
  BY <1>8, ZenonT(60) DEF vars, IInv, TypeOK, NeverStranded, DelayInRange
<1> QED BY <1>1, <1>2, <1>3, <1>4, <1>5, <1>6, <1>7, <1>8, ZenonT(60) DEF Next, Device

\* Whatever fails and in whatever order, a running client (relay_client.c) has
\* either a connection or an armed timer, and every armed delay is in range.
THEOREM AlwaysRetrying == Spec => [](TypeOK /\ NeverStranded /\ DelayInRange)
<1>1. Init => IInv
  <2> SUFFICES ASSUME Init PROVE IInv
    BY ZenonT(60)
  <2>1. rbuf \in Seq(Unit) /\ wire \in Seq(Unit) /\ lost \in Seq(Unit)
    BY EmptySeq, ZenonT(60) DEF Init
  <2>2. TypeOK
    <3>1. tmr \in Nat /\ backoff \in 0..6
      BY DEF Init
    <3>2. registered \in BOOLEAN
      BY ZenonT(60) DEF Init
    <3>3. life = "init" /\ tc = "none" /\ peer = "silent"
      BY ZenonT(60) DEF Init
    <3> QED BY <2>1, <3>1, <3>2, <3>3, ZenonT(60) DEF TypeOK
  <2> QED BY <2>2 DEF Init, IInv, NeverStranded, DelayInRange
<1>2. IInv => TypeOK /\ NeverStranded /\ DelayInRange
  BY ZenonT(60) DEF IInv
<1> QED BY <1>1, <1>2, StepKeepsIInv, PTL DEF Spec

\* The client's variables keep their types whatever the relay sends and however
\* TCP cuts it (relay_client.c:92-156).
COROLLARY ClientTypes == Spec => []TypeOK
BY AlwaysRetrying, PTL

\* A running client is connected or has one reconnection armed, within the
\* bounds of the backoff (relay_client.c:53-62, 160-262).
COROLLARY ClientRetries == Spec => []AlwaysRetries
<1>1. TypeOK /\ NeverStranded /\ DelayInRange => AlwaysRetries
  BY ZenonT(60) DEF AlwaysRetries
<1> QED BY <1>1, AlwaysRetrying, PTL
----------------------------------------------------------------------------
(* The registered flag.  It is set by an OK line, so the argument follows  *)
(* the OK from the relay through the stream and the line buffer.           *)

\* A fresh connection has seen no OK (relay_reconnect resets the buffer).
LEMMA FreshIsCurrent ==
    ASSUME NEW t, FreshConnection(t)
    PROVE  OkIsCurrent'
<1>1. rbuf' = <<>> /\ wire' = <<>> /\ peer' = "silent"
  BY ZenonT(60) DEF FreshConnection
<1>2. ~Holds(<<>>, "OK")
  BY DEF Holds
<1>3. ~registered'
  BY ZenonT(60) DEF FreshConnection
<1>4. ~Accepted'
  BY <1>1, ZenonT(60) DEF Accepted
<1>5. ~Holds(rbuf', "OK") /\ ~Holds(wire', "OK")
  BY <1>1, <1>2, ZenonT(60)
<1> QED BY <1>3, <1>4, <1>5, ZenonT(60) DEF OkIsCurrent, Holds

\* A part of a sequence holds no unit that the whole does not.
LEMMA PartHolds ==
    ASSUME NEW s \in Seq(Unit), NEW i \in Nat \ {0}, NEW j \in Nat, j <= Len(s),
           Holds(SubSeq(s, i, j), "OK")
    PROVE  Holds(s, "OK")
<1>1. PICK k \in DOMAIN SubSeq(s, i, j) : SubSeq(s, i, j)[k] = "OK"
  BY ZenonT(60) DEF Holds
<1>2. i + k - 1 \in DOMAIN s /\ s[i + k - 1] = "OK"
  BY <1>1
<1> QED BY <1>2, ZenonT(60) DEF Holds

\* What is in the buffer after a receive was there before or has arrived.
LEMMA JoinHolds ==
    ASSUME NEW s \in Seq(Unit), NEW t \in Seq(Unit), Holds(s \o t, "OK")
    PROVE  Holds(s, "OK") \/ Holds(t, "OK")
<1>1. PICK k \in DOMAIN (s \o t) : (s \o t)[k] = "OK"
  BY ZenonT(60) DEF Holds
<1>2. CASE k <= Len(s)
  <2>1. k \in DOMAIN s /\ s[k] = "OK"
    BY <1>1, <1>2
  <2> QED BY <2>1, ZenonT(60) DEF Holds
<1>3. CASE k > Len(s)
  <2>1. k - Len(s) \in DOMAIN t /\ t[k - Len(s)] = "OK"
    BY <1>1, <1>3
  <2> QED BY <2>1, ZenonT(60) DEF Holds
<1>4. k \in Nat /\ Len(s) \in Nat
  BY <1>1
<1> QED BY <1>2, <1>3, <1>4

\* relay_recv_handler keeps OkIsCurrent: an OK line it reads came from the
\* buffer or from the stream of this connection.
LEMMA ReceivedIsCurrent ==
    ASSUME TypeOK, OkIsCurrent, relay_recv_handler
    PROVE  OkIsCurrent'
<1>1. PICK n \in 1..RXSZ :
          /\ n <= Len(wire)
          /\ IF Len(rbuf) + n > MAX_RBUF_SIZE
             THEN CloseBody
             ELSE /\ ReadLines(rbuf \o SubSeq(wire, 1, n))
                  /\ wire' = IF tc' = "open" THEN SubSeq(wire, n + 1, Len(wire))
                             ELSE <<>>
                  /\ UNCHANGED life
  BY ZenonT(60) DEF relay_recv_handler
<1> DEFINE buf == rbuf \o SubSeq(wire, 1, n)
<1>2. rbuf \in Seq(Unit) /\ wire \in Seq(Unit) /\ tc = "open"
  BY ZenonT(60) DEF TypeOK, relay_recv_handler
<1>3. n \in Nat /\ n \in 1..Len(wire) /\ SubSeq(wire, 1, n) \in Seq(Unit)
  BY <1>1, <1>2, RelayClientAssumption
<1>4. buf \in Seq(Unit)
  BY <1>2, <1>3
<1>5. Holds(buf, "OK") => Accepted
  <2>1. Holds(SubSeq(wire, 1, n), "OK") => Holds(wire, "OK")
    BY <1>2, <1>3, PartHolds
  <2>2. Holds(buf, "OK") => Holds(rbuf, "OK") \/ Holds(SubSeq(wire, 1, n), "OK")
    BY <1>2, <1>3, JoinHolds, ZenonT(60)
  <2> QED BY <2>1, <2>2, ZenonT(60) DEF OkIsCurrent
<1>6. ASSUME NEW t, FreshConnection(t) PROVE OkIsCurrent'
  BY <1>6, FreshIsCurrent, ZenonT(60)
<1>7. CASE Len(rbuf) + n > MAX_RBUF_SIZE
  BY <1>1, <1>7, <1>6, ZenonT(60) DEF CloseBody
<1>8. ASSUME NEW i \in DOMAIN buf, HandOff(buf, i) PROVE OkIsCurrent'
  BY <1>6, <1>8, ZenonT(60) DEF HandOff
<1>9. ASSUME NEW last \in {0} \cup LineEnds(buf),
             wire' = SubSeq(wire, n + 1, Len(wire)),
             rbuf' = SubSeq(buf, last + 1, Len(buf)),
             registered' = (registered \/ \E i \in DOMAIN buf : IsLine(buf, i, "OK")),
             UNCHANGED <<tc, tmr, backoff, peer, lost>>
      PROVE  OkIsCurrent'
  <2>1. Accepted' = Accepted /\ tc' = "open"
    BY <1>2, <1>9, ZenonT(60) DEF Accepted
  <2>2. Holds(wire', "OK") => Accepted
    BY <1>2, <1>3, <1>9, PartHolds, SMTT(60) DEF OkIsCurrent
  <2>3. last + 1 \in Nat \ {0}
    BY <1>4 DEF LineEnds
  <2>4. Holds(rbuf', "OK") => Accepted
    <3> HIDE DEF buf
    <3> QED BY <1>4, <1>5, <1>9, <2>3, PartHolds
  <2>5. (\E i \in DOMAIN buf : IsLine(buf, i, "OK")) => Holds(buf, "OK")
    <3> HIDE DEF buf
    <3>1. ASSUME NEW i \in DOMAIN buf, IsLine(buf, i, "OK")
          PROVE  i - 1 \in DOMAIN buf /\ buf[i - 1] = "OK"
      BY <1>4, <3>1 DEF IsLine
    <3> QED BY <3>1, ZenonT(60) DEF Holds
  <2>6. registered' => Accepted
    <3> HIDE DEF buf
    <3> QED BY <1>5, <1>9, <2>5, ZenonT(60) DEF OkIsCurrent
  <2> QED BY <2>1, <2>2, <2>4, <2>6, ZenonT(60) DEF OkIsCurrent, Holds
<1>10. CASE ~(Len(rbuf) + n > MAX_RBUF_SIZE)
  <2>1. ReadLines(buf) /\ wire' = IF tc' = "open" THEN SubSeq(wire, n + 1, Len(wire))
                                  ELSE <<>>
    BY <1>1, <1>10, ZenonT(60)
  <2> HIDE DEF buf
  <2> QED BY <1>2, <1>8, <1>9, <2>1, ZenonT(60) DEF ReadLines
<1> QED BY <1>7, <1>10, ZenonT(60)

\* A line the relay sends keeps OkIsCurrent when it holds no OK, or when it
\* is the answer that makes the device registered.
LEMMA SentIsCurrent ==
    ASSUME TypeOK, OkIsCurrent, NEW units \in Seq(Unit), NEW from, NEW to,
           RelaySends(units, from, to),
           \/ to \in {"registered", "bridged"}
           \/ ~Holds(units, "OK") /\ from = "asked"
    PROVE  OkIsCurrent'
<1>1. wire \in Seq(Unit) /\ wire' = wire \o units /\ tc' = "open" /\ peer' = to
      /\ peer = from /\ UNCHANGED <<rbuf, registered>>
  BY ZenonT(60) DEF RelaySends, TypeOK
<1>2. CASE to \in {"registered", "bridged"}
  <2>1. Accepted'
    BY <1>1, <1>2, ZenonT(60) DEF Accepted
  <2> QED BY <1>1, <2>1, ZenonT(60) DEF OkIsCurrent
<1>3. CASE ~Holds(units, "OK") /\ from = "asked"
  <2>1. ~Accepted
    BY <1>1, <1>3, ZenonT(60) DEF Accepted
  <2>2. ~Holds(wire', "OK")
    BY <1>1, <1>3, <2>1, JoinHolds, ZenonT(60) DEF OkIsCurrent
  <2> QED BY <1>1, <2>1, <2>2, ZenonT(60) DEF OkIsCurrent, Holds
<1> QED BY <1>2, <1>3, ZenonT(60)

\* Every handler of relay_client.c keeps an OK tied to its connection.
LEMMA StepKeepsOk == TypeOK /\ OkIsCurrent /\ [Next]_vars => OkIsCurrent'
<1> SUFFICES ASSUME TypeOK, OkIsCurrent, [Next]_vars PROVE OkIsCurrent'
  BY ZenonT(60)
<1>1. CASE relay_client_start \/ relay_reconnect
  BY <1>1, FreshIsCurrent, ZenonT(60)
     DEF relay_client_start, relay_reconnect, relay_do_connect
<1>2. CASE relay_estab_handler
  <2>1. ~Accepted
    BY <1>2, ZenonT(60) DEF relay_estab_handler, OkIsCurrent
  <2>2. UNCHANGED <<rbuf, wire, registered>> /\ tc' = "open"
    BY <1>2, ZenonT(60) DEF relay_estab_handler
  <2> QED BY <2>1, <2>2, ZenonT(60) DEF OkIsCurrent
<1>3. CASE relay_close_handler \/ relay_client_stop
  BY <1>3, FreshIsCurrent, ZenonT(60) DEF relay_close_handler, CloseBody, relay_client_stop
<1>4. CASE relay_recv_handler
  BY <1>4, ReceivedIsCurrent, ZenonT(60)
<1>5. /\ <<"OK", "NL">> \in Seq(Unit) /\ <<"ERROR", "NL">> \in Seq(Unit)
      /\ <<"BRIDGE", "NL">> \in Seq(Unit) /\ <<"DATA">> \in Seq(Unit)
  BY DEF Unit
<1>6. CASE RelayAccepts \/ RelayBridges \/ RelayForwards \/ RelayCatchesUp
  BY <1>5, <1>6, SentIsCurrent, ZenonT(60)
     DEF RelayAccepts, RelayBridges, RelayForwards, RelayCatchesUp
<1>7. CASE RelayRefuses \/ RelayOvertakes
  <2>1. ~Holds(<<"ERROR", "NL">>, "OK") /\ ~Holds(<<"BRIDGE", "NL">>, "OK")
    BY DEF Holds
  <2> QED BY <1>5, <1>7, <2>1, SentIsCurrent, ZenonT(60) DEF RelayRefuses, RelayOvertakes
<1>8. CASE RelayVanishes
  BY <1>8, ZenonT(60) DEF RelayVanishes, OkIsCurrent, Accepted
<1>9. CASE UNCHANGED vars
  BY <1>9, ZenonT(60) DEF vars, OkIsCurrent, Accepted
<1> QED BY <1>1, <1>2, <1>3, <1>4, <1>6, <1>7, <1>8, <1>9, ZenonT(60) DEF Next, Device, Relay

\* relay_client_is_connected answers for the connection at hand, however the
\* stream is cut into receives and however often connections were replaced.
THEOREM RegisteredOnThisConnection == Spec => []RegisteredIsCurrent
<1>1. Init => OkIsCurrent
  BY DEF Init, OkIsCurrent, Holds, Accepted
<1>2. OkIsCurrent => RegisteredIsCurrent
  BY ZenonT(60) DEF OkIsCurrent, RegisteredIsCurrent, Accepted
<1> QED BY <1>1, <1>2, AlwaysRetrying, StepKeepsOk, PTL DEF Spec
----------------------------------------------------------------------------
(* The hand-off.  What it discards lies behind a line end in the buffer,   *)
(* and the buffer of the receives before holds none.                       *)

NoLineEnd(s) == \A i \in DOMAIN s : s[i] # "NL"

LInv == NoLineEnd(rbuf) /\ Len(lost) < RXSZ

\* A fresh connection has an empty line buffer.
LEMMA FreshHasNoLine ==
    ASSUME NEW t, FreshConnection(t)
    PROVE  NoLineEnd(rbuf')
<1>1. rbuf' = <<>>
  BY ZenonT(60) DEF FreshConnection
<1> QED BY <1>1 DEF NoLineEnd

\* relay_recv_handler reads every complete line there is, and what it discards
\* at a BRIDGE line came with the end of that line.
LEMMA ReceiveLosesLess ==
    ASSUME TypeOK, LInv, relay_recv_handler
    PROVE  LInv'
<1>1. PICK n \in 1..RXSZ :
          /\ n <= Len(wire)
          /\ IF Len(rbuf) + n > MAX_RBUF_SIZE
             THEN CloseBody
             ELSE /\ ReadLines(rbuf \o SubSeq(wire, 1, n))
                  /\ wire' = IF tc' = "open" THEN SubSeq(wire, n + 1, Len(wire))
                             ELSE <<>>
                  /\ UNCHANGED life
  BY ZenonT(60) DEF relay_recv_handler
<1> DEFINE buf == rbuf \o SubSeq(wire, 1, n)
<1>2. rbuf \in Seq(Unit) /\ wire \in Seq(Unit)
  BY ZenonT(60) DEF TypeOK
<1>3. n \in Nat /\ n <= RXSZ /\ RXSZ \in Nat
  BY RelayClientAssumption
<1>4. /\ buf \in Seq(Unit) /\ Len(buf) = Len(rbuf) + n
      /\ \A i \in 1..Len(rbuf) : buf[i] = rbuf[i]
  BY <1>1, <1>2, <1>3
<1>5. CASE Len(rbuf) + n > MAX_RBUF_SIZE
  <2>1. CloseBody
    BY <1>1, <1>5, ZenonT(60)
  <2> QED BY <2>1, FreshHasNoLine, ZenonT(60) DEF CloseBody, LInv
<1> HIDE DEF buf
<1>6. ASSUME NEW i \in DOMAIN buf, IsLine(buf, i, "BRIDGE"), HandOff(buf, i)
      PROVE  LInv'
  <2>1. i \in 1..Len(buf) /\ buf[i] = "NL"
    BY <1>4, <1>6 DEF IsLine, LineEnds
  <2>2. ~(i \in 1..Len(rbuf))
    BY <1>2, <1>4, <2>1 DEF LInv, NoLineEnd
  <2>3. i > Len(rbuf) /\ Len(rbuf) \in Nat
    BY <1>2, <2>1, <2>2
  <2>4. lost' = SubSeq(buf, i + 1, Len(buf))
    BY <1>6, ZenonT(60) DEF HandOff
  <2>5. Len(lost') = Len(buf) - i
    BY <1>4, <2>1, <2>4
  <2>6. Len(lost') < RXSZ
    BY <1>3, <1>4, <2>1, <2>3, <2>5
  <2> QED BY <1>6, <2>6, FreshHasNoLine, ZenonT(60) DEF HandOff, LInv
<1>7. ASSUME NEW last \in {0} \cup LineEnds(buf), \A j \in LineEnds(buf) : j <= last,
             rbuf' = SubSeq(buf, last + 1, Len(buf)), UNCHANGED lost
      PROVE  LInv'
  <2>1. last \in 0..Len(buf) /\ Len(buf) \in Nat
    BY <1>4 DEF LineEnds
  <2>2. ASSUME NEW i \in DOMAIN rbuf' PROVE rbuf'[i] # "NL"
    <3>1. i \in Nat /\ i > 0 /\ last + i \in 1..Len(buf) /\ rbuf'[i] = buf[last + i]
      BY <1>4, <1>7, <2>1, SMTT(60)
    <3>2. last + i \notin LineEnds(buf)
      BY <1>7, <2>1, <3>1
    <3> QED BY <1>4, <3>1, <3>2 DEF LineEnds
  <2> QED BY <1>7, <2>2, ZenonT(60) DEF LInv, NoLineEnd
<1>8. CASE ~(Len(rbuf) + n > MAX_RBUF_SIZE)
  <2>1. ReadLines(buf)
    BY <1>1, <1>8, ZenonT(60) DEF buf
  <2> QED BY <1>6, <1>7, <2>1, ZenonT(60) DEF ReadLines
<1> QED BY <1>5, <1>8, ZenonT(60)

\* No other handler adds to the line buffer or to what was discarded.
LEMMA StepLosesLess == TypeOK /\ LInv /\ [Next]_vars => LInv'
<1> SUFFICES ASSUME TypeOK, LInv, [Next]_vars PROVE LInv'
  BY ZenonT(60)
<1>1. CASE relay_client_start \/ relay_reconnect
  <2>1. \E t : FreshConnection(t)
    BY <1>1, ZenonT(60) DEF relay_client_start, relay_reconnect, relay_do_connect
  <2> QED BY <1>1, <2>1, FreshHasNoLine, ZenonT(60) DEF relay_client_start, relay_reconnect, LInv
<1>2. CASE relay_close_handler \/ relay_client_stop
  <2>1. FreshConnection("none") /\ UNCHANGED lost
    BY <1>2, ZenonT(60) DEF relay_close_handler, CloseBody, relay_client_stop
  <2> QED BY <2>1, FreshHasNoLine, ZenonT(60) DEF LInv
<1>3. CASE relay_recv_handler
  BY <1>3, ReceiveLosesLess, ZenonT(60)
<1>4. CASE relay_estab_handler \/ Relay \/ UNCHANGED vars
  <2>1. UNCHANGED <<rbuf, lost>>
    BY <1>4, ZenonT(60) DEF relay_estab_handler, Relay, vars, RelayAccepts, RelayRefuses, RelayBridges,
       RelayOvertakes, RelayCatchesUp, RelayForwards, RelayVanishes, RelaySends
  <2> QED BY <2>1, ZenonT(60) DEF LInv, NoLineEnd
<1> QED BY <1>1, <1>2, <1>3, <1>4, ZenonT(60) DEF Next, Device

\* "Once bridged, raw bytes flow transparently" (relay_server.c:19) but for the
\* rest of one receive: for any sizes, and however the stream is cut, a hand-off
\* discards less than one receive delivers.
THEOREM HandOffLosesLittle == Spec => []HandOffLosesOneReceive
<1>1. Init => LInv
  <2> SUFFICES ASSUME Init PROVE LInv
    BY ZenonT(60)
  <2>1. rbuf = <<>> /\ lost = <<>>
    BY ZenonT(60) DEF Init
  <2> QED BY <2>1, RelayClientAssumption DEF LInv, NoLineEnd
<1>2. LInv => HandOffLosesOneReceive
  BY ZenonT(60) DEF LInv, HandOffLosesOneReceive
<1> QED BY <1>1, <1>2, AlwaysRetrying, StepLosesLess, PTL DEF Spec
=============================================================================
