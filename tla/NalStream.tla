----------------------------- MODULE NalStream -----------------------------
(***************************************************************************)
(* The video path of one RTSP client: send_h264_nalu_to_client of          *)
(* intercom_test/src/rtsp_server.c cuts NAL units into RTP packets, a      *)
(* packet the TCP send queue has no room for is lost (tcp_send fails and   *)
(* nobody looks), and media/VideoDecoder.kt puts the units together again  *)
(* on the read thread and hands them to the decoder thread in a bounded    *)
(* queue.                                                                  *)
(***************************************************************************)
EXTENDS Integers, Sequences

CONSTANTS
    RTP_MTU,    \* 1200, the longest payload of a packet
    FuSize,     \* 65536, the size of fuBuffer
    QueueSize,  \* 120, the capacity of nalQueue
    NalLens,    \* lengths of NAL units, header byte included
    Headers,    \* NAL header bytes: forbidden bit, importance, type
    MaxNals     \* bound on the NAL units sent

FU_A == 28
STAP_A == 24

ASSUME NalStreamAssumption ==
    /\ RTP_MTU \in Nat /\ RTP_MTU > 2
    /\ FuSize \in Nat /\ FuSize >= RTP_MTU
    /\ QueueSize \in Nat \ {0}
    /\ NalLens \subseteq Nat \ {0}
    /\ Headers \subseteq {h \in 0..127 : h % 32 \notin {FU_A, STAP_A}}
    /\ MaxNals \in Nat

VARIABLES
    sent,       \* the NAL units sent, [hdr, len]
    whole,      \* those of them no packet of which was lost
    net,        \* packets under way, in order
    fuBuffer,   \* the unit being reassembled, or NoBuffer
    assembled,  \* the units given to enqueueNal
    pc,         \* where the read thread is in enqueueNal
    queue,      \* nalQueue, as positions in assembled
    fed         \* the units given to the codec, as positions in assembled

vars == <<sent, whole, net, fuBuffer, assembled, pc, queue, fed>>

\* A unit as bytes: its header and the rest, byte j of unit n as <<n, j>>.
Unit(n, hdr, len) == [hdr |-> hdr, body |-> [j \in 1..(len - 1) |-> <<n, j>>]]
NoBuffer == [hdr |-> -1, body |-> <<>>]

Init ==
    /\ sent = <<>> /\ whole = {}
    /\ net = <<>>
    /\ fuBuffer = NoBuffer
    /\ assembled = <<>>
    /\ pc = "read"
    /\ queue = <<>> /\ fed = <<>>
----------------------------------------------------------------------------
(* The device.                                                             *)

\* Payload bytes of a fragment: two bytes of the packet are FU-A headers.
Chunk == RTP_MTU - 2
Fragments(len) == (len - 1 + Chunk - 1) \div Chunk

\* Fragment i of a unit.  The FU indicator keeps the upper bits of the header,
\* the FU header its type and whether the fragment is the first or the last.
Fragment(n, hdr, len, i, last) ==
    LET first == (i - 1) * Chunk + 1
        final == i = Fragments(len)
    IN  [nal  |-> n,
         b0   |-> (hdr \div 32) * 32 + FU_A,
         type |-> hdr % 32, start |-> i = 1, end |-> final,
         m    |-> final /\ last,
         body |-> SubSeq(Unit(n, hdr, len).body, first,
                         IF final THEN len - 1 ELSE first + Chunk - 1)]

\* Mutant of Packets: the start bit of a fragmented unit is not set.
PacketsNoStart(n, hdr, len, last) ==
    IF len <= RTP_MTU
    THEN <<[nal |-> n, b0 |-> hdr, type |-> 0, start |-> FALSE, end |-> FALSE, m |-> last,
            body |-> Unit(n, hdr, len).body]>>
    ELSE [i \in 1..Fragments(len) |->
            [Fragment(n, hdr, len, i, last) EXCEPT !.start = FALSE]]

\* The RTP packets of a NAL unit; last says whether it ends the frame.
Packets(n, hdr, len, last) ==
    IF len <= RTP_MTU
    THEN <<[nal |-> n, b0 |-> hdr, type |-> 0, start |-> FALSE, end |-> FALSE, m |-> last,
            body |-> Unit(n, hdr, len).body]>>
    ELSE [i \in 1..Fragments(len) |-> Fragment(n, hdr, len, i, last)]

Increasing(s) == \A i, j \in DOMAIN s : i < j => s[i] < s[j]

\* tcp_send takes some of k packets in their order, given by their positions,
\* and refuses the others.
Surviving(k) == {s \in UNION {[1..m -> 1..k] : m \in 0..k} : Increasing(s)}

\* The timer's loop sends a NAL unit, whatever becomes of its packets.
send_h264_nalu_to_client ==
    /\ Len(sent) < MaxNals
    /\ \E hdr \in Headers, len \in NalLens, last \in BOOLEAN :
         LET n == Len(sent) + 1
             packets == Packets(n, hdr, len, last)
         IN  \E taken \in Surviving(Len(packets)) :
               LET out == [i \in DOMAIN taken |-> packets[taken[i]]]
               IN  /\ sent' = Append(sent, [hdr |-> hdr, len |-> len])
                   /\ whole' = IF out = packets THEN whole \cup {n} ELSE whole
                   /\ net' = net \o out
    /\ UNCHANGED <<fuBuffer, assembled, pc, queue, fed>>
----------------------------------------------------------------------------
(* The read thread: feedRtpPayload on the next packet.                     *)

\* A complete unit goes to enqueueNal.
Complete(unit) ==
    /\ assembled' = Append(assembled, unit)
    /\ pc' = "offer"

\* Any other type than FU-A: the payload is a unit.
SingleNal ==
    LET p == Head(net)
    IN  /\ p.b0 % 32 # FU_A
        /\ Complete([hdr |-> p.b0, body |-> p.body])
        /\ UNCHANGED fuBuffer

\* The header is put together from importance and type; the forbidden bit is
\* not taken over.
StartFragment ==
    LET p == Head(net)
    IN  /\ p.b0 % 32 = FU_A /\ p.start
        /\ fuBuffer' = [hdr |-> ((p.b0 \div 32) % 4) * 32 + p.type, body |-> p.body]
        /\ UNCHANGED <<assembled, pc>>

\* A fragment that does not fit is left out.
Joined(buf, body) ==
    IF 1 + Len(buf.body) + Len(body) <= FuSize THEN [buf EXCEPT !.body = @ \o body] ELSE buf

\* Mutant of NextFragment: every fragment delivers what there is so far.
NextDelivers ==
    LET p == Head(net)
        buf == Joined(fuBuffer, p.body)
    IN  /\ p.b0 % 32 = FU_A /\ ~p.start
        /\ \/ /\ fuBuffer = NoBuffer
              /\ UNCHANGED <<fuBuffer, assembled, pc>>
           \/ /\ fuBuffer # NoBuffer
              /\ Complete(buf)
              /\ fuBuffer' = IF p.end \/ p.m THEN NoBuffer ELSE buf

\* Another fragment: it continues the buffer if there is one, and its end bit
\* or the marker completes the unit.
NextFragment ==
    LET p == Head(net)
        buf == Joined(fuBuffer, p.body)
    IN  /\ p.b0 % 32 = FU_A /\ ~p.start
        /\ \/ /\ fuBuffer = NoBuffer
              /\ UNCHANGED <<fuBuffer, assembled, pc>>
           \/ /\ fuBuffer # NoBuffer /\ ~(p.end \/ p.m)
              /\ fuBuffer' = buf
              /\ UNCHANGED <<assembled, pc>>
           \/ /\ fuBuffer # NoBuffer /\ (p.end \/ p.m)
              /\ Complete(buf)
              /\ fuBuffer' = NoBuffer

feedRtpPayload ==
    /\ pc = "read" /\ net # <<>>
    /\ net' = Tail(net)
    /\ SingleNal \/ StartFragment \/ NextFragment
    /\ UNCHANGED <<sent, whole, queue, fed>>

\* enqueueNal: nalQueue.offer
Offer ==
    /\ pc = "offer"
    /\ \/ /\ Len(queue) < QueueSize
          /\ queue' = Append(queue, Len(assembled))
          /\ pc' = "read"
       \/ /\ Len(queue) >= QueueSize
          /\ pc' = "drop"
          /\ UNCHANGED queue
    /\ UNCHANGED <<sent, whole, net, fuBuffer, assembled, fed>>

\* Mutant of DropOldest: the unit is given up instead.
DropNewest ==
    /\ pc = "drop"
    /\ pc' = "read"
    /\ UNCHANGED <<sent, whole, net, fuBuffer, assembled, queue, fed>>

\* nalQueue.poll, unless the decoder has emptied the queue meanwhile.
DropOldest ==
    /\ pc = "drop"
    /\ queue' = IF queue = <<>> THEN queue ELSE Tail(queue)
    /\ pc' = "offerAgain"
    /\ UNCHANGED <<sent, whole, net, fuBuffer, assembled, fed>>

\* The second offer, whose result is not looked at.
OfferAgain ==
    /\ pc = "offerAgain"
    /\ queue' = IF Len(queue) < QueueSize THEN Append(queue, Len(assembled)) ELSE queue
    /\ pc' = "read"
    /\ UNCHANGED <<sent, whole, net, fuBuffer, assembled, fed>>
----------------------------------------------------------------------------

\* The decoder thread takes a unit; without a free input buffer it is dropped.
decodingLoop ==
    /\ queue # <<>>
    /\ queue' = Tail(queue)
    /\ fed' \in {fed, Append(fed, Head(queue))}
    /\ UNCHANGED <<sent, whole, net, fuBuffer, assembled, pc>>

ReadThread == feedRtpPayload \/ Offer \/ DropOldest \/ OfferAgain

Next == send_h264_nalu_to_client \/ ReadThread \/ decodingLoop

Spec == Init /\ [][Next]_vars

----------------------------------------------------------------------------

\* The read thread has had every packet of unit n.
Arrived(n) == n \in 1..Len(sent) /\ \A i \in DOMAIN net : net[i].nal # n

\* A unit that arrived whole and fits the buffer is put together exactly as it
\* was sent, whatever was lost of the units before it: a start fragment throws
\* away what an unfinished unit left in fuBuffer (VideoDecoder.kt:120-141).
WholeUnitsIntact ==
    \A n \in whole :
      Arrived(n) /\ sent[n].len <= FuSize
        => \E i \in DOMAIN assembled : assembled[i] = Unit(n, sent[n].hdr, sent[n].len)

\* What is put together wrongly contains bytes of a unit that lost a packet or
\* did not fit the buffer (VideoDecoder.kt:127-134).
Blamed(unit) ==
    \E j \in DOMAIN unit.body :
      LET n == unit.body[j][1] IN n \notin whole \/ sent[n].len > FuSize

\* A damaged unit is never made of undamaged ones: without a loss and with
\* units that fit, the decoder gets what the camera made, and what does not fit
\* never leaves the buffer (VideoDecoder.kt:110-140).
DamageHasACause ==
    /\ 1 + Len(fuBuffer.body) <= FuSize
    /\ \A i \in DOMAIN assembled :
         \/ \E n \in DOMAIN sent : assembled[i] = Unit(n, sent[n].hdr, sent[n].len)
         \/ Blamed(assembled[i])

\* Dropping for a full queue costs old units, never the newest and never their
\* order: when the read thread has left enqueueNal, the unit it brought is in
\* the queue unless the decoder took it, and then the queue is empty; the codec
\* gets no unit twice or late (VideoDecoder.kt:162-168 and decodingLoop).
NewestSurvives ==
    /\ Len(queue) <= QueueSize
    /\ Increasing(fed \o queue)
    /\ pc = "read" /\ queue # <<>> => queue[Len(queue)] = Len(assembled)

=============================================================================
