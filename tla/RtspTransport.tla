--------------------------- MODULE RtspTransport ---------------------------
(***************************************************************************)
(* One RTSP connection, byte by byte.  Client to device: requests and      *)
(* interleaved frames arrive in whatever pieces TCP makes of them, and     *)
(* rtsp_recv_handler (intercom_test/src/rtsp_server.c) cuts them out of    *)
(* rbuf.  Device to client: replies and media share one stream, which      *)
(* libre's tcp_send (re-4.6.0/src/tcp/tcp.c) writes as far as the kernel   *)
(* takes it and queues for the rest.  SETUP fixes the channel of a track.  *)
(*                                                                         *)
(* The device is single threaded: a handler runs to its end, here in       *)
(* several steps (one per unit cut out, one per tcp_send), between which   *)
(* no other handler of the device starts.                                  *)
(***************************************************************************)
EXTENDS Integers, Sequences

CONSTANTS
    Plans,      \* what a client may do: [local, units], see UnitType
    RxSz,       \* 8192, what libre reads from the socket at a time
    RbufLimit,  \* 16384, what rbuf may hold
    TxqMax,     \* 524288, what the send queue may hold
    ReplyLen,   \* length of a reply
    MediaLen,   \* length of an interleaved media frame
    MaxSends    \* bound on replies and media frames sent

Track == {"video", "audio", "back"}
NoChannel == -1

\* A request or an interleaved frame of the client.  A SETUP names a track or,
\* "base", none; tcp and udp are what its Transport header asks for, ch the
\* channel of interleaved= or NoChannel.
UnitType ==
    [k : {"SETUP"}, track : Track \cup {"base"}, by : {"tcp", "udp", "none"},
     ch : Int, len : Nat \ {0}]
      \cup [k : {"PLAY", "OPTIONS", "TEARDOWN"}, len : Nat \ {0}]
      \cup [k : {"$"}, ch : Nat, speech : BOOLEAN, len : Nat \ {0}]

ASSUME RtspTransportAssumption ==
    /\ Plans \subseteq [local : BOOLEAN, units : Seq(UnitType)]
    /\ RxSz \in Nat \ {0} /\ RbufLimit \in Nat /\ RxSz <= RbufLimit
    /\ ReplyLen \in Nat \ {0} /\ MediaLen \in Nat \ {0}
    /\ TxqMax \in Nat /\ ReplyLen <= TxqMax /\ MediaLen <= TxqMax
    /\ MaxSends \in Nat

VARIABLES
    plan,     \* the client's plan
    written,  \* how many units of it the client has written
    up,       \* bytes under way to the device, <<unit, position>>
    rbuf,     \* the device's receive buffer
    parsing,  \* rtsp_recv_handler is in its loop
    handled,  \* the units the device has handled
    open,     \* the client's record and connection exist
    overflow, \* the connection was closed because rbuf grew too long
    sess,     \* the client's record
    aout,     \* audio_out_opened
    refused,  \* audio_out_open failed once
    played,   \* the units given to audio_out_play
    out,      \* what the running handler has still to send
    sends,    \* all that was handed to tcp_send
    sendq,    \* libre's send queue, bytes <<send, position>>
    wire,     \* bytes the kernel took, under way to the client
    got       \* what the client's reader took for units

clientVars == <<plan, written>>
parseVars == <<parsing, handled>>
sessVars == <<open, overflow, sess, aout, refused, played>>
sendVars == <<sends, sendq, wire, got>>
vars == <<clientVars, up, rbuf, parseVars, sessVars, out, sendVars>>

Units == plan.units
Bytes(n, len) == [j \in 1..len |-> <<n, j>>]

NewSession ==
    [state |-> "IDLE", interleaved |-> FALSE, setup |-> {}, sockets |-> {},
     ch |-> [video |-> 0, audio |-> 0, back |-> 255]]

Init ==
    /\ plan \in Plans /\ written = 0
    /\ up = <<>> /\ rbuf = <<>>
    /\ parsing = FALSE /\ handled = <<>>
    /\ open = TRUE /\ overflow = FALSE
    /\ sess = NewSession
    /\ aout = FALSE /\ refused = FALSE /\ played = <<>>
    /\ out = <<>>
    /\ sends = <<>> /\ sendq = <<>> /\ wire = <<>> /\ got = <<>>
----------------------------------------------------------------------------
(* The client.                                                             *)

\* It writes its next request or frame, without waiting for replies.
ClientWrites ==
    /\ written < Len(Units)
    /\ written' = written + 1
    /\ up' = up \o Bytes(written + 1, Units[written + 1].len)
    /\ UNCHANGED <<plan, rbuf, parseVars, sessVars, out, sendVars>>

\* The first byte tells a frame or a reply, its length how far it reaches.
ReadLength == IF wire[1][2] = 1 THEN sends[wire[1][1]].len ELSE 1

readLoop ==
    /\ wire # <<>> /\ ReadLength <= Len(wire)
    /\ got' = Append(got, SubSeq(wire, 1, ReadLength))
    /\ wire' = SubSeq(wire, ReadLength + 1, Len(wire))
    /\ UNCHANGED <<clientVars, up, rbuf, parseVars, sessVars, out, sends, sendq>>
----------------------------------------------------------------------------
(* The device sends: tcp_send of libre.                                    *)

\* enqueue of bytes b behind q: refused if they do not fit.
Fits(q, b) == Len(q) + Len(b) <= TxqMax

\* Mutant of tcp_send: what fits is queued although the queue is not empty.
SendAhead ==
    /\ out # <<>>
    /\ out' = Tail(out)
    /\ sends' = Append(sends, Head(out))
    /\ LET b == Bytes(Len(sends) + 1, Head(out).len)
       IN  \E n \in 0..Len(b) :
             LET rest == SubSeq(b, n + 1, Len(b))
             IN  /\ wire' = wire \o SubSeq(b, 1, n)
                 /\ sendq' = IF Fits(sendq, rest) THEN sendq \o rest ELSE sendq
    /\ UNCHANGED <<clientVars, up, rbuf, parseVars, sessVars, got>>

\* Behind a queue it queues; otherwise the kernel takes n bytes, perhaps none,
\* and the rest is queued.  What does not fit the queue is lost and the error
\* only printed.
tcp_send ==
    /\ out # <<>>
    /\ out' = Tail(out)
    /\ sends' = Append(sends, Head(out))
    /\ LET b == Bytes(Len(sends) + 1, Head(out).len)
       IN  \E n \in 0..Len(b) :
             LET rest == SubSeq(b, n + 1, Len(b))
             IN  /\ sendq # <<>> => n = 0
                 /\ wire' = wire \o SubSeq(b, 1, n)
                 /\ sendq' = IF Fits(sendq, rest) THEN sendq \o rest ELSE sendq
    /\ UNCHANGED <<clientVars, up, rbuf, parseVars, sessVars, got>>

\* The socket is writable: the kernel takes bytes of the first queue entry.
dequeue ==
    /\ open /\ ~parsing /\ out = <<>> /\ sendq # <<>>
    /\ \E n \in 1..(sends[sendq[1][1]].len - sendq[1][2] + 1) :
         /\ wire' = wire \o SubSeq(sendq, 1, n)
         /\ sendq' = SubSeq(sendq, n + 1, Len(sendq))
    /\ UNCHANGED <<clientVars, up, rbuf, parseVars, sessVars, out, sends, got>>
----------------------------------------------------------------------------
(* The device handles a unit: what becomes of the record, what is sent.    *)

Reply(status) == [k |-> "R", status |-> status, len |-> ReplyLen]

\* Mutant of Media: all media goes out on one channel.
MediaOnVideo(s, track) ==
    [k |-> "$", track |-> track, ch |-> s.ch.video, at |-> Len(handled), len |-> MediaLen]

\* A media frame goes out on the channel of its track.
Media(s, track) ==
    [k |-> "$", track |-> track, ch |-> s.ch[track], at |-> Len(handled), len |-> MediaLen]

\* Media of a client in UDP mode goes to its sockets, not into the stream.
Interleaved(s, tracks) ==
    IF s.interleaved THEN [i \in DOMAIN tracks |-> Media(s, tracks[i])] ELSE <<>>

Keeps(s) == sess' = s /\ UNCHANGED <<open, aout, refused, played>>

\* The track of a SETUP without a track ID depends on what is set up.
SetupTrack(u) ==
    IF u.track # "base" THEN u.track
    ELSE IF "video" \notin sess.setup THEN "video" ELSE "audio"

\* The channel asked for, or a default.
Channel(u) ==
    IF u.ch # NoChannel THEN u.ch ELSE IF SetupTrack(u) = "video" THEN 0 ELSE 2

\* Interleaved SETUP is always granted; UDP only for audio and video of a local
\* client that names a port, if there is a socket.
handle_setup(u) ==
    LET t == SetupTrack(u)
        ready == [sess EXCEPT !.setup = @ \cup {t}, !.state = "READY"]
    IN  \/ /\ u.by = "tcp"
           /\ Keeps([ready EXCEPT !.interleaved = TRUE, !.ch[t] = Channel(u)])
           /\ out' = <<Reply(200)>>
        \/ /\ u.by # "tcp"
           /\ t = "back" \/ ~plan.local \/ u.by = "none"
           /\ Keeps(sess)
           /\ out' = <<Reply(461)>>
        \/ /\ u.by = "udp" /\ t # "back" /\ plan.local
           /\ \/ Keeps([ready EXCEPT !.sockets = @ \cup {t}]) /\ out' = <<Reply(200)>>
              \/ t \notin sess.sockets /\ Keeps(sess) /\ out' = <<Reply(500)>>

\* PLAY opens the loudspeaker for the backchannel, replies, and sends a first
\* video frame if the camera has one, whether or not video is set up, and a
\* first audio packet.
handle_play ==
    LET s == [sess EXCEPT !.state = "PLAYING"]
        audio == IF "audio" \in s.setup THEN <<"audio">> ELSE <<>>
    IN  \/ /\ sess.state = "IDLE"
           /\ Keeps(sess)
           /\ out' = <<Reply(455)>>
        \/ /\ sess.state # "IDLE"
           /\ sess' = s
           /\ \/ /\ "back" \in s.setup /\ ~aout
                 /\ aout' \in BOOLEAN
                 /\ refused' = (refused \/ ~aout')
              \/ /\ "back" \notin s.setup \/ aout
                 /\ UNCHANGED <<aout, refused>>
           /\ \E video \in {<<"video">>, <<>>} :
                out' = <<Reply(200)>> \o Interleaved(s, video \o audio)
           /\ UNCHANGED <<open, played>>

\* TEARDOWN frees the client, with what is queued for it, once it has replied.
handle_teardown ==
    /\ sess' = [sess EXCEPT !.state = "IDLE"]
    /\ open' = FALSE
    /\ aout' = FALSE
    /\ out' = <<Reply(200)>>
    /\ UNCHANGED <<refused, played>>

\* Mutant of InterleavedFrame: whether the loudspeaker is open is not asked.
FramePlayed(u, n) ==
    /\ played' = IF "back" \in sess.setup /\ u.ch = sess.ch.back /\ u.speech
                 THEN Append(played, n) ELSE played
    /\ UNCHANGED <<open, sess, aout, refused, out>>

\* A frame is played if it came on the channel of the backchannel, has room for
\* audio behind its header and the loudspeaker is open.
InterleavedFrame(u, n) ==
    /\ played' = IF "back" \in sess.setup /\ u.ch = sess.ch.back /\ u.speech /\ aout
                 THEN Append(played, n) ELSE played
    /\ UNCHANGED <<open, sess, aout, refused, out>>

dispatch_rtsp(u) ==
    \/ u.k = "OPTIONS" /\ Keeps(sess) /\ out' = <<Reply(200)>>
    \/ u.k = "SETUP" /\ handle_setup(u)
    \/ u.k = "PLAY" /\ handle_play
    \/ u.k = "TEARDOWN" /\ handle_teardown
----------------------------------------------------------------------------
(* The device receives.                                                    *)

Idle == open /\ ~parsing /\ out = <<>>

\* Whether a buffer begins with a whole unit.
HasUnit(buf) == buf # <<>> /\ Units[buf[1][1]].len <= Len(buf)

\* Mutant of Received: a buffer that is just full is too long.
ReceivedTooLong(k) ==
    LET buf == rbuf \o SubSeq(up, 1, k)
    IN  /\ rbuf' = buf
        /\ overflow' = (Len(buf) >= RbufLimit)
        /\ open' = ~overflow'
        /\ aout' = (aout /\ open')
        /\ parsing' = (open' /\ HasUnit(buf))

\* k bytes are appended to rbuf; if it gets too long the client is freed.
Received(k) ==
    LET buf == rbuf \o SubSeq(up, 1, k)
    IN  /\ rbuf' = buf
        /\ overflow' = (Len(buf) > RbufLimit)
        /\ open' = ~overflow'
        /\ aout' = (aout /\ open')
        /\ parsing' = (open' /\ HasUnit(buf))

\* libre reads what there is, at most RxSz bytes.
rtsp_recv_handler ==
    /\ Idle
    /\ \E k \in 1..RxSz :
         /\ k <= Len(up)
         /\ Received(k)
         /\ up' = SubSeq(up, k + 1, Len(up))
    /\ UNCHANGED <<clientVars, handled, sess, refused, played, out, sendVars>>

\* Mutant of Shift: what follows the unit in the buffer is lost.
ShiftAll(n) == rbuf' = <<>> /\ parsing' = FALSE

\* Mutant of Shift: the loop ends after one unit.
ShiftOnce(n) ==
    /\ rbuf' = SubSeq(rbuf, Units[n].len + 1, Len(rbuf))
    /\ parsing' = FALSE

\* The unit is cut off the buffer and the loop goes on, unless the client is gone.
Shift(n) ==
    /\ rbuf' = SubSeq(rbuf, Units[n].len + 1, Len(rbuf))
    /\ parsing' = (open' /\ HasUnit(rbuf'))

\* One turn of the loop in rtsp_recv_handler.
HandleUnit ==
    /\ parsing /\ out = <<>>
    /\ LET n == rbuf[1][1]
       IN  /\ handled' = Append(handled, n)
           /\ IF Units[n].k = "$" THEN InterleavedFrame(Units[n], n) ELSE dispatch_rtsp(Units[n])
           /\ Shift(n)
    /\ UNCHANGED <<clientVars, up, overflow, sendVars>>

\* The timers send to a playing client the tracks it has set up.
SendTimer(track) ==
    /\ Idle
    /\ Len(sends) < MaxSends
    /\ sess.state = "PLAYING" /\ track \in sess.setup
    /\ out' = Interleaved(sess, <<track>>)
    /\ UNCHANGED <<clientVars, up, rbuf, parseVars, sessVars, sendVars>>

audio_send_timer == SendTimer("audio")
video_send_timer == SendTimer("video")

Device == tcp_send \/ dequeue \/ rtsp_recv_handler \/ HandleUnit

Next ==
    \/ ClientWrites \/ readLoop \/ Device
    \/ audio_send_timer \/ video_send_timer

Spec == Init /\ [][Next]_vars

\* The network delivers, the kernel takes bytes again, the event loop serves
\* its sockets; the client may stop writing.
FairSpec == Spec /\ WF_vars(Device) /\ WF_vars(readLoop)
----------------------------------------------------------------------------

\* The byte after b in the client's stream.
Following(b) == IF b[2] = Units[b[1]].len THEN <<b[1] + 1, 1>> ELSE <<b[1], b[2] + 1>>

\* However TCP cuts the client's bytes, the device handles its units one after
\* the other, none twice, none skipped, and has kept every byte that it has not
\* handled yet: rbuf and what is under way begin with the next unit, go on byte
\* by byte and end with what the client wrote last (rtsp_recv_handler,
\* rtsp_server.c:983-1070).
UnitsInOrder ==
    /\ handled = [i \in 1..Len(handled) |-> i]
    /\ open => LET rest == rbuf \o up
               IN  IF rest = <<>> THEN Len(handled) = written
                   ELSE /\ rest[1] = <<Len(handled) + 1, 1>>
                        /\ \A i \in 1..(Len(rest) - 1) : rest[i + 1] = Following(rest[i])
                        /\ rest[Len(rest)] = <<written, Units[written].len>>

\* The buffers keep their limits, and the one on rbuf (rtsp_server.c:988) only
\* ever closes a client with a unit so long that one read besides it does not
\* fit.
OverflowHasACause ==
    /\ open => Len(rbuf) <= RbufLimit
    /\ Len(sendq) <= TxqMax
    /\ overflow => \E i \in 1..written : Units[i].len > RbufLimit - RxSz + 1

\* The replies and frames the client's reader takes from the stream are whole
\* ones, in the order they were sent, although the kernel may take a part of a
\* frame and the queue refuse frames altogether (tcp.c:190-264, 1118-1179).
WholeFrames ==
    /\ \A i \in DOMAIN got :
         LET n == got[i][1][1] IN got[i] = Bytes(n, sends[n].len)
    /\ \A i, j \in DOMAIN got : i < j => got[i][1][1] < got[j][1][1]

\* The last SETUP of a track among the first k units, if there is one.
SetupsOf(track, k) == {i \in 1..k : Units[i].k = "SETUP" /\ Units[i].track = track}
LastSetup(track, k) ==
    CHOOSE i \in SetupsOf(track, k) : \A j \in SetupsOf(track, k) : j <= i

\* A client that names tracks and channels and wants them interleaved.
Plain ==
    \A i \in DOMAIN Units :
      Units[i].k = "SETUP" => /\ Units[i].track # "base"
                              /\ Units[i].by = "tcp" /\ Units[i].ch # NoChannel

\* Audio only goes to a client that set it up, and media goes out on the channel
\* the client named last for it, also when it changes its mind while it plays
\* (handle_setup, rtsp_server.c:593-649, against the senders' use of it).
OwnChannel ==
    Plain => \A i \in DOMAIN sends :
      sends[i].k = "$" =>
        LET u == sends[i] IN
          IF SetupsOf(u.track, u.at) # {}
          THEN u.ch = Units[LastSetup(u.track, u.at)].ch
          ELSE u.track = "video"

\* Speech in the client's unit i belongs to the loudspeaker: it came on the
\* channel last named for the backchannel, after a PLAY that followed a SETUP
\* of the backchannel.
Speech(i) ==
    /\ Units[i].k = "$" /\ Units[i].speech
    /\ SetupsOf("back", i) # {} /\ Units[i].ch = Units[LastSetup("back", i)].ch
    /\ \E j \in 1..i : Units[j].k = "PLAY" /\ SetupsOf("back", j) # {}

\* The device plays exactly the client's speech, in order, and no frame of
\* another channel, unless the loudspeaker was not to be had
\* (rtsp_server.c:1014-1038).
SpeechIsPlayed ==
    Plain =>
      /\ \A i, j \in DOMAIN played : i < j => played[i] < played[j]
      /\ \A i \in DOMAIN played : played[i] \in 1..Len(handled) /\ Speech(played[i])
      /\ ~refused => \A n \in 1..Len(handled) :
                       Speech(n) => \E i \in DOMAIN played : played[i] = n

\* No unit that reached the device is left lying in rbuf until more bytes come,
\* and every queued byte goes out: in the end all is handled, or the client is
\* gone (the loop in rtsp_recv_handler; dequeue in tcp.c).
AllHandled ==
    <>[](~open \/ (up = <<>> /\ Len(handled) = written /\ sendq = <<>> /\ wire = <<>>))

\* A phone that plays has set up all three tracks (RtspClient.kt:19, "SETUP (3
\* tracks)").
AllTracksSetUp == sess.state = "PLAYING" => sess.setup = Track
=============================================================================
