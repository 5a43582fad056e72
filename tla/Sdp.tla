-------------------------------- MODULE Sdp --------------------------------
(***************************************************************************)
(* What the device offers in its answer to DESCRIBE, and what the phone    *)
(* makes of it: parseSdp and the requests of doConnect (rtsp/RtspClient.kt)*)
(***************************************************************************)
EXTENDS Integers, Sequences

\* The media blocks of handle_describe: medium, direction, control track.
Blocks ==
    <<[m |-> "video", dir |-> "sendrecv", track |-> "video"],
      [m |-> "audio", dir |-> "sendrecv", track |-> "audio"],
      [m |-> "audio", dir |-> "sendonly", track |-> "back"]>>

NoTrack == "none"

\* The track of the last block with medium m and one of the directions D.
LastBlock(blocks, m, D) ==
    LET such == {i \in DOMAIN blocks : blocks[i].m = m /\ blocks[i].dir \in D}
    IN  IF such = {} THEN NoTrack
        ELSE blocks[CHOOSE i \in such : \A j \in such : j <= i].track

\* An audio block is the backchannel if it is recvonly, the device's audio if
\* it is sendonly, and ignored otherwise.
parseSdp(blocks) ==
    [video |-> LastBlock(blocks, "video", {"sendrecv", "sendonly", "recvonly"}),
     audio |-> LastBlock(blocks, "audio", {"sendonly"}),
     back  |-> LastBlock(blocks, "audio", {"recvonly"})]

\* A track that was not found is asked for by its usual number.
Or(track, default) == IF track = NoTrack THEN default ELSE track

Setup(track, ch, len) == [k |-> "SETUP", track |-> track, by |-> "tcp", ch |-> ch, len |-> len]

\* What doConnect sends, with len bytes to a request.  The backchannel is only
\* set up, and speech only sent, if its track was found.
doConnect(len) ==
    LET t == parseSdp(Blocks)
    IN  <<[k |-> "OPTIONS", len |-> len],
          Setup(Or(t.video, "video"), 0, len),
          Setup(Or(t.audio, "audio"), 2, len)>>
          \o (IF t.back = NoTrack THEN <<>> ELSE <<Setup(t.back, 4, len)>>)
          \o <<[k |-> "PLAY", len |-> len]>>
          \o (IF t.back = NoTrack THEN <<>>
              ELSE <<[k |-> "$", ch |-> 4, speech |-> TRUE, len |-> len]>>)
=============================================================================
