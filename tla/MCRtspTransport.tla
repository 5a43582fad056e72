-------------------------- MODULE MCRtspTransport --------------------------
(* RtspTransport for TLC: the clients.                                     *)
EXTENDS RtspTransport, Sdp

Request(k) == [k |-> k, len |-> 2]
Frame(ch, speech, len) == [k |-> "$", ch |-> ch, speech |-> speech, len |-> len]
Named(track, ch) == Setup(track, ch, 2)
Other(track, by, ch) == [k |-> "SETUP", track |-> track, by |-> by, ch |-> ch, len |-> 2]

\* The phone, and a phone that would find the backchannel.
Phone == [local |-> FALSE, units |-> doConnect(2)]
Talker ==
    [local |-> FALSE,
     units |-> <<Named("audio", 2), Named("back", 4), Request("PLAY"),
                 Frame(4, TRUE, 3), Frame(5, FALSE, 2)>>]
\* It moves its video to another channel while it plays.
Changer ==
    [local |-> FALSE,
     units |-> <<Named("video", 0), Request("PLAY"), Named("video", 6), Request("PLAY")>>]
\* It speaks too early, and again after the first PLAY.
Eager ==
    [local |-> FALSE,
     units |-> <<Request("PLAY"), Named("back", 0), Frame(0, TRUE, 4), Request("PLAY"),
                 Frame(0, TRUE, 4)>>]
\* Tracks without a name, default channels.
Base ==
    [local |-> FALSE,
     units |-> <<Other("base", "tcp", NoChannel), Other("base", "tcp", NoChannel),
                 Request("PLAY"), Request("TEARDOWN"), Request("OPTIONS")>>]
\* A local player that wants UDP.
Local ==
    [local |-> TRUE,
     units |-> <<Other("back", "udp", NoChannel), Other("video", "none", NoChannel),
                 Other("audio", "udp", NoChannel), Request("PLAY")>>]
\* A frame longer than the device's buffer.
Long == [local |-> FALSE, units |-> <<Named("back", 4), Frame(4, TRUE, 9), Request("OPTIONS")>>]

MCPlans == {Phone, Talker, Changer, Eager, Base, Local, Long}
PhonePlan == {Phone}
=============================================================================
