---------------------------- MODULE ClientStates ----------------------------
(***************************************************************************)
(* What an RtspClient tells its listener (rtsp/RtspClient.kt): the order   *)
(* in which its state changes until it is disconnected.  After that its    *)
(* threads may still write any state, but nobody listens.                  *)
(***************************************************************************)
VARIABLES
    state,    \* RtspClient.state
    detached  \* the client is being disconnected

State == {"CONNECTING", "CONNECTED", "PLAYING", "RECONNECTING", "ERROR", "DISCONNECTED"}

\* From, to.  RECONNECTING follows a failure at any point, ERROR the last of the
\* attempts to reconnect.
Steps ==
    {<<"CONNECTING", "CONNECTED">>, <<"CONNECTING", "RECONNECTING">>,
     <<"CONNECTED", "PLAYING">>, <<"CONNECTED", "RECONNECTING">>,
     <<"PLAYING", "RECONNECTING">>,
     <<"RECONNECTING", "CONNECTED">>, <<"RECONNECTING", "ERROR">>}

Init == state = "CONNECTING" /\ detached = FALSE

Change ==
    /\ ~detached /\ \E s \in Steps : s[1] = state /\ state' = s[2]
    /\ UNCHANGED detached

Detach == ~detached /\ detached' = TRUE /\ UNCHANGED state

Unheard == detached /\ state' \in State /\ UNCHANGED detached

Next == Change \/ Detach \/ Unheard

Spec == Init /\ [][Next]_<<state, detached>>
=============================================================================
