---------------------------- MODULE MainActivity ----------------------------
(***************************************************************************)
(* The phone's app (MainActivity.kt) with its clients and the doorbell.    *)
(* The UI thread runs clicks, the system's surface callbacks and what      *)
(* other threads posted, one at a time; a background thread disconnects.   *)
(* The polling service reads isStreaming.  Clicks are posted like          *)
(* everything else.                                                        *)
(*                                                                         *)
(* In WebRTC mode the surface of the RTSP video is not shown, so that it   *)
(* does not exist.                                                         *)
(***************************************************************************)
EXTENDS Doorbell, PhoneClients

VARIABLES
    client,        \* rtspClient or webRtcClient, or NoClient
    made,          \* how many clients were made
    isStreaming,
    disconnecting,
    doomed,        \* the client the thread "Disconnect" works on, or NoClient
    surfaceReady,
    decoder,       \* videoDecoder: "none", "idle", "running"
    pendingAutoConnect,
    stale,         \* history: PLAYING of a client that was gone has been run
    missed         \* history: the surface came when the client did not play

uiVars == <<client, made, isStreaming, disconnecting, doomed, surfaceReady, decoder,
            pendingAutoConnect>>
historyVars == <<stale, missed>>
phoneVars == <<clientVars, uiVars, historyVars>>
vars == <<doorbellVars, phoneVars>>

Init ==
    /\ DoorbellInit /\ ClientsInit
    /\ client = NoClient /\ made = 0
    /\ isStreaming = FALSE /\ disconnecting = FALSE /\ doomed = NoClient
    /\ surfaceReady = ~webrtc /\ decoder = "none" /\ pendingAutoConnect = FALSE
    /\ stale = FALSE /\ missed = FALSE
----------------------------------------------------------------------------
(* Pieces of what the UI thread runs.  Each says what becomes of           *)
(* connVars and decoder.                                                   *)

connVars == <<client, made, isStreaming, disconnecting, doomed, state, listener, sig, missed>>

\* Mutant of disconnectAll: isStreaming is left as it is.
DisconnectKeepsFlag ==
    \/ disconnecting /\ UNCHANGED <<connVars, decoder>>
    \/ /\ ~disconnecting
       /\ disconnecting' = TRUE
       /\ client' = NoClient /\ doomed' = client /\ decoder' = "none"
       /\ listener' = [k \in Client |-> listener[k] /\ k # client]
       /\ UNCHANGED <<made, isStreaming, state, sig, missed>>

\* The client is let go, without its listener, and left to the thread.
disconnectAll ==
    \/ disconnecting /\ UNCHANGED <<connVars, decoder>>
    \/ /\ ~disconnecting
       /\ disconnecting' = TRUE /\ isStreaming' = FALSE
       /\ client' = NoClient /\ doomed' = client /\ decoder' = "none"
       /\ listener' = [k \in Client |-> listener[k] /\ k # client]
       /\ UNCHANGED <<made, state, sig, missed>>

\* A new client; CONNECTING is told to the UI thread on the UI thread itself.
Connect ==
    /\ made < MaxClients
    /\ made' = made + 1 /\ client' = made + 1
    /\ state' = [state EXCEPT ![made + 1] = "CONNECTING"]
    /\ listener' = [listener EXCEPT ![made + 1] = TRUE]
    /\ sig' = [sig EXCEPT ![made + 1] = IF webrtc THEN "offer" ELSE "off"]
    /\ decoder' = IF webrtc THEN decoder ELSE "idle"
    /\ missed' = FALSE
    /\ UNCHANGED <<isStreaming, disconnecting, doomed>>

\* onConnectWebRtc when the library fails: ERROR and onError at once, which
\* disconnects before connect() returns.
ConnectFails ==
    /\ webrtc /\ made < MaxClients
    /\ made' = made + 1
    /\ state' = [state EXCEPT ![made + 1] = "ERROR"]
    /\ isStreaming' = FALSE /\ disconnecting' = TRUE /\ doomed' = made + 1
    /\ decoder' = "none"
    /\ UNCHANGED <<client, listener, sig, missed>>

\* Mutant of onConnectClick: a disconnect under way is no obstacle.
ConnectAnyTime ==
    \/ client # NoClient /\ disconnectAll
    \/ client = NoClient /\ (Connect \/ ConnectFails)
    \/ client = NoClient /\ made = MaxClients /\ UNCHANGED <<connVars, decoder>>

\* The button is for both.
onConnectClick ==
    \/ disconnecting /\ UNCHANGED <<connVars, decoder>>
    \/ ~disconnecting /\ client # NoClient /\ disconnectAll
    \/ ~disconnecting /\ client = NoClient /\ (Connect \/ ConnectFails)
    \/ /\ ~disconnecting /\ client = NoClient /\ made = MaxClients
       /\ UNCHANGED <<connVars, decoder>>

\* MainActivity is brought up by an accepted call.
handleAutoConnect ==
    \/ client # NoClient /\ UNCHANGED <<connVars, decoder, pendingAutoConnect>>
    \/ client = NoClient /\ surfaceReady /\ onConnectClick /\ UNCHANGED pendingAutoConnect
    \/ /\ client = NoClient /\ ~surfaceReady
       /\ pendingAutoConnect' = TRUE /\ UNCHANGED <<connVars, decoder>>
----------------------------------------------------------------------------
(* What the UI thread runs.                                                *)

UNCHANGEDByUi == UNCHANGED <<doorbellVars, webrtc, failing, closed, remote, ice, retries>>

\* Mutant of onStateChanged: the decoder is not started again after a reconnect.
StateChangedKeeps(k, v) ==
    /\ isStreaming' = CASE v = "PLAYING" -> TRUE [] v = "CONNECTED" -> isStreaming [] OTHER -> FALSE
    /\ decoder' = IF v = "RECONNECTING" /\ decoder = "running" THEN "idle" ELSE decoder
    /\ stale' = (stale \/ (v = "PLAYING" /\ k # client))
    /\ UNCHANGED <<client, made, disconnecting, doomed, state, listener, sig, missed>>

\* The decoder there is gets started at CONNECTED if there is a surface, and is
\* stopped at RECONNECTING.
onStateChanged(k, v) ==
    /\ isStreaming' = CASE v = "PLAYING" -> TRUE [] v = "CONNECTED" -> isStreaming [] OTHER -> FALSE
    /\ decoder' = CASE v = "CONNECTED" /\ surfaceReady /\ decoder # "none" -> "running"
                    [] v = "RECONNECTING" /\ decoder # "none" -> "idle"
                    [] OTHER -> decoder
    /\ stale' = (stale \/ (v = "PLAYING" /\ k # client))
    /\ UNCHANGED <<client, made, disconnecting, doomed, state, listener, sig, missed>>

\* An RTSP client that is reconnecting is left alone.
onError ==
    IF ~webrtc /\ client # NoClient /\ state[client] = "RECONNECTING"
    THEN UNCHANGED <<connVars, decoder>> ELSE disconnectAll

\* The first thing in the queue is run.
RunPosted ==
    /\ posted # <<>>
    /\ posted' = Tail(posted)
    /\ LET k == Head(posted)[1]
           v == Head(posted)[2]
       IN  \/ v = "click" /\ onConnectClick /\ UNCHANGED <<pendingAutoConnect, stale>>
           \/ v = "auto" /\ handleAutoConnect /\ UNCHANGED stale
           \/ v = "onError" /\ onError /\ UNCHANGED <<pendingAutoConnect, stale>>
           \/ /\ v \notin {"click", "auto", "onError"}
              /\ onStateChanged(k, v) /\ UNCHANGED pendingAutoConnect
    /\ UNCHANGED surfaceReady
    /\ UNCHANGEDByUi

\* A playing client gets a new decoder; a call accepted before is connected.
surfaceCreated ==
    /\ ~webrtc /\ ~surfaceReady
    /\ surfaceReady' = TRUE
    /\ pendingAutoConnect' = FALSE
    /\ \/ pendingAutoConnect /\ onConnectClick
       \/ /\ ~pendingAutoConnect
          /\ LET playing == client # NoClient /\ state[client] = "PLAYING"
             IN  /\ decoder' = IF playing THEN "running" ELSE decoder
                 /\ missed' = (client # NoClient /\ ~playing)
          /\ UNCHANGED <<client, made, isStreaming, disconnecting, doomed, state, listener, sig>>
    /\ UNCHANGED <<posted, stale>>
    /\ UNCHANGEDByUi

surfaceDestroyed ==
    /\ surfaceReady
    /\ surfaceReady' = FALSE
    /\ decoder' = "none"
    /\ UNCHANGED <<connVars, posted, pendingAutoConnect, stale>>
    /\ UNCHANGEDByUi
----------------------------------------------------------------------------
(* The others.                                                             *)

\* The user presses the button, once at a time.
Click ==
    /\ <<NoClient, "click">> \notin {posted[i] : i \in DOMAIN posted}
    /\ client # NoClient \/ made < MaxClients
    /\ posted' = Append(posted, <<NoClient, "click">>)
    /\ UNCHANGED <<doorbellVars, webrtc, state, listener, failing, sig, closed, remote, ice,
                   retries, uiVars, historyVars>>

\* The user takes the call: MainActivity gets an intent.
onAccept ==
    /\ CloseScreen
    /\ posted' = Append(posted, <<NoClient, "auto">>)
    /\ UNCHANGED <<webrtc, state, listener, failing, sig, closed, remote, ice, retries, uiVars,
                   historyVars>>

\* The thread "Disconnect": the client's disconnect(), which tells a listener of an
\* RtspClient, then the flag.  What the client's threads still write is seen by
\* nobody: it is left out from here on.
CloseClient ==
    /\ disconnecting
    /\ disconnecting' = FALSE /\ doomed' = NoClient
    /\ closed' = [k \in Client |-> closed[k] \/ k = doomed]
    /\ state' = [k \in Client |-> IF k = doomed THEN "DISCONNECTED" ELSE state[k]]
    /\ failing' = [k \in Client |-> IF k = doomed THEN {} ELSE failing[k]]
    /\ sig' = [k \in Client |-> IF k = doomed THEN "done" ELSE sig[k]]
    /\ remote' = [k \in Client |-> k # doomed /\ remote[k]]
    /\ ice' = [k \in Client |-> IF k = doomed THEN "new" ELSE ice[k]]
    /\ retries' = [k \in Client |-> IF k = doomed THEN 0 ELSE retries[k]]
    /\ posted' = IF ~webrtc /\ \E k \in Client : k = doomed /\ listener[k]
                 THEN Append(posted, <<doomed, "DISCONNECTED">>) ELSE posted
    /\ UNCHANGED <<doorbellVars, webrtc, listener, client, made, isStreaming,
                   surfaceReady, decoder, pendingAutoConnect, historyVars>>

\* A client's threads.
ClientStep(k) ==
    /\ RtspStep(k) \/ exchangeSdp(k) \/ onIceConnectionChange(k)
    /\ UNCHANGED <<doorbellVars, uiVars, historyVars>>

OnErrorStep(k, t) == CallOnError(k, t) /\ UNCHANGED <<doorbellVars, uiVars, historyVars>>

Bell == handle_doorbell_trigger \/ OtherRequest \/ CloseScreen

DoorbellStep == (Bell \/ pollLoop(isStreaming)) /\ UNCHANGED phoneVars

Next ==
    \/ DoorbellStep
    \/ onAccept \/ Click
    \/ RunPosted \/ surfaceCreated \/ surfaceDestroyed
    \/ CloseClient
    \/ \E k \in Client : ClientStep(k) \/ \E t \in Worker : OnErrorStep(k, t)

Spec == Init /\ [][Next]_vars

\* Threads run; the network does not lose every request for ever.
FairSpec ==
    /\ Spec
    /\ WF_vars(RunPosted) /\ WF_vars(CloseClient)
    /\ WF_vars(\E k \in Client, t \in Worker : OnErrorStep(k, t))
    /\ WF_vars(pollLoop(isStreaming) /\ UNCHANGED phoneVars)
    /\ SF_vars(Served /\ UNCHANGED phoneVars)
----------------------------------------------------------------------------
Told == {"CONNECTED", "PLAYING", "RECONNECTING", "ERROR", "onError"}

\* Type invariant.  The queue holds what a client that is listened to posts, which
\* is not DISCONNECTED (MainActivity.kt:377-379).
TypeOK ==
    /\ DoorbellTypeOK
    /\ client \in Client \cup {NoClient} /\ doomed \in Client \cup {NoClient}
    /\ made \in 0..MaxClients
    /\ {isStreaming, disconnecting, surfaceReady, pendingAutoConnect} \subseteq BOOLEAN
    /\ decoder \in {"none", "idle", "running"}
    /\ state \in [Client -> RtspStates(1)!State]
    /\ failing \in [Client -> SUBSET Worker]
    /\ posted \in Seq(Client \X Told \cup {NoClient} \X {"click", "auto"})

\* There is no client while the one before is being disconnected: onError of the
\* new one would find disconnectAll at work for the old one and do nothing
\* (MainActivity.kt:173, 355).
OneAtATime == client # NoClient => ~disconnecting

\* The service keeps rings from the user only while there is something to see: a
\* set isStreaming (MainActivity.kt:37) belongs to a client that is there.  The
\* exception: PLAYING that was posted by a client let go before it was run.
StreamingHasACause == isStreaming => stale \/ client # NoClient

\* A client that plays, once its calls have been run, counts as streaming and is
\* seen: with a surface there is a running decoder, whatever became of the
\* clients before it, and also after a reconnect or when the surface was away for
\* a time.  The exception for the picture: the surface came back when the client
\* did not play (MainActivity.kt:69, 377-379, 425).
PlayingIsSeen ==
    posted = <<>> /\ client # NoClient /\ state[client] = "PLAYING"
    => /\ isStreaming
       /\ ~missed /\ ~webrtc /\ surfaceReady => decoder = "running"

\* A client that reports an error does not stay: the button is for a new connection
\* again, although onError may be posted while another disconnect is under way
\* (MainActivity.kt:354-355, 469-479).
ErrorEndsClient ==
    \A k \in Client : (client = k /\ state[k] = "ERROR") ~> (client # k /\ ~disconnecting)
=============================================================================
