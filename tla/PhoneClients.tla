---------------------------- MODULE PhoneClients ----------------------------
(***************************************************************************)
(* The clients the phone's app makes one after the other and what they     *)
(* tell it.  A WebRtcClient (webrtc/WebRtcClient.kt) has a signalling      *)
(* thread and the WebRTC library's thread with the ICE callbacks; an       *)
(* RtspClient changes its state in the order of ClientStates.              *)
(*                                                                         *)
(* A change of state is posted to the UI thread, if there is a listener,   *)
(* in the step that writes it; onError follows in a step of its own, with  *)
(* another look for the listener.                                          *)
(***************************************************************************)
EXTENDS Integers, Sequences

CONSTANTS
    MaxClients,  \* bound on the clients made
    MaxRetries   \* bound on the times an RtspClient starts to reconnect

ASSUME PhoneClientsAssumption == MaxClients \in Nat /\ MaxRetries \in Nat

Client == 1..MaxClients
NoClient == 0

VARIABLES
    webrtc,    \* MainActivity.isWebRtcMode; the user leaves it alone
    state,     \* the state of each client
    listener,  \* it has a listener
    failing,   \* the threads of each client that are about to call onError
    posted,    \* the UI thread's queue, <<client, what>>
    sig,       \* where the signalling thread is
    closed,    \* its disconnect() is over
    remote,    \* setRemoteDescription was called
    ice,       \* the ICE connection: "new", "up", "down"
    retries    \* how often an RtspClient has started to reconnect

clientVars == <<webrtc, state, listener, failing, posted, sig, closed, remote, ice, retries>>

\* The worker or signalling thread, and the library's thread.
Worker == {"S", "I"}

ClientsInit ==
    /\ webrtc \in BOOLEAN
    /\ state = [k \in Client |-> "DISCONNECTED"]
    /\ listener = [k \in Client |-> FALSE]
    /\ failing = [k \in Client |-> {}]
    /\ posted = <<>>
    /\ sig = [k \in Client |-> "off"]
    /\ closed = [k \in Client |-> FALSE]
    /\ remote = [k \in Client |-> FALSE]
    /\ ice = [k \in Client |-> "new"]
    /\ retries = [k \in Client |-> 0]

\* Before onError a thread does nothing else.
Free(k, t) == t \notin failing[k]

\* The listener of client k, if there is one, posts v to the UI thread.
Tell(k, v) == posted' = IF listener[k] THEN Append(posted, <<k, v>>) ELSE posted

\* The setter of state.
SetState(k, v) ==
    /\ state' = [state EXCEPT ![k] = v]
    /\ Tell(k, v)
    /\ UNCHANGED failing

\* Mutant of Fail: onError is not called.
FailQuietly(k, t) == SetState(k, "ERROR")

\* state = ERROR; onError is to follow.
Fail(k, t) ==
    /\ state' = [state EXCEPT ![k] = "ERROR"]
    /\ Tell(k, "ERROR")
    /\ failing' = [failing EXCEPT ![k] = @ \cup {t}]

\* listener?.onError.
CallOnError(k, t) ==
    /\ t \in failing[k]
    /\ failing' = [failing EXCEPT ![k] = @ \ {t}]
    /\ Tell(k, "onError")
    /\ UNCHANGED <<webrtc, state, listener, sig, closed, remote, ice, retries>>
----------------------------------------------------------------------------
(* RtspClient.                                                             *)

RtspStates(k) == INSTANCE ClientStates WITH state <- state[k], detached <- closed[k]

\* The threads of RtspClientLife bring about the next state.
RtspStep(k) ==
    /\ ~webrtc /\ ~closed[k] /\ Free(k, "S")
    /\ \E s \in RtspStates(k)!Steps :
         /\ s[1] = state[k]
         /\ s[2] = "RECONNECTING" => retries[k] < MaxRetries
         /\ IF s[2] = "ERROR" THEN Fail(k, "S") ELSE SetState(k, s[2])
         /\ retries' = IF s[2] = "RECONNECTING" THEN [retries EXCEPT ![k] = @ + 1] ELSE retries
    /\ UNCHANGED <<webrtc, listener, sig, closed, remote, ice>>
----------------------------------------------------------------------------
(* WebRtcClient.                                                           *)

\* The offer is made and sent to go2rtc, with timeouts; an answer makes the state
\* CONNECTED.
Signal(k) ==
    /\ sig[k] = "offer"
    /\ \/ SetState(k, "CONNECTED") /\ sig' = [sig EXCEPT ![k] = "remote"]
       \/ Fail(k, "S") /\ sig' = [sig EXCEPT ![k] = "done"]
    /\ UNCHANGED <<webrtc, listener, closed, remote, ice, retries>>

SetRemote(k) ==
    /\ sig[k] = "remote" /\ Free(k, "S")
    /\ remote' = [remote EXCEPT ![k] = TRUE]
    /\ sig' = [sig EXCEPT ![k] = "wait"]
    /\ UNCHANGED <<webrtc, state, listener, failing, posted, closed, ice, retries>>

\* setRemoteDescription succeeds, fails or does not answer in time.
RemoteSet(k) ==
    /\ sig[k] = "wait" /\ Free(k, "S")
    /\ \/ Fail(k, "S")
       \/ UNCHANGED <<state, posted, failing>>
    /\ sig' = [sig EXCEPT ![k] = "done"]
    /\ UNCHANGED <<webrtc, listener, closed, remote, ice, retries>>

\* Mutant of exchangeSdp: CONNECTED is set when the answer has been applied.
ExchangeThenState(k) ==
    \/ SetRemote(k) \/ RemoteSet(k)
    \/ /\ sig[k] = "offer"
       /\ sig' = [sig EXCEPT ![k] = "remote"]
       /\ UNCHANGED <<webrtc, state, failing, listener, posted, closed, remote, ice, retries>>
    \/ /\ sig[k] = "done" /\ state[k] = "CONNECTING"
       /\ SetState(k, "CONNECTED")
       /\ UNCHANGED <<webrtc, listener, sig, closed, remote, ice, retries>>

exchangeSdp(k) == Signal(k) \/ SetRemote(k) \/ RemoteSet(k)

\* A connection that the answer has made possible comes up; only a client in
\* CONNECTED takes notice.
IceConnected(k) ==
    /\ remote[k] /\ ~closed[k] /\ ice[k] = "new" /\ Free(k, "I")
    /\ ice' = [ice EXCEPT ![k] = "up"]
    /\ \/ state[k] = "CONNECTED" /\ SetState(k, "PLAYING")
       \/ state[k] # "CONNECTED" /\ UNCHANGED <<state, posted, failing>>
    /\ UNCHANGED <<webrtc, listener, sig, closed, remote, retries>>

\* It is lost, or none could be made.
IceLost(k) ==
    /\ remote[k] /\ ~closed[k] /\ ice[k] # "down" /\ Free(k, "I")
    /\ ice' = [ice EXCEPT ![k] = "down"]
    /\ Fail(k, "I")
    /\ UNCHANGED <<webrtc, listener, sig, closed, remote, retries>>

onIceConnectionChange(k) == IceConnected(k) \/ IceLost(k)
----------------------------------------------------------------------------
\* When the ICE connection comes up, the client is ready to play: the answer is
\* not applied before the state is CONNECTED (WebRtcClient.kt:256, 261), so the
\* callback, which otherwise would be ignored (line 102), finds it.
IceFindsConnected ==
    \A k \in Client : ice[k] = "up" /\ ~closed[k] => state[k] \in {"PLAYING", "ERROR"}
=============================================================================
