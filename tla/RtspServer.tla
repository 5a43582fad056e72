----------------------------- MODULE RtspServer -----------------------------
(***************************************************************************)
(* The RTSP server of the device (intercom_test/src/rtsp_server.c) with    *)
(* the devices it shares with the HTTP call session (session.c and         *)
(* http_server.c): the camera (camera_win.c), which hands each encoded     *)
(* frame to whoever asks for it, and the loudspeaker (audio_out_win.c).    *)
(*                                                                         *)
(* The program is single threaded, so each handler is one step.  A step    *)
(* that changes nothing here (OPTIONS, GET_PARAMETER, a refused request,   *)
(* the audio timer, received talk-back audio) is a stuttering step.        *)
(***************************************************************************)
EXTENDS Naturals

CONSTANTS
    Client,         \* RTSP connections, direct or through the relay
    IDR_FRAMES,     \* VIDEO_FPS * 2: a keyframe is forced every so many frames
    CameraMayFail,  \* whether camera_open may fail
    HttpUsed        \* whether calls are made through the HTTP server

ASSUME RtspServerAssumption ==
    /\ IDR_FRAMES \in Nat \ {0}
    /\ CameraMayFail \in BOOLEAN
    /\ HttpUsed \in BOOLEAN

VARIABLES
    st,       \* per client: "none", "IDLE", "READY" or "PLAYING"
    tracks,   \* per client: the tracks set up
    aflag,    \* per client: audio_out_opened
    tmr,      \* per client: tmr_timeout is armed
    gone,     \* per client: the peer vanished without closing
    timers,   \* tmr_video and tmr_audio are armed
    camflag,  \* g_rtsp.camera_opened
    count,    \* g_rtsp.video_frame_count, positive multiples of IDR_FRAMES
              \* all being IDR_FRAMES
    cam,      \* g_cam
    speaker,  \* g_aout.opened
    sess,     \* the HTTP call session is active
    up,       \* main has not begun to clean up
    sync      \* per client: it got all frames since some keyframe

clientVars == <<st, tracks, aflag, tmr, gone>>
vars == <<clientVars, timers, camflag, count, cam, speaker, sess, up, sync>>

Track == {"video", "audio", "back"}

\* fresh: nothing was encoded since the camera was opened, so that SPS and PPS
\* are not known and the next frame is a keyframe.
Closed == [opened |-> FALSE, fresh |-> FALSE, force |-> FALSE]
Opened == [opened |-> TRUE, fresh |-> TRUE, force |-> FALSE]

Init ==
    /\ st = [c \in Client |-> "none"]
    /\ tracks = [c \in Client |-> {}]
    /\ aflag = [c \in Client |-> FALSE]
    /\ tmr = [c \in Client |-> FALSE]
    /\ gone = [c \in Client |-> FALSE]
    /\ timers = FALSE
    /\ camflag = FALSE
    /\ count = 0
    /\ cam = Closed
    /\ speaker = FALSE
    /\ sess = FALSE
    /\ up = TRUE
    /\ sync = [c \in Client |-> FALSE]

Playing == {c \in Client : st[c] = "PLAYING"}
----------------------------------------------------------------------------
(* The camera.                                                             *)

\* camera_get_frame on the camera k.  A frame goes to the clients in R and sets
\* the frame count to n.  The encoder may make any frame a keyframe, and may
\* skip a frame only when no keyframe is due.
camera_get_frame(k, R, n) ==
    \/ /\ k.opened => ~k.force /\ ~k.fresh
       /\ cam' = k
       /\ UNCHANGED <<sync, count>>
    \/ /\ k.opened
       /\ cam' = [k EXCEPT !.force = FALSE, !.fresh = FALSE]
       /\ \/ sync' = [c \in Client |-> c \in R]
          \/ ~k.force /\ ~k.fresh /\ sync' = [c \in Client |-> sync[c] /\ c \in R]
       /\ count' = n

\* video_frame_count + 1.
NextCount == IF count = IDR_FRAMES THEN 1 ELSE count + 1

\* Mutant of camera_request_keyframe: the request is dropped.
RequestIgnored(k) == k

camera_request_keyframe(k) == [k EXCEPT !.force = TRUE]

\* camera_close leaves a camera that is not open alone.
camera_close(k) == IF k.opened THEN Closed ELSE k
----------------------------------------------------------------------------
(* Connections.                                                            *)

\* Mutant of rtsp_conn_handler: the inactivity timer is not started.
ConnWithoutTimer(c) ==
    /\ st[c] = "none"
    /\ st' = [st EXCEPT ![c] = "IDLE"]
    /\ UNCHANGED <<tracks, aflag, tmr, gone, timers, camflag, count, cam, speaker,
                   sess, up, sync>>

\* A connection is accepted, or handed over by the relay client.
rtsp_conn_handler(c) ==
    /\ st[c] = "none"
    /\ st' = [st EXCEPT ![c] = "IDLE"]
    /\ tmr' = [tmr EXCEPT ![c] = TRUE]
    /\ UNCHANGED <<tracks, aflag, gone, timers, camflag, count, cam, speaker,
                   sess, up, sync>>

\* The peer disappears and sends nothing any more, not even a FIN.
PeerVanishes(c) ==
    /\ st[c] # "none"
    /\ ~gone[c]
    /\ gone' = [gone EXCEPT ![c] = TRUE]
    /\ UNCHANGED <<st, tracks, aflag, tmr, timers, camflag, count, cam, speaker,
                   sess, up, sync>>

\* What is gone with the memory of the client.
Freed(c) ==
    /\ st' = [st EXCEPT ![c] = "none"]
    /\ tracks' = [tracks EXCEPT ![c] = {}]
    /\ aflag' = [aflag EXCEPT ![c] = FALSE]
    /\ gone' = [gone EXCEPT ![c] = FALSE]
    /\ sync' = [sync EXCEPT ![c] = FALSE]

\* Mutant of client_destructor: the loudspeaker is not closed.
DestructorKeepsSpeaker(c) ==
    /\ Freed(c)
    /\ tmr' = [tmr EXCEPT ![c] = FALSE]
    /\ UNCHANGED speaker

\* The client is freed; it closes the loudspeaker if it had opened it.
client_destructor(c) ==
    /\ Freed(c)
    /\ tmr' = [tmr EXCEPT ![c] = FALSE]
    /\ speaker' = (speaker /\ ~aflag[c])

\* Mutant of maybe_stop_media: has_playing_clients is not asked.
StopAtOnce(c) == timers' = FALSE /\ count' = 0

\* c no longer plays: the timers stop when nobody else does.
maybe_stop_media(c) ==
    IF Playing \ {c} = {}
    THEN timers' = FALSE /\ count' = 0
    ELSE UNCHANGED <<timers, count>>

\* The connection is closed by the peer, or nothing came for 60 seconds.
Leave(c) ==
    /\ IF st[c] = "PLAYING" THEN maybe_stop_media(c)
       ELSE UNCHANGED <<timers, count>>
    /\ client_destructor(c)
    /\ UNCHANGED <<camflag, cam, sess, up>>

rtsp_close_handler(c) ==
    /\ st[c] # "none"
    /\ ~gone[c]
    /\ Leave(c)

session_timeout_handler(c) ==
    /\ tmr[c]
    /\ Leave(c)

\* More than 16 kB without a complete request: the client is freed at once.
BufferOverflow(c) ==
    /\ st[c] # "none"
    /\ ~gone[c]
    /\ client_destructor(c)
    /\ UNCHANGED <<timers, camflag, count, cam, sess, up>>
----------------------------------------------------------------------------
(* Requests.                                                               *)

Request(c) == st[c] # "none" /\ ~gone[c]

\* Mutant of handle_describe: the result of camera_open is not looked at.
DescribeUnchecked(c) ==
    /\ Request(c)
    /\ ~cam.opened \/ cam.fresh
    /\ \E ok \in BOOLEAN :
          /\ ok \/ (CameraMayFail /\ ~cam.opened)
          /\ cam' = IF ok THEN [(IF cam.opened THEN cam ELSE Opened) EXCEPT
                                 !.fresh = FALSE, !.force = FALSE]
                    ELSE Closed
          /\ camflag' = TRUE
    /\ sync' = [d \in Client |-> FALSE]
    /\ UNCHANGED <<clientVars, timers, count, speaker, sess, up>>

\* DESCRIBE encodes one frame for nobody when SPS and PPS are not known yet.
handle_describe(c) ==
    /\ Request(c)
    /\ ~cam.opened \/ cam.fresh
    /\ \E ok \in BOOLEAN :
          /\ ok \/ (CameraMayFail /\ ~cam.opened)
          /\ IF ok
             THEN LET k == IF cam.opened THEN cam ELSE Opened
                  IN  /\ cam' = [k EXCEPT !.fresh = FALSE, !.force = FALSE]
                      /\ camflag' = (camflag \/ ~cam.opened)
                      /\ sync' = [d \in Client |-> FALSE]
             ELSE cam' = Closed /\ UNCHANGED <<camflag, sync>>
    /\ UNCHANGED <<clientVars, timers, count, speaker, sess, up>>

\* A SETUP that is accepted.  It takes a playing client back to READY.
handle_setup(c, t) ==
    /\ Request(c)
    /\ tracks' = [tracks EXCEPT ![c] = @ \cup {t}]
    /\ st' = [st EXCEPT ![c] = "READY"]
    /\ UNCHANGED <<aflag, tmr, gone, timers, camflag, count, cam, speaker, sess, up,
                   sync>>

\* The cameras ensure_media_started may leave behind when it succeeds: it
\* opens the camera only if the server has not opened it before.
CameraEnsured == IF camflag \/ cam.opened THEN cam ELSE Opened

\* Camera and timers run.
MediaEnsured ==
    /\ timers' = TRUE
    /\ camflag' = TRUE

\* audio_out_open, which succeeds when the loudspeaker is open already.
OpenSpeaker(c) ==
    \E ok \in BOOLEAN :
       /\ speaker => ok
       /\ aflag' = [aflag EXCEPT ![c] = ok]
       /\ speaker' = (speaker \/ ok)

\* PLAY: media is started, a keyframe requested, the loudspeaker opened for the
\* talk-back track, and one frame sent to this client at once.
handle_play(c) ==
    /\ Request(c)
    /\ st[c] \in {"READY", "PLAYING"}
    /\ st' = [st EXCEPT ![c] = "PLAYING"]
    /\ \/ /\ MediaEnsured
          /\ camera_get_frame(camera_request_keyframe(CameraEnsured), {c}, NextCount)
       \/ /\ CameraMayFail /\ ~camflag /\ ~cam.opened
          /\ UNCHANGED <<timers, camflag>>
          /\ camera_get_frame(camera_request_keyframe(Closed), {c}, NextCount)
    /\ IF "back" \in tracks[c] /\ ~aflag[c] THEN OpenSpeaker(c)
       ELSE UNCHANGED <<aflag, speaker>>
    /\ UNCHANGED <<tracks, tmr, gone, sess, up>>

handle_teardown(c) ==
    /\ Request(c)
    /\ maybe_stop_media(c)
    /\ client_destructor(c)
    /\ UNCHANGED <<camflag, cam, sess, up>>
----------------------------------------------------------------------------
(* Timers.                                                                 *)

\* Mutant of KeyframeDue: the modulo never hits.
KeyframeNever == FALSE

\* A keyframe is forced every IDR_FRAMES frames, but not for frame 0.
KeyframeDue == count = IDR_FRAMES

\* One frame for all playing clients that set the video track up.
video_send_timer ==
    /\ timers
    /\ Playing # {}
    /\ camera_get_frame(IF KeyframeDue THEN camera_request_keyframe(cam) ELSE cam,
                        {c \in Playing : "video" \in tracks[c]}, NextCount)
    /\ UNCHANGED <<clientVars, timers, camflag, speaker, sess, up>>
----------------------------------------------------------------------------
(* The HTTP call session, which shares camera and loudspeaker.             *)

\* POST /api/call: a running call is ended first.  The new one fails on a bad
\* peer address, and when the camera is open already or the socket cannot be
\* bound; the destructor of a failed call closes both devices all the same.
handle_call_create ==
    /\ HttpUsed
    /\ \/ /\ cam' = IF sess THEN camera_close(cam) ELSE cam
          /\ speaker' = (speaker /\ ~sess)
          /\ sess' = FALSE
       \/ /\ cam' = Closed
          /\ speaker' = FALSE
          /\ sess' = FALSE
       \/ /\ sess \/ ~cam.opened
          /\ cam' = Opened
          /\ speaker' \in BOOLEAN
          /\ speaker /\ ~sess => speaker'
          /\ sess' = TRUE
    /\ UNCHANGED <<clientVars, timers, camflag, count, up, sync>>

\* DELETE /api/call.
handle_call_delete ==
    /\ sess
    /\ cam' = camera_close(cam)
    /\ speaker' = FALSE
    /\ sess' = FALSE
    /\ UNCHANGED <<clientVars, timers, camflag, count, up, sync>>

\* The session's own video timer takes a frame that no RTSP client gets.
session_video_timer ==
    /\ sess
    /\ camera_get_frame(cam, {}, count)
    /\ UNCHANGED <<clientVars, timers, camflag, speaker, sess, up>>
----------------------------------------------------------------------------
\* The clean-up in main: all clients go, and the camera if the server thinks it
\* opened it.  A call session is not ended: main's own g_session is never set.
rtsp_server_close ==
    /\ st' = [c \in Client |-> "none"]
    /\ tracks' = [c \in Client |-> {}]
    /\ aflag' = [c \in Client |-> FALSE]
    /\ tmr' = [c \in Client |-> FALSE]
    /\ gone' = [c \in Client |-> FALSE]
    /\ sync' = [c \in Client |-> FALSE]
    /\ timers' = FALSE
    /\ camflag' = FALSE
    /\ cam' = IF camflag THEN camera_close(cam) ELSE cam
    /\ speaker' = (speaker /\ \A c \in Client : ~aflag[c])
    /\ up' = FALSE
    /\ UNCHANGED <<count, sess>>

Exited == ~up /\ UNCHANGED vars

ClientStep(c) ==
    \/ rtsp_conn_handler(c)
    \/ PeerVanishes(c)
    \/ rtsp_close_handler(c)
    \/ session_timeout_handler(c)
    \/ BufferOverflow(c)
    \/ handle_describe(c)
    \/ \E t \in Track : handle_setup(c, t)
    \/ handle_play(c)
    \/ handle_teardown(c)

DeviceStep ==
    \/ video_send_timer
    \/ handle_call_create
    \/ handle_call_delete
    \/ session_video_timer
    \/ rtsp_server_close

Next ==
    \/ up /\ \E c \in Client : ClientStep(c)
    \/ up /\ DeviceStep
    \/ Exited

Spec == Init /\ [][Next]_vars

\* A timer of the event loop that is armed fires: the inactivity timer of a
\* client that sends nothing any more is not set back.  The encoder does not
\* skip frames for ever, and the process keeps running.
Encodes == up /\ video_send_timer /\ count' # count
FairSpec ==
    /\ Spec
    /\ \A c \in Client : WF_vars(up /\ gone[c] /\ session_timeout_handler(c))
    /\ WF_vars(Encodes)
----------------------------------------------------------------------------
CameraState == [opened : BOOLEAN, fresh : BOOLEAN, force : BOOLEAN]

\* Type invariant; a client's inactivity timer is armed just as long as the
\* client exists, and one that is not connected holds nothing.
TypeOK ==
    /\ st \in [Client -> {"none", "IDLE", "READY", "PLAYING"}]
    /\ tracks \in [Client -> SUBSET Track]
    /\ aflag \in [Client -> BOOLEAN]
    /\ tmr \in [Client -> BOOLEAN]
    /\ gone \in [Client -> BOOLEAN]
    /\ sync \in [Client -> BOOLEAN]
    /\ timers \in BOOLEAN
    /\ camflag \in BOOLEAN
    /\ count \in 0..IDR_FRAMES
    /\ cam \in CameraState
    /\ speaker \in BOOLEAN
    /\ sess \in BOOLEAN
    /\ up \in BOOLEAN
    /\ \A c \in Client :
          /\ tmr[c] <=> st[c] # "none"
          /\ st[c] = "none" => tracks[c] = {} /\ ~aflag[c] /\ ~gone[c]

\* While a client plays the media timers are armed, whoever else comes, leaves
\* or times out, unless camera_open can fail (rtsp_server.c:166-213).
PlayingHasTimers == ~CameraMayFail /\ Playing # {} => timers

\* An open camera or loudspeaker always has somebody who will close it: the
\* server through camera_opened, a client through audio_out_opened, or the
\* call session.  So without a call nothing stays open when the program ends.
DevicesHaveOwners ==
    /\ cam.opened => camflag \/ sess
    /\ speaker => sess \/ \E c \in Client : aflag[c]

\* A client that alone uses the device can decode each frame it is sent: its
\* first one is a keyframe (rtsp_server.c:785) and it misses none after that.
Decodable ==
    \A c \in Playing : timers /\ cam.opened /\ "video" \in tracks[c] => sync[c]

\* A playing client whose talk-back track opened the loudspeaker still has it
\* ("Open audio output for backchannel playback", rtsp_server.c:815).
TalkersAreHeard == \A c \in Playing : aflag[c] => speaker

\* What a client that has the device to itself gets: frames it can decode and
\* a loudspeaker that stays open, also when the camera fails at times.
ClientIsServed == Decodable /\ TalkersAreHeard

\* A client that vanished without closing its connection is released by its
\* inactivity timer (rtsp_server.c:120-132, 1132-1135, 1473-1475).
VanishedAreReleased == \A c \in Client : gone[c] ~> st[c] = "none"

Plays == \E c \in Client : handle_play(c)

Lost(c) == st[c] = "PLAYING" /\ "video" \in tracks[c] /\ ~sync[c]

\* A playing client that lost frames, because they went to another client,
\* gets a keyframe again ("Force IDR every 2 seconds for robustness",
\* rtsp_server.c:1331) once the PLAY requests of others cease, unless a call
\* closes the camera.
LostRecover ==
    <>[][~Plays]_vars => \A c \in Client : Lost(c) ~> ~Lost(c) \/ ~cam.opened

\* camera_opened, which PLAY trusts (rtsp_server.c:168), tells the camera's state
\* however often it fails to open, as long as no HTTP call uses the camera.
FlagTellsTheTruth == ~HttpUsed => (camflag <=> cam.opened)
=============================================================================
