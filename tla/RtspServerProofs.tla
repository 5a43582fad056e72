-------------------------- MODULE RtspServerProofs --------------------------
(***************************************************************************)
(* Proofs about RtspServer for any set of clients.  MediaInv, the          *)
(* conjunction of the invariants of the first theorem, is inductive as it  *)
(* stands.  For a client that is alone, AloneInv adds why the camera is    *)
(* never open without the server's knowledge.                              *)
(*                                                                         *)
(* Then proofs about the server's authentication, RtspAuth, for any users, *)
(* requests and attempts.                                                  *)
(***************************************************************************)
EXTENDS RtspServer, RtspAuth, TLAPS

MediaInv == TypeOK /\ PlayingHasTimers /\ DevicesHaveOwners

\* The parts of TypeOK about the clients, and about the rest.
ClientTypes ==
    /\ st \in [Client -> {"none", "IDLE", "READY", "PLAYING"}]
    /\ tracks \in [Client -> SUBSET Track]
    /\ aflag \in [Client -> BOOLEAN]
    /\ tmr \in [Client -> BOOLEAN]
    /\ gone \in [Client -> BOOLEAN]
    /\ \A c \in Client :
          /\ tmr[c] <=> st[c] # "none"
          /\ st[c] = "none" => tracks[c] = {} /\ ~aflag[c] /\ ~gone[c]

DeviceTypes ==
    /\ sync \in [Client -> BOOLEAN]
    /\ timers \in BOOLEAN
    /\ camflag \in BOOLEAN
    /\ count \in 0..IDR_FRAMES
    /\ cam \in CameraState
    /\ speaker \in BOOLEAN
    /\ sess \in BOOLEAN
    /\ up \in BOOLEAN

\* TypeOK falls into these two parts.
LEMMA TypeParts == TypeOK <=> ClientTypes /\ DeviceTypes
BY ZenonT(60) DEF TypeOK, ClientTypes, DeviceTypes

\* The same in the next state.
LEMMA TypePartsNext == TypeOK' <=> ClientTypes' /\ DeviceTypes'
BY ZenonT(60) DEF TypeOK, ClientTypes, DeviceTypes

\* The frame count stays within its bound when a frame is sent.
LEMMA CountBound ==
    ASSUME count \in 0..IDR_FRAMES
    PROVE  NextCount \in 0..IDR_FRAMES
BY RtspServerAssumption DEF NextCount

\* camera_get_frame keeps the camera open or closed and delivers typed state.
LEMMA FrameTypes ==
    ASSUME NEW k \in CameraState, NEW R, NEW n \in 0..IDR_FRAMES,
           sync \in [Client -> BOOLEAN], count \in 0..IDR_FRAMES,
           camera_get_frame(k, R, n)
    PROVE  /\ cam' \in CameraState
           /\ cam'.opened = k.opened
           /\ sync' \in [Client -> BOOLEAN]
           /\ count' \in 0..IDR_FRAMES
<1>1. cam' \in CameraState /\ cam'.opened = k.opened
  BY ZenonT(60) DEF camera_get_frame, CameraState
<1>2. count' \in 0..IDR_FRAMES
  BY ZenonT(60) DEF camera_get_frame
<1>3. sync' \in [Client -> BOOLEAN]
  <2>1. [c \in Client |-> c \in R] \in [Client -> BOOLEAN]
    OBVIOUS
  <2>2. [c \in Client |-> sync[c] /\ c \in R] \in [Client -> BOOLEAN]
    BY ZenonT(60)
  <2>3. \/ sync' = sync
        \/ sync' = [c \in Client |-> c \in R]
        \/ sync' = [c \in Client |-> sync[c] /\ c \in R]
    BY Zenon DEF camera_get_frame
  <2> QED BY <2>1, <2>2, <2>3, ZenonT(60)
<1> QED BY <1>1, <1>2, <1>3, ZenonT(60)

\* Open, closed and requested cameras are cameras.
LEMMA CameraStates ==
    /\ Closed \in CameraState /\ ~Closed.opened
    /\ Opened \in CameraState /\ Opened.opened
    /\ \A k \in CameraState :
          /\ camera_request_keyframe(k) \in CameraState
          /\ camera_request_keyframe(k).opened = k.opened
          /\ camera_close(k) \in CameraState
          /\ ~camera_close(k).opened
BY ZenonT(60) DEF Closed, Opened, CameraState, camera_request_keyframe, camera_close

\* A freed client leaves typed clients behind and gives the loudspeaker up.
LEMMA DestructorTypes ==
    ASSUME ClientTypes, sync \in [Client -> BOOLEAN], speaker \in BOOLEAN,
           NEW c \in Client, client_destructor(c)
    PROVE  /\ ClientTypes'
           /\ sync' \in [Client -> BOOLEAN]
           /\ speaker' \in BOOLEAN
<1>1. ClientTypes'
  BY ZenonT(60) DEF ClientTypes, client_destructor, Freed
<1>2. sync' \in [Client -> BOOLEAN]
  BY ZenonT(60) DEF client_destructor, Freed
<1>3. speaker' \in BOOLEAN
  BY ZenonT(60) DEF client_destructor
<1> QED BY <1>1, <1>2, <1>3, ZenonT(60)

\* A freed client leaves the owners and the players as they should be, when
\* the timers are treated as in maybe_stop_media or left alone.
LEMMA DestructorKeeps ==
    ASSUME MediaInv, NEW c \in Client, client_destructor(c),
           UNCHANGED <<camflag, cam, sess>>,
           (timers' = timers) \/ maybe_stop_media(c)
    PROVE  PlayingHasTimers' /\ DevicesHaveOwners'
<1>1. PlayingHasTimers'
  BY DEF MediaInv, TypeOK, PlayingHasTimers, Playing, client_destructor, Freed,
         maybe_stop_media
<1>2. DevicesHaveOwners'
  <2>1. cam'.opened => camflag' \/ sess'
    BY ZenonT(60) DEF MediaInv, DevicesHaveOwners
  <2>2. ASSUME speaker', ~sess' PROVE \E d \in Client : aflag'[d]
    <3>1. PICK d \in Client : aflag[d]
      BY <2>2, ZenonT(60) DEF MediaInv, DevicesHaveOwners, client_destructor
    <3>2. d # c
      BY <2>2, <3>1, ZenonT(60) DEF client_destructor
    <3>3. aflag'[d] = aflag[d]
      BY <3>2, ZenonT(60) DEF client_destructor, Freed, MediaInv, TypeOK
    <3> QED BY <3>1, <3>3, ZenonT(60)
  <2> QED BY <2>1, <2>2, ZenonT(60) DEF DevicesHaveOwners
<1> QED BY <1>1, <1>2, ZenonT(60)

\* The type of a state in which no client holds anything.
LEMMA AllFreed ==
    ASSUME st = [c \in Client |-> "none"],
           tracks = [c \in Client |-> {}],
           aflag = [c \in Client |-> FALSE],
           tmr = [c \in Client |-> FALSE],
           gone = [c \in Client |-> FALSE]
    PROVE  ClientTypes
BY ZenonT(60) DEF ClientTypes

\* MediaInv holds initially.
LEMMA MediaInit == Init => MediaInv
<1> SUFFICES ASSUME Init PROVE MediaInv
  BY ZenonT(60)
<1>1. ClientTypes
  BY AllFreed, ZenonT(60) DEF Init
<1>2. DeviceTypes
  <2>1. count \in 0..IDR_FRAMES
    BY RtspServerAssumption DEF Init
  <2>2. cam \in CameraState
    BY CameraStates, ZenonT(60) DEF Init
  <2> QED BY <2>1, <2>2, ZenonT(60) DEF Init, DeviceTypes
<1>3. PlayingHasTimers
  BY ZenonT(60) DEF Init, PlayingHasTimers, Playing
<1>4. DevicesHaveOwners
  BY CameraStates, ZenonT(60) DEF Init, DevicesHaveOwners
<1> QED BY <1>1, <1>2, <1>3, <1>4, TypeParts, ZenonT(60) DEF MediaInv

\* Each step of a client keeps MediaInv.
LEMMA MediaClientStep ==
    ASSUME MediaInv, NEW c \in Client, ClientStep(c)
    PROVE  MediaInv'
<1> USE DEF MediaInv
<1>t. ClientTypes /\ DeviceTypes
  BY TypeParts, ZenonT(60)
<1>1. CASE rtsp_conn_handler(c)
  <2>1. ClientTypes'
    BY <1>1, <1>t, ZenonT(60) DEF rtsp_conn_handler, ClientTypes
  <2>2. DeviceTypes' /\ DevicesHaveOwners'
    BY <1>1, <1>t, ZenonT(60) DEF rtsp_conn_handler, DeviceTypes, DevicesHaveOwners
  <2>3. PlayingHasTimers'
    BY <1>1, <1>t, ZenonT(60) DEF rtsp_conn_handler, PlayingHasTimers, Playing, ClientTypes
  <2> QED BY <2>1, <2>2, <2>3, TypePartsNext, ZenonT(60)
<1>2. CASE PeerVanishes(c)
  <2>1. ClientTypes'
    BY <1>2, <1>t, ZenonT(60) DEF PeerVanishes, ClientTypes
  <2>2. DeviceTypes' /\ DevicesHaveOwners' /\ PlayingHasTimers'
    BY <1>2, <1>t, ZenonT(60) DEF PeerVanishes, DeviceTypes, DevicesHaveOwners,
                      PlayingHasTimers, Playing
  <2> QED BY <2>1, <2>2, TypePartsNext, ZenonT(60)
<1>3. ASSUME client_destructor(c), UNCHANGED <<camflag, cam, sess, up>>,
             UNCHANGED <<timers, count>> \/ maybe_stop_media(c)
      PROVE  MediaInv'
  <2>1. /\ ClientTypes'
        /\ sync' \in [Client -> BOOLEAN]
        /\ speaker' \in BOOLEAN
    BY <1>3, <1>t, DestructorTypes, ZenonT(60) DEF DeviceTypes
  <2>2. timers' \in BOOLEAN
    BY <1>3, <1>t, ZenonT(60) DEF maybe_stop_media, DeviceTypes
  <2>3. count' \in 0..IDR_FRAMES
    BY <1>3, <1>t, RtspServerAssumption DEF maybe_stop_media, DeviceTypes
  <2>4. DeviceTypes'
    BY <1>3, <1>t, <2>1, <2>2, <2>3, ZenonT(60) DEF DeviceTypes
  <2>5. PlayingHasTimers' /\ DevicesHaveOwners'
    BY <1>3, DestructorKeeps, ZenonT(60)
  <2> QED BY <2>1, <2>4, <2>5, TypePartsNext, ZenonT(60)
<1>4. CASE \/ rtsp_close_handler(c) \/ session_timeout_handler(c)
           \/ BufferOverflow(c) \/ handle_teardown(c)
  BY <1>3, <1>4, ZenonT(60) DEF rtsp_close_handler, session_timeout_handler, Leave,
                    BufferOverflow, handle_teardown
<1>5. CASE handle_describe(c)
  <2>1. ClientTypes' /\ PlayingHasTimers'
    BY <1>5, <1>t, ZenonT(60) DEF handle_describe, clientVars, ClientTypes, PlayingHasTimers,
                      Playing
  <2>2. /\ cam' \in CameraState
        /\ cam'.opened => camflag' \/ sess
    <3> DEFINE k == IF cam.opened THEN cam ELSE Opened
    <3>1. \/ /\ cam' = [k EXCEPT !.fresh = FALSE, !.force = FALSE]
             /\ camflag' = (camflag \/ ~cam.opened)
          \/ cam' = Closed
      BY <1>5, ZenonT(60) DEF handle_describe
    <3>2. k \in CameraState
      BY <1>t, CameraStates, ZenonT(60) DEF DeviceTypes
    <3>3. ASSUME cam' = [k EXCEPT !.fresh = FALSE, !.force = FALSE],
                 camflag' = (camflag \/ ~cam.opened)
          PROVE  cam' \in CameraState /\ (cam'.opened => camflag' \/ sess)
      <4>1. cam' \in CameraState
        BY <3>2, <3>3, ZenonT(60) DEF CameraState
      <4>2. camflag' \/ sess
        BY <3>3, ZenonT(60) DEF DevicesHaveOwners
      <4> QED BY <4>1, <4>2, ZenonT(60)
    <3> QED BY <3>1, <3>3, CameraStates, ZenonT(60)
  <2>3. sync' \in [Client -> BOOLEAN]
    BY <1>5, <1>t, ZenonT(60) DEF handle_describe, DeviceTypes
  <2>4. camflag' \in BOOLEAN
    BY <1>5, <1>t, ZenonT(60) DEF handle_describe, DeviceTypes
  <2>5. DeviceTypes'
    BY <1>5, <1>t, <2>2, <2>3, <2>4, ZenonT(60) DEF handle_describe, DeviceTypes
  <2>6. DevicesHaveOwners'
    BY <1>5, <2>2, ZenonT(60) DEF handle_describe, clientVars, DevicesHaveOwners
  <2> QED BY <2>1, <2>5, <2>6, TypePartsNext, ZenonT(60)
<1>6. ASSUME NEW t \in Track, handle_setup(c, t) PROVE MediaInv'
  <2>1. ClientTypes'
    BY <1>6, <1>t, ZenonT(60) DEF handle_setup, Request, ClientTypes
  <2>2. DeviceTypes' /\ DevicesHaveOwners'
    BY <1>6, <1>t, ZenonT(60) DEF handle_setup, DeviceTypes, DevicesHaveOwners
  <2>3. PlayingHasTimers'
    BY <1>6, <1>t, ZenonT(60) DEF handle_setup, PlayingHasTimers, Playing, ClientTypes
  <2> QED BY <2>1, <2>2, <2>3, TypePartsNext, ZenonT(60)
<1>7. CASE handle_play(c)
  <2>1. ClientTypes'
    BY <1>7, <1>t DEF handle_play, Request, OpenSpeaker, ClientTypes
  <2>2. speaker' \in BOOLEAN /\ (speaker' => sess' \/ \E d \in Client : aflag'[d])
    BY <1>7, <1>t, ZenonT(60) DEF handle_play, OpenSpeaker, ClientTypes, DeviceTypes,
                      DevicesHaveOwners
  <2>3. \/ /\ MediaEnsured
           /\ camera_get_frame(camera_request_keyframe(CameraEnsured), {c}, NextCount)
        \/ /\ CameraMayFail
           /\ UNCHANGED <<timers, camflag>>
           /\ camera_get_frame(camera_request_keyframe(Closed), {c}, NextCount)
    BY <1>7, ZenonT(60) DEF handle_play
  <2>4. CameraEnsured \in CameraState
    BY <1>t, CameraStates, ZenonT(60) DEF CameraEnsured, DeviceTypes
  <2>5. NextCount \in 0..IDR_FRAMES
    BY <1>t, CountBound, ZenonT(60) DEF DeviceTypes
  <2>6. /\ cam' \in CameraState
        /\ cam'.opened => camflag'
        /\ sync' \in [Client -> BOOLEAN]
        /\ count' \in 0..IDR_FRAMES
    BY <1>t, <2>3, <2>4, <2>5, CameraStates, FrameTypes, ZenonT(60)
       DEF MediaEnsured, DeviceTypes
  <2>7. DeviceTypes'
    BY <1>7, <1>t, <2>2, <2>3, <2>6, ZenonT(60) DEF DeviceTypes, handle_play, MediaEnsured
  <2>8. PlayingHasTimers'
    BY <2>3, ZenonT(60) DEF PlayingHasTimers, MediaEnsured
  <2>9. DevicesHaveOwners'
    BY <2>2, <2>6, ZenonT(60) DEF DevicesHaveOwners
  <2> QED BY <2>1, <2>7, <2>8, <2>9, TypePartsNext, ZenonT(60)
<1> QED BY <1>1, <1>2, <1>4, <1>5, <1>6, <1>7, ZenonT(60) DEF ClientStep

\* Each step of the timers, of the HTTP server and of main keeps MediaInv.
LEMMA MediaDeviceStep ==
    ASSUME MediaInv, DeviceStep
    PROVE  MediaInv'
<1> USE DEF MediaInv
<1>t. ClientTypes /\ DeviceTypes
  BY TypeParts, ZenonT(60)
<1>1. ASSUME NEW k \in CameraState, NEW R, NEW n \in 0..IDR_FRAMES,
             k.opened = cam.opened, camera_get_frame(k, R, n),
             UNCHANGED <<clientVars, timers, camflag, speaker, sess, up>>
      PROVE  MediaInv'
  <2>1. ClientTypes' /\ PlayingHasTimers'
    BY <1>1, <1>t, ZenonT(60) DEF clientVars, ClientTypes, PlayingHasTimers, Playing
  <2>2. /\ cam' \in CameraState
        /\ cam'.opened = cam.opened
        /\ sync' \in [Client -> BOOLEAN]
        /\ count' \in 0..IDR_FRAMES
    BY <1>1, <1>t, FrameTypes, ZenonT(60) DEF DeviceTypes
  <2>3. DeviceTypes' /\ DevicesHaveOwners'
    BY <1>1, <1>t, <2>2, ZenonT(60) DEF DeviceTypes, DevicesHaveOwners, clientVars
  <2> QED BY <2>1, <2>3, TypePartsNext, ZenonT(60)
<1>2. CASE video_send_timer
  <2> DEFINE k == IF KeyframeDue THEN camera_request_keyframe(cam) ELSE cam
  <2>1. k \in CameraState /\ k.opened = cam.opened
    BY <1>t, CameraStates, ZenonT(60) DEF DeviceTypes
  <2>2. NextCount \in 0..IDR_FRAMES
    BY <1>t, CountBound, ZenonT(60) DEF DeviceTypes
  <2>3. camera_get_frame(k, {c \in Playing : "video" \in tracks[c]}, NextCount)
    BY <1>2, ZenonT(60) DEF video_send_timer
  <2> HIDE DEF k
  <2> QED BY <1>1, <1>2, <2>1, <2>2, <2>3, ZenonT(60) DEF video_send_timer
<1>3. CASE session_video_timer
  BY <1>1, <1>3, <1>t, ZenonT(60) DEF session_video_timer, DeviceTypes
<1>4. CASE handle_call_create \/ handle_call_delete
  <2>1. ClientTypes' /\ PlayingHasTimers'
    BY <1>4, <1>t DEF handle_call_create, handle_call_delete, clientVars,
                      ClientTypes, PlayingHasTimers, Playing
  <2>2. cam' \in CameraState /\ speaker' \in BOOLEAN /\ sess' \in BOOLEAN
    BY <1>4, <1>t, CameraStates, ZenonT(60) DEF handle_call_create, handle_call_delete, DeviceTypes
  <2>3. DeviceTypes'
    BY <1>4, <1>t, <2>2, ZenonT(60) DEF handle_call_create, handle_call_delete, DeviceTypes
  <2>4. cam'.opened => camflag' \/ sess'
    BY <1>4, <1>t, CameraStates, ZenonT(60)
       DEF handle_call_create, handle_call_delete, DeviceTypes, DevicesHaveOwners
  <2>5. speaker' => sess' \/ \E d \in Client : aflag'[d]
    BY <1>4, <1>t, ZenonT(60) DEF handle_call_create, handle_call_delete, DeviceTypes,
                      DevicesHaveOwners, clientVars
  <2> QED BY <2>1, <2>3, <2>4, <2>5, TypePartsNext, ZenonT(60) DEF DevicesHaveOwners
<1>5. CASE rtsp_server_close
  <2>1. ClientTypes'
    BY <1>5, ZenonT(60) DEF rtsp_server_close, ClientTypes
  <2>2. cam' \in CameraState /\ (cam'.opened => sess')
    BY <1>5, <1>t, CameraStates, ZenonT(60) DEF rtsp_server_close, DeviceTypes, DevicesHaveOwners
  <2>3. speaker' \in BOOLEAN /\ (speaker' => sess')
    BY <1>5, <1>t, ZenonT(60) DEF rtsp_server_close, DeviceTypes, DevicesHaveOwners
  <2>4. DeviceTypes'
    BY <1>5, <1>t, <2>2, <2>3, ZenonT(60) DEF rtsp_server_close, DeviceTypes
  <2>5. PlayingHasTimers'
    BY <1>5, ZenonT(60) DEF rtsp_server_close, PlayingHasTimers, Playing
  <2> QED BY <2>1, <2>2, <2>3, <2>4, <2>5, TypePartsNext, ZenonT(60) DEF DevicesHaveOwners
<1> QED BY <1>2, <1>3, <1>4, <1>5, ZenonT(60) DEF DeviceStep

\* MediaInv is inductive.
LEMMA MediaNext == MediaInv /\ [Next]_vars => MediaInv'
<1> SUFFICES ASSUME MediaInv, [Next]_vars PROVE MediaInv'
  BY ZenonT(60)
<1>1. ASSUME UNCHANGED vars PROVE MediaInv'
  BY <1>1, ZenonT(60) DEF vars, clientVars, MediaInv, TypeOK, PlayingHasTimers, Playing,
              DevicesHaveOwners
<1> QED BY <1>1, MediaClientStep, MediaDeviceStep, ZenonT(60) DEF Next, Exited

\* For any set of clients, with or without HTTP calls: whoever plays has running
\* media timers if the camera opens, and each open device has an owner that
\* will close it (rtsp_server.c:135-213, 1417-1440; session.c:42-51).
THEOREM MediaIsSound == Spec => [](TypeOK /\ PlayingHasTimers /\ DevicesHaveOwners)
<1>1. Spec => []MediaInv
  BY MediaInit, MediaNext, PTL DEF Spec
<1> QED BY <1>1, PTL DEF MediaInv

\* The server's and its clients' state keeps its types.
COROLLARY MediaTypes == Spec => []TypeOK
BY MediaIsSound, PTL

\* With a camera that opens, whoever plays has running timers, for any number
\* of clients that come and go (rtsp_server.c:160-215).
COROLLARY PlayersHaveTimers == Spec => []PlayingHasTimers
BY MediaIsSound, PTL
----------------------------------------------------------------------------
\* What holds when one client has the device to itself: the server's flag tells
\* the camera's state, no opened camera is left without its first frame, and
\* the client's flag tells the loudspeaker's state.
AloneInv ==
    /\ ~sess
    /\ camflag <=> cam.opened
    /\ timers => camflag
    /\ ~cam.fresh
    /\ \A c \in Client : aflag[c] => speaker
    /\ Decodable

Alone == ~HttpUsed /\ \A c, d \in Client : c = d

\* AloneInv holds initially.
LEMMA AloneInit == Init => AloneInv
BY DEF Init, AloneInv, Closed, Decodable, Playing

\* A frame asked for as a keyframe reaches its recipient as one.
LEMMA KeyframeReaches ==
    ASSUME NEW k \in CameraState, NEW c \in Client, NEW n,
           camera_get_frame(camera_request_keyframe(k), {c}, n)
    PROVE  /\ cam'.opened = k.opened
           /\ k.opened => sync'[c] /\ ~cam'.fresh
           /\ ~k.opened => cam'.fresh = k.fresh
BY ZenonT(60) DEF camera_get_frame, camera_request_keyframe, CameraState

\* Each step of the only client keeps AloneInv.
LEMMA AloneClientStep ==
    ASSUME Alone, MediaInv, AloneInv, NEW c \in Client, ClientStep(c)
    PROVE  AloneInv'
<1> USE DEF MediaInv, TypeOK
<1>0. \A d \in Client : d = c
  BY ZenonT(60) DEF Alone
<1>1. CASE rtsp_conn_handler(c) \/ PeerVanishes(c)
  BY <1>1, <1>0, SMTT(60) DEF rtsp_conn_handler, PeerVanishes, AloneInv, Decodable, Playing
<1>2. ASSUME client_destructor(c), UNCHANGED <<camflag, cam, sess>>,
             timers' = timers \/ maybe_stop_media(c)
      PROVE  AloneInv'
  <2>1. Playing' = {} /\ \A d \in Client : ~aflag'[d]
    BY <1>0, <1>2, ZenonT(60) DEF client_destructor, Freed, Playing
  <2>2. timers' => timers
    BY <1>2, ZenonT(60) DEF maybe_stop_media
  <2> QED BY <1>2, <2>1, <2>2, ZenonT(60) DEF AloneInv, Decodable
<1>3. CASE \/ rtsp_close_handler(c) \/ session_timeout_handler(c)
           \/ BufferOverflow(c) \/ handle_teardown(c)
  BY <1>2, <1>3, ZenonT(60) DEF rtsp_close_handler, session_timeout_handler, Leave,
                    BufferOverflow, handle_teardown
<1>4. CASE handle_describe(c)
  <2>1. ~cam.opened /\ ~camflag /\ ~timers
    BY <1>4, ZenonT(60) DEF handle_describe, AloneInv
  <2>2. /\ ~cam'.fresh
        /\ camflag' <=> cam'.opened
    <3>1. \/ /\ cam' = [Opened EXCEPT !.fresh = FALSE, !.force = FALSE]
             /\ camflag' = (camflag \/ ~cam.opened)
          \/ cam' = Closed /\ camflag' = camflag
      BY <1>4, <2>1, ZenonT(60) DEF handle_describe
    <3>2. CASE cam' = Closed /\ camflag' = camflag
      BY <2>1, <3>2, ZenonT(60) DEF Closed
    <3>3. CASE /\ cam' = [Opened EXCEPT !.fresh = FALSE, !.force = FALSE]
               /\ camflag' = (camflag \/ ~cam.opened)
      <4>1. cam'.opened = TRUE /\ cam'.fresh = FALSE
        BY <3>3, ZenonT(60) DEF Opened
      <4> QED BY <2>1, <3>3, <4>1, ZenonT(60)
    <3> QED BY <3>1, <3>2, <3>3, ZenonT(60)
  <2>3. ~timers' /\ UNCHANGED <<aflag, speaker, sess>>
    BY <1>4, <2>1, ZenonT(60) DEF handle_describe, clientVars
  <2> QED BY <2>2, <2>3, ZenonT(60) DEF AloneInv, Decodable
<1>5. ASSUME NEW t \in Track, handle_setup(c, t) PROVE AloneInv'
  BY <1>0, <1>5 DEF handle_setup, AloneInv, Decodable, Playing
<1>6. CASE handle_play(c)
  <2>1. \A d \in Client : aflag'[d] => speaker'
    BY <1>0, <1>6 DEF handle_play, OpenSpeaker, AloneInv
  <2>2. CASE /\ MediaEnsured
             /\ camera_get_frame(camera_request_keyframe(CameraEnsured), {c}, NextCount)
    <3>1. CameraEnsured \in CameraState /\ CameraEnsured.opened
      BY CameraStates, ZenonT(60) DEF CameraEnsured, AloneInv
    <3>2. cam'.opened /\ ~cam'.fresh /\ sync'[c]
      BY <2>2, <3>1, KeyframeReaches, ZenonT(60)
    <3>3. Decodable'
      BY <1>0, <3>2, ZenonT(60) DEF Decodable, Playing
    <3> QED BY <1>6, <2>1, <2>2, <3>2, <3>3, ZenonT(60) DEF AloneInv, handle_play, MediaEnsured
  <2>3. CASE /\ ~camflag
             /\ UNCHANGED <<timers, camflag>>
             /\ camera_get_frame(camera_request_keyframe(Closed), {c}, NextCount)
    <3>1. ~cam'.opened /\ ~cam'.fresh
      BY <2>3, CameraStates, KeyframeReaches, SMTT(60) DEF Closed
    <3> QED BY <1>6, <2>1, <2>3, <3>1, ZenonT(60) DEF AloneInv, handle_play, Decodable
  <2> QED BY <1>6, <2>2, <2>3, ZenonT(60) DEF handle_play
<1> QED BY <1>1, <1>3, <1>4, <1>5, <1>6, ZenonT(60) DEF ClientStep

\* So does each other step; HTTP calls do not occur.
LEMMA AloneDeviceStep ==
    ASSUME Alone, MediaInv, AloneInv, DeviceStep
    PROVE  AloneInv'
<1> USE DEF MediaInv, TypeOK
<1>1. CASE video_send_timer
  <2> DEFINE k == IF KeyframeDue THEN camera_request_keyframe(cam) ELSE cam
             R == {c \in Playing : "video" \in tracks[c]}
  <2>1. k \in CameraState /\ k.opened = cam.opened /\ k.fresh = cam.fresh
    BY ZenonT(60) DEF camera_request_keyframe, CameraState
  <2>2. camera_get_frame(k, R, NextCount)
    BY <1>1, ZenonT(60) DEF video_send_timer
  <2>3. UNCHANGED <<st, tracks, aflag, timers, camflag, speaker, sess>>
    BY <1>1, ZenonT(60) DEF video_send_timer, clientVars
  <2>4. cam'.opened = cam.opened /\ ~cam'.fresh
    <3> HIDE DEF k
    <3> QED BY <2>1, <2>2, ZenonT(60) DEF camera_get_frame, CameraState, AloneInv
  <2>5. \A c \in R : sync[c] => sync'[c]
    <3> HIDE DEF k
    <3>1. \/ sync' = sync
          \/ sync' = [c \in Client |-> c \in R]
          \/ sync' = [c \in Client |-> sync[c] /\ c \in R]
      BY <2>2, Zenon DEF camera_get_frame
    <3> QED BY <3>1 DEF Playing
  <2>6. Decodable'
    BY <2>3, <2>4, <2>5, ZenonT(60) DEF Decodable, Playing, AloneInv
  <2> QED BY <2>3, <2>4, <2>6, ZenonT(60) DEF AloneInv
<1>2. ~handle_call_create /\ ~handle_call_delete /\ ~session_video_timer
  BY ZenonT(60) DEF handle_call_create, handle_call_delete, session_video_timer, Alone, AloneInv
<1>3. CASE rtsp_server_close
  <2>1. ~cam'.opened /\ ~cam'.fresh
    BY <1>3, CameraStates, ZenonT(60) DEF rtsp_server_close, camera_close, Closed, AloneInv
  <2>2. Decodable'
    BY <2>1, ZenonT(60) DEF Decodable
  <2> QED BY <1>3, <2>1, <2>2, ZenonT(60) DEF rtsp_server_close, AloneInv
<1> QED BY <1>1, <1>2, <1>3, ZenonT(60) DEF DeviceStep

\* A client that has the device to itself, whatever it requests and whether or
\* not the camera opens, is only sent frames it can decode, and its talk-back
\* loudspeaker stays open (rtsp_server.c:768-850, 1317-1369).
THEOREM SoleClientIsServed ==
    ASSUME Alone
    PROVE  Spec => []ClientIsServed
<1>1. MediaInv /\ AloneInv /\ [Next]_vars => AloneInv'
  <2> SUFFICES ASSUME MediaInv, AloneInv, [Next]_vars PROVE AloneInv'
    BY ZenonT(60)
  <2>1. ASSUME UNCHANGED vars PROVE AloneInv'
    BY <2>1, ZenonT(60) DEF vars, clientVars, AloneInv, Decodable, Playing
  <2> QED BY <2>1, AloneClientStep, AloneDeviceStep, ZenonT(60) DEF Next, Exited
<1>2. AloneInv => ClientIsServed
  BY ZenonT(60) DEF AloneInv, ClientIsServed, TalkersAreHeard, Playing
<1>3. Spec => []MediaInv
  BY MediaInit, MediaNext, PTL DEF Spec
<1> QED BY AloneInit, <1>1, <1>2, <1>3, PTL DEF Spec

----------------------------------------------------------------------------
\* Without HTTP calls there is no call session, and the flag is the truth.
FlagInv == ~HttpUsed => ~sess /\ (camflag <=> cam.opened)

\* A client's step keeps FlagInv: whoever opens the camera sets the flag, and
\* nobody closes it.
LEMMA FlagClientStep ==
    ASSUME MediaInv, FlagInv, NEW c \in Client, ClientStep(c)
    PROVE  FlagInv'
<1> USE DEF MediaInv, TypeOK
<1>1. CASE handle_describe(c)
  <2>1. sess' = sess
    BY <1>1, ZenonT(60) DEF handle_describe
  <2>2. \/ cam' = Closed /\ camflag' = camflag /\ ~cam.opened
        \/ cam'.opened = TRUE /\ camflag' = (camflag \/ ~cam.opened)
    BY <1>1, ZenonT(60) DEF handle_describe, Opened, CameraState
  <2>3. CASE cam' = Closed /\ camflag' = camflag /\ ~cam.opened
    BY <2>1, <2>3, CameraStates, ZenonT(60) DEF FlagInv
  <2>4. CASE cam'.opened = TRUE /\ camflag' = (camflag \/ ~cam.opened)
    <3>1. FlagInv /\ ~HttpUsed => camflag'
      BY <2>4, ZenonT(60) DEF FlagInv
    <3> QED BY <2>1, <2>4, <3>1, ZenonT(60) DEF FlagInv
  <2> QED BY <2>2, <2>3, <2>4, ZenonT(60)
<1>2. CASE handle_play(c)
  <2>1. sess' = sess
    BY <1>2, ZenonT(60) DEF handle_play
  <2>2. CASE /\ MediaEnsured
             /\ camera_get_frame(camera_request_keyframe(CameraEnsured), {c}, NextCount)
    <3>1. CameraEnsured \in CameraState /\ (FlagInv /\ ~HttpUsed => CameraEnsured.opened)
      BY CameraStates, ZenonT(60) DEF CameraEnsured, FlagInv
    <3>2. cam'.opened = CameraEnsured.opened
      BY <2>2, <3>1, CameraStates, CountBound, FrameTypes, ZenonT(60)
    <3> QED BY <2>1, <2>2, <3>1, <3>2, ZenonT(60) DEF FlagInv, MediaEnsured
  <2>3. CASE /\ ~camflag
             /\ UNCHANGED <<timers, camflag>>
             /\ camera_get_frame(camera_request_keyframe(Closed), {c}, NextCount)
    <3>1. ~cam'.opened
      BY <2>3, CameraStates, CountBound, FrameTypes, SMTT(60)
    <3> QED BY <2>1, <2>3, <3>1, ZenonT(60) DEF FlagInv
  <2> QED BY <1>2, <2>2, <2>3, ZenonT(60) DEF handle_play
<1>3. ASSUME UNCHANGED <<camflag, cam, sess>> PROVE FlagInv'
  BY <1>3, ZenonT(60) DEF FlagInv
<1>4. \/ handle_describe(c) \/ handle_play(c)
      \/ UNCHANGED <<camflag, cam, sess>>
  BY ZenonT(60) DEF ClientStep, rtsp_conn_handler, PeerVanishes, rtsp_close_handler,
         session_timeout_handler, Leave, BufferOverflow, handle_setup, handle_teardown
<1> QED BY <1>1, <1>2, <1>3, <1>4, ZenonT(60)

\* So does each other step.
LEMMA FlagDeviceStep ==
    ASSUME MediaInv, FlagInv, DeviceStep
    PROVE  FlagInv'
<1> USE DEF MediaInv, TypeOK
<1> SUFFICES ASSUME ~HttpUsed PROVE ~sess' /\ (camflag' <=> cam'.opened)
  BY ZenonT(60) DEF FlagInv
<1>1. CASE video_send_timer
  <2> DEFINE k == IF KeyframeDue THEN camera_request_keyframe(cam) ELSE cam
             R == {c \in Playing : "video" \in tracks[c]}
  <2>1. k \in CameraState /\ k.opened = cam.opened
    BY CameraStates, ZenonT(60)
  <2>2. camera_get_frame(k, R, NextCount)
    BY <1>1, ZenonT(60) DEF video_send_timer
  <2>3. cam'.opened = cam.opened
    <3> HIDE DEF k, R
    <3> QED BY <2>1, <2>2, CountBound, FrameTypes, ZenonT(60)
  <2> QED BY <1>1, <2>3, ZenonT(60) DEF video_send_timer, FlagInv
<1>2. ~handle_call_create /\ ~handle_call_delete /\ ~session_video_timer
  BY ZenonT(60) DEF handle_call_create, handle_call_delete, session_video_timer, FlagInv
<1>3. CASE rtsp_server_close
  BY <1>3, CameraStates, ZenonT(60) DEF rtsp_server_close, FlagInv
<1> QED BY <1>1, <1>2, <1>3, ZenonT(60) DEF DeviceStep

\* Without HTTP calls the server's flag tells whether the camera is open, for
\* any number of clients and however often the camera fails (rtsp_server.c:168).
THEOREM FlagIsTrue == Spec => []FlagTellsTheTruth
<1>1. Init => FlagInv
  BY DEF Init, FlagInv, Closed
<1>2. MediaInv /\ FlagInv /\ [Next]_vars => FlagInv'
  <2> SUFFICES ASSUME MediaInv, FlagInv, [Next]_vars PROVE FlagInv'
    BY ZenonT(60)
  <2>1. CASE UNCHANGED vars
    BY <2>1, ZenonT(60) DEF vars, FlagInv
  <2> QED BY <2>1, FlagClientStep, FlagDeviceStep, ZenonT(60) DEF Next, Exited
<1>3. FlagInv => FlagTellsTheTruth
  BY ZenonT(60) DEF FlagInv, FlagTellsTheTruth
<1>4. Spec => []MediaInv
  BY MediaInit, MediaNext, PTL DEF Spec
<1> QED BY <1>1, <1>2, <1>3, <1>4, PTL DEF Spec
----------------------------------------------------------------------------
(* Authentication.                                                         *)

\* Accepted nonces lie behind the server's nonce, which is why one that was
\* accepted is never accepted again.
Behind == \A i \in DOMAIN accepts : accepts[i] < nonce

NonceInv == AuthTypeOK /\ Behind /\ NonceAcceptedOnce

\* A nonce that grows keeps what clients hold below it.
LEMMA Grows ==
    ASSUME AuthTypeOK, nonce' \in {nonce, nonce + 1}
    PROVE  /\ nonce' \in Nat \ {0}
           /\ 0..nonce \subseteq 0..nonce'
           /\ nonce' \in 0..nonce'
BY DEF AuthTypeOK

\* The log of accepted nonces holds numbers.
LEMMA NonceType ==
    ASSUME NEW s \in Seq(Nat)
    PROVE  \A i \in 1..Len(s) : s[i] \in Nat
OBVIOUS

\* Every step keeps the types.
LEMMA AuthTypeStep ==
    ASSUME AuthTypeOK, NEW c \in User, AuthStep(c)
    PROVE  AuthTypeOK'
<1> USE RtspAuthAssumption DEF AuthTypeOK
<1>1. CASE doConnect(c)
  BY <1>1, SMTT(60) DEF doConnect, Places
<1>2. CASE sendAuthRequest(c)
  BY <1>2, ZenonT(60) DEF sendAuthRequest, sendRequest, Places
<1>3. CASE dispatch_rtsp(c)
  <2>1. nonce' \in {nonce, nonce + 1}
    BY <1>3, ZenonT(60) DEF dispatch_rtsp, NonceAfter
  <2>2. /\ nonce' \in Nat \ {0}
        /\ 0..nonce \subseteq 0..nonce'
        /\ nonce' \in 0..nonce'
    BY <2>1, Grows, ZenonT(60)
  <2>3. known' \in [User -> 0..nonce'] /\ request' \in [User -> 0..nonce']
    BY <1>3, <2>2, ZenonT(60) DEF dispatch_rtsp
  <2>4. reply' \in [User -> 0..nonce']
    <3>1. \E r \in {0, nonce'} : reply' = [reply EXCEPT ![c] = r]
      BY <1>3, ZenonT(60) DEF dispatch_rtsp
    <3>2. 0 \in 0..nonce'
      BY <2>2
    <3> QED BY <2>2, <3>1, <3>2, ZenonT(60)
  <2>5. accepts' \in Seq(Nat)
    <3>1. request[c] \in Nat
      OBVIOUS
    <3> QED BY <1>3, <3>1 DEF dispatch_rtsp
  <2>6. pc' \in [User -> Places]
    BY <1>3, ZenonT(60) DEF dispatch_rtsp, Places
  <2> QED BY <1>3, <2>2, <2>3, <2>4, <2>5, <2>6, ZenonT(60) DEF dispatch_rtsp
<1>4. CASE ReadOk(c)
  <2>1. pc' \in [User -> Places]
    BY <1>4, ZenonT(60) DEF ReadOk, Places
  <2>2. done' \in [User -> 0..REQUESTS]
    <3>1. done[c] \in 0..REQUESTS /\ done[c] < REQUESTS
      BY <1>4, ZenonT(60) DEF ReadOk
    <3>2. done[c] + 1 \in 0..REQUESTS
      BY <3>1, SMTT(60)
    <3> QED BY <1>4, <3>2, ZenonT(60) DEF ReadOk
  <2> QED BY <1>4, <2>1, <2>2, SMTT(60) DEF ReadOk
<1>5. CASE ReadChallenge(c)
  BY <1>5, ZenonT(60) DEF ReadChallenge, Places
<1>6. CASE ReadRefusal(c)
  BY <1>6, ZenonT(60) DEF ReadRefusal, Places
<1>7. CASE ConnectionBreaks(c)
  BY <1>7, ZenonT(60) DEF ConnectionBreaks, Places
<1> QED BY <1>1, <1>2, <1>3, <1>4, <1>5, <1>6, <1>7, ZenonT(60) DEF AuthStep

\* Every step keeps the accepted nonces apart and behind.
LEMMA AcceptStep ==
    ASSUME NonceInv, NEW c \in User, AuthStep(c)
    PROVE  Behind' /\ NonceAcceptedOnce'
<1> USE DEF NonceInv, AuthTypeOK
<1>1. CASE UNCHANGED <<nonce, accepts>>
  BY <1>1, ZenonT(60) DEF Behind, NonceAcceptedOnce
<1>2. CASE dispatch_rtsp(c) /\ ~rtsp_auth_check(c)
  BY <1>1, <1>2, ZenonT(60) DEF dispatch_rtsp, NonceAfter
<1>3. CASE dispatch_rtsp(c) /\ rtsp_auth_check(c)
  <2>1. nonce' = nonce + 1 /\ accepts' = Append(accepts, nonce)
    BY <1>3, ZenonT(60) DEF dispatch_rtsp, rtsp_auth_check, NonceAfter
  <2>2. /\ DOMAIN accepts = 1..Len(accepts) /\ Len(accepts) \in Nat
        /\ DOMAIN accepts' = 1..(Len(accepts) + 1)
        /\ \A i \in 1..Len(accepts) : accepts'[i] = accepts[i]
        /\ accepts'[Len(accepts) + 1] = nonce
    BY <2>1
  <2>3. \A i \in 1..Len(accepts) : accepts[i] \in Nat /\ accepts[i] < nonce
    <3>1. \A i \in 1..Len(accepts) : accepts[i] \in Nat
      BY NonceType, ZenonT(60)
    <3>2. \A i \in 1..Len(accepts) : accepts[i] < nonce
      BY <2>2, ZenonT(60) DEF Behind
    <3> QED BY <3>1, <3>2, ZenonT(60)
  <2>4. Behind'
    BY <2>1, <2>2, <2>3, SMTT(60) DEF Behind
  <2>5. NonceAcceptedOnce'
    <3> SUFFICES ASSUME NEW i \in 1..(Len(accepts) + 1), NEW j \in 1..(Len(accepts) + 1),
                        accepts'[i] = accepts'[j]
                 PROVE  i = j
      BY <2>2, ZenonT(60) DEF NonceAcceptedOnce
    <3>1. CASE i \in 1..Len(accepts) /\ j \in 1..Len(accepts)
      <4>1. accepts[i] = accepts[j] /\ i \in DOMAIN accepts /\ j \in DOMAIN accepts
        BY <2>2, <3>1, ZenonT(60)
      <4> QED BY <4>1, ZenonT(60) DEF NonceAcceptedOnce
    <3>2. CASE i = Len(accepts) + 1 /\ j \in 1..Len(accepts)
      BY <2>2, <2>3, <3>2
    <3>3. CASE j = Len(accepts) + 1 /\ i \in 1..Len(accepts)
      BY <2>2, <2>3, <3>3
    <3> QED BY <2>2, <3>1, <3>2, <3>3, SMTT(60)
  <2> QED BY <2>4, <2>5, ZenonT(60)
<1>4. dispatch_rtsp(c) \/ UNCHANGED <<nonce, accepts>>
  BY ZenonT(60) DEF AuthStep, doConnect, sendAuthRequest, ReadOk, ReadChallenge, ReadRefusal,
         ConnectionBreaks
<1> QED BY <1>1, <1>2, <1>3, <1>4, ZenonT(60)

\* NonceInv is inductive.
LEMMA NonceInductive ==
    /\ AuthInit => NonceInv
    /\ NonceInv /\ [AuthNext]_authVars => NonceInv'
<1>1. AuthInit => NonceInv
  <2> SUFFICES ASSUME AuthInit PROVE NonceInv
    BY ZenonT(60)
  <2>1. accepts = <<>> /\ DOMAIN accepts = {}
    BY DEF AuthInit
  <2>2. AuthTypeOK
    BY RtspAuthAssumption DEF AuthInit, AuthTypeOK, Places
  <2> QED BY <2>1, <2>2, ZenonT(60) DEF NonceInv, Behind, NonceAcceptedOnce
<1>2. NonceInv /\ [AuthNext]_authVars => NonceInv'
  <2> SUFFICES ASSUME NonceInv, [AuthNext]_authVars PROVE NonceInv'
    BY ZenonT(60)
  <2>1. CASE AuthNext
    BY <2>1, AuthTypeStep, AcceptStep, ZenonT(60) DEF AuthNext, NonceInv
  <2>2. CASE UNCHANGED authVars
    BY <2>2, ZenonT(60) DEF authVars, NonceInv, AuthTypeOK, Behind, NonceAcceptedOnce
  <2> QED BY <2>1, <2>2, ZenonT(60)
<1> QED BY <1>1, <1>2, ZenonT(60)

\* Whatever the clients do, no nonce lets two requests pass (rtsp_auth.c:141,
\* 164-165).
THEOREM NoNonceTwice == AuthSpec => [](AuthTypeOK /\ NonceAcceptedOnce)
<1>1. AuthSpec => []NonceInv
  BY NonceInductive, PTL DEF AuthSpec
<1> QED BY <1>1, PTL DEF NonceInv

\* Clients, replies and the log of accepted nonces keep their types.
COROLLARY AuthTypes == AuthSpec => []AuthTypeOK
BY NoNonceTwice, PTL
----------------------------------------------------------------------------
\* While c is the only client with the right credentials, the challenge it was
\* sent is still the server's nonce when it answers.
ChallengeIsCurrent(c) ==
    /\ pc[c] = "answer" => reply[c] \in {0, nonce}
    /\ pc[c] = "retry" => request[c] = nonce
    /\ pc[c] = "retry_answer" => reply[c] = 0
    /\ pc[c] # "failed"

\* ChallengeIsCurrent is inductive together with the types.
LEMMA ChallengeStep ==
    ASSUME NEW c \in User, Valid = {c}, AuthTypeOK, ChallengeIsCurrent(c),
           NEW d \in User, AuthStep(d)
    PROVE  ChallengeIsCurrent(c)'
<1> USE DEF AuthTypeOK
<1>1. CASE d # c
  <2>1. UNCHANGED <<pc[c], reply[c], request[c]>>
    BY <1>1, ZenonT(60) DEF AuthStep, doConnect, sendAuthRequest, sendRequest, dispatch_rtsp,
                ReadOk, ReadChallenge, ReadRefusal, ConnectionBreaks
  <2>2. nonce' = nonce
    BY <1>1, ZenonT(60) DEF AuthStep, doConnect, sendAuthRequest, dispatch_rtsp, NonceAfter,
                rtsp_auth_check, ReadOk, ReadChallenge, ReadRefusal, ConnectionBreaks
  <2> QED BY <2>1, <2>2, ZenonT(60) DEF ChallengeIsCurrent
<1>2. CASE d = c /\ dispatch_rtsp(c)
  BY <1>2, ZenonT(60) DEF dispatch_rtsp, NonceAfter, rtsp_auth_check, ChallengeIsCurrent
<1>3. CASE d = c /\ ~dispatch_rtsp(c)
  BY <1>3 DEF AuthStep, doConnect, sendAuthRequest, sendRequest, ReadOk,
              ReadChallenge, ReadRefusal, ConnectionBreaks, ChallengeIsCurrent
<1> QED BY <1>1, <1>2, <1>3, ZenonT(60)

\* The only client with the right credentials is never refused when it answers
\* a challenge, however many others try (rtsp_auth.c:111-182).
THEOREM SoleUserIsAccepted ==
    ASSUME NEW c \in User, Valid = {c}
    PROVE  AuthSpec => []ChallengeCanBeAnswered
<1>1. AuthInit => ChallengeIsCurrent(c)
  BY ZenonT(60) DEF AuthInit, ChallengeIsCurrent
<1>2. AuthTypeOK /\ ChallengeIsCurrent(c) /\ [AuthNext]_authVars => ChallengeIsCurrent(c)'
  <2> SUFFICES ASSUME AuthTypeOK, ChallengeIsCurrent(c), [AuthNext]_authVars
               PROVE  ChallengeIsCurrent(c)'
    BY ZenonT(60)
  <2>1. CASE AuthNext
    BY <2>1, ChallengeStep, ZenonT(60) DEF AuthNext
  <2>2. CASE UNCHANGED authVars
    BY <2>2, ZenonT(60) DEF authVars, ChallengeIsCurrent
  <2> QED BY <2>1, <2>2, ZenonT(60)
<1>3. ChallengeIsCurrent(c) => ChallengeCanBeAnswered
  BY ZenonT(60) DEF ChallengeIsCurrent, ChallengeCanBeAnswered
<1> QED BY <1>1, <1>2, <1>3, NoNonceTwice, PTL DEF AuthSpec
----------------------------------------------------------------------------
\* Some request has passed with nonce n.
Spent(n) == \E i \in DOMAIN accepts : accepts[i] = n

\* The server gave up each earlier nonce because a request passed with it, and
\* a repeated request carries the nonce of its challenge.
SpentInv ==
    /\ \A n \in 1..(nonce - 1) : Spent(n)
    /\ \A c \in User : pc[c] = "retry" => request[c] # 0
    /\ RefusedOnlyIfUsed

\* What has passed stays so, and the current nonce is added when it is replaced.
LEMMA SpentStays ==
    ASSUME AuthTypeOK, NEW c \in User, AuthStep(c), \A n \in 1..(nonce - 1) : Spent(n)
    PROVE  /\ \A n : Spent(n) => Spent(n)'
           /\ \A n \in 1..(nonce' - 1) : Spent(n)'
<1>1. CASE UNCHANGED <<nonce, accepts>>
  BY <1>1, ZenonT(60) DEF Spent
<1>2. CASE dispatch_rtsp(c) /\ ~rtsp_auth_check(c)
  <2>1. UNCHANGED <<nonce, accepts>>
    BY <1>2, ZenonT(60) DEF dispatch_rtsp, NonceAfter
  <2> QED BY <1>1, <2>1, ZenonT(60)
<1>3. CASE dispatch_rtsp(c) /\ rtsp_auth_check(c)
  <2>1. nonce' = nonce + 1 /\ accepts' = Append(accepts, nonce)
    BY <1>3, ZenonT(60) DEF dispatch_rtsp, rtsp_auth_check, NonceAfter
  <2>2. accepts \in Seq(Nat) /\ nonce \in Nat \ {0}
    BY ZenonT(60) DEF AuthTypeOK
  <2>3. /\ DOMAIN accepts = 1..Len(accepts) /\ Len(accepts) \in Nat
        /\ DOMAIN accepts' = 1..(Len(accepts) + 1)
        /\ \A i \in 1..Len(accepts) : accepts'[i] = accepts[i]
        /\ accepts'[Len(accepts) + 1] = nonce
    BY <2>1, <2>2
  <2>4. \A i \in DOMAIN accepts : i \in DOMAIN accepts' /\ accepts'[i] = accepts[i]
    BY <2>3
  <2>5. \A n : Spent(n) => Spent(n)'
    BY <2>4, ZenonT(60) DEF Spent
  <2>6. PICK m \in Nat \ {0} : m = nonce
    BY <2>2, ZenonT(60)
  <2>7. Spent(m)'
    <3>1. Len(accepts) + 1 \in DOMAIN accepts'
      BY <2>3
    <3>2. \E i \in DOMAIN accepts' : accepts'[i] = m
      BY <2>3, <2>6, <3>1, ZenonT(60)
    <3> QED BY <3>2, ZenonT(60) DEF Spent
  <2>8. \A n \in 1..(nonce' - 1) : n = m \/ n \in 1..(nonce - 1)
    BY <2>1, <2>2, <2>6
  <2> QED BY <2>5, <2>7, <2>8, ZenonT(60)
<1>4. dispatch_rtsp(c) \/ UNCHANGED <<nonce, accepts>>
  BY ZenonT(60) DEF AuthStep, doConnect, sendAuthRequest, ReadOk, ReadChallenge, ReadRefusal,
         ConnectionBreaks
<1> QED BY <1>1, <1>2, <1>3, <1>4, ZenonT(60)

\* A refusal of client c is the only step that can make RefusedOnlyIfUsed false,
\* and then its nonce lies behind the server's.
LEMMA SpentStep ==
    ASSUME AuthTypeOK, SpentInv, NEW c \in User, AuthStep(c)
    PROVE  SpentInv'
<1>1. /\ \A n : Spent(n) => Spent(n)'
      /\ \A n \in 1..(nonce' - 1) : Spent(n)'
  BY SpentStays, ZenonT(60) DEF SpentInv
<1>2. \A d \in User : pc'[d] = "retry" => request'[d] # 0
  <2>1. CASE ReadChallenge(c)
    BY <2>1, ZenonT(60) DEF ReadChallenge, SpentInv, AuthTypeOK
  <2>2. CASE ~ReadChallenge(c)
    BY <2>2, ZenonT(60) DEF AuthStep, doConnect, sendAuthRequest, sendRequest, dispatch_rtsp,
                ReadOk, ReadRefusal, ConnectionBreaks, SpentInv, AuthTypeOK
  <2> QED BY <2>1, <2>2, ZenonT(60)
<1>3. RefusedOnlyIfUsed'
  <2> SUFFICES ASSUME NEW d \in Valid, pc'[d] = "retry_answer", reply'[d] # 0
               PROVE  \E i \in DOMAIN accepts' : accepts'[i] = request'[d]
    BY ZenonT(60) DEF RefusedOnlyIfUsed
  <2>0. d \in User
    BY RtspAuthAssumption, ZenonT(60)
  <2>1. \A n : Spent(n)' <=> \E i \in DOMAIN accepts' : accepts'[i] = n
    BY ZenonT(60) DEF Spent
  <2>2. CASE d = c /\ dispatch_rtsp(c)
    <3>1. pc[d] = "retry" /\ request'[d] = request[d] /\ ~rtsp_auth_check(d)
      BY <2>0, <2>2, ZenonT(60) DEF dispatch_rtsp, AuthTypeOK, Places
    <3>2. request[d] # nonce /\ request[d] # 0 /\ nonce' = nonce
      BY <2>0, <2>2, <3>1, ZenonT(60) DEF rtsp_auth_check, SpentInv, dispatch_rtsp, NonceAfter
    <3>3. request[d] \in 0..nonce /\ nonce \in Nat
      BY <2>0, ZenonT(60) DEF AuthTypeOK
    <3>4. request[d] \in 1..(nonce - 1)
      BY <3>2, <3>3
    <3>5. Spent(request[d])
      BY <3>4, ZenonT(60) DEF SpentInv
    <3> QED BY <1>1, <2>1, <3>1, <3>5, ZenonT(60)
  <2>3. CASE ~(d = c /\ dispatch_rtsp(c))
    <3>1. pc[d] = "retry_answer" /\ reply[d] # 0 /\ request'[d] = request[d]
      BY <2>0, <2>3, ZenonT(60) DEF AuthStep, doConnect, sendAuthRequest, sendRequest, dispatch_rtsp,
                  ReadOk, ReadChallenge, ReadRefusal, ConnectionBreaks, AuthTypeOK
    <3>2. Spent(request[d])
      BY <3>1, ZenonT(60) DEF SpentInv, RefusedOnlyIfUsed, Spent
    <3> QED BY <1>1, <2>1, <3>1, <3>2, ZenonT(60)
  <2> QED BY <2>2, <2>3, ZenonT(60)
<1> QED BY <1>1, <1>2, <1>3, ZenonT(60) DEF SpentInv

\* A client with the right credentials is refused after a challenge only when
\* another request has used the challenge's nonce up (rtsp_auth.c:141, 164-176).
THEOREM RefusalsHaveACause == AuthSpec => []RefusedOnlyIfUsed
<1>1. AuthInit => SpentInv
  BY RtspAuthAssumption DEF AuthInit, SpentInv, RefusedOnlyIfUsed
<1>2. AuthTypeOK /\ SpentInv /\ [AuthNext]_authVars => SpentInv'
  <2> SUFFICES ASSUME AuthTypeOK, SpentInv, [AuthNext]_authVars PROVE SpentInv'
    BY ZenonT(60)
  <2>1. CASE AuthNext
    BY <2>1, SpentStep, ZenonT(60) DEF AuthNext
  <2>2. CASE UNCHANGED authVars
    BY <2>2, ZenonT(60) DEF authVars, SpentInv, RefusedOnlyIfUsed, Spent
  <2> QED BY <2>1, <2>2, ZenonT(60)
<1>3. SpentInv => RefusedOnlyIfUsed
  BY ZenonT(60) DEF SpentInv
<1> QED BY <1>1, <1>2, <1>3, NoNonceTwice, PTL DEF AuthSpec
=============================================================================
