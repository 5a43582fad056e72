--------------------------- MODULE RtspClientLife ---------------------------
(***************************************************************************)
(* The life of one RtspClient object of the Android app                    *)
(* (rtsp/RtspClient.kt, rtsp/RelayConnection.kt): the thread that          *)
(* connects, the threads that read, the threads that reconnect, and the    *)
(* one that disconnects (MainActivity.kt, "Disconnect").                   *)
(*                                                                         *)
(* A thread steps from one access to shared state to the next.  doConnect  *)
(* is synchronized: it holds the object's monitor over its network calls,  *)
(* and writing TEARDOWN needs the monitor too.  Keepalive and talk-back    *)
(* only write to the socket and are left out.                              *)
(***************************************************************************)
EXTENDS Integers, FiniteSets

CONSTANTS
    MaxSocks,               \* bound on the TCP connections made
    MAX_RECONNECT_ATTEMPTS  \* 20

ASSUME RtspClientLifeAssumption ==
    MaxSocks \in Nat \ {0} /\ MAX_RECONNECT_ATTEMPTS \in Nat \ {0}

Sock == 1..MaxSocks
NoSock == 0

\* The connecting, the disconnecting, reading and reconnecting threads.
C == <<"C", 0>>
D == <<"D", 0>>
Readers == {<<"R", s>> : s \in Sock}
Reconnectors == {<<"X", i>> : i \in 1..(MaxSocks + 1)}
Connectors == {C} \cup Reconnectors
Thread == {C, D} \cup Readers \cup Reconnectors
NoThread == <<"none", 0>>

VARIABLES
    relay,       \* the connection goes through the relay
    state,       \* state
    autoReconnect,
    running,
    socket,      \* socket, inputStream and outputStream, or NoSock
    session,     \* sessionId is set
    readThread,
    reconnectThread,
    monitor,     \* the thread in doConnect, or NoThread
    pc,          \* where each thread is; "off" before it starts
    own,         \* the socket a thread works with
    attempt,     \* a reconnecting thread's count
    interrupted,
    conn,        \* our end of a connection: "none", "open", "closed"
    peer,        \* the other end: "alive", "lost", "silent"
    late         \* history: a thread was connecting when disconnect began

objectVars == <<relay, state, autoReconnect, running, socket, session, readThread,
                reconnectThread, monitor>>
threadVars == <<pc, own, attempt, interrupted>>
netVars == <<conn, peer>>
vars == <<objectVars, threadVars, netVars, late>>

\* connect() or connectViaSocketFactory() has just started its thread.
Init ==
    /\ relay \in BOOLEAN
    /\ state = "CONNECTING" /\ autoReconnect = TRUE /\ running = FALSE
    /\ socket = NoSock /\ session = FALSE
    /\ readThread = NoThread /\ reconnectThread = NoThread /\ monitor = NoThread
    /\ pc = [t \in Thread |-> IF t = C THEN (IF relay THEN "dial" ELSE "enter") ELSE "off"]
    /\ own = [t \in Thread |-> NoSock]
    /\ attempt = [t \in Thread |-> 0]
    /\ interrupted = [t \in Thread |-> FALSE]
    /\ conn = [s \in Sock |-> "none"]
    /\ peer = [s \in Sock |-> "alive"]
    /\ late = FALSE

At(t, label) == pc[t] = label
Go(t, label) == pc' = [pc EXCEPT ![t] = label]
----------------------------------------------------------------------------
(* The network.                                                            *)

\* An answer comes while both ends of socket s are up.
Answered(s) == conn[s] = "open" /\ peer[s] = "alive"

\* Mutant of Fails: no connection has a read timeout.
FailsUntimed(s) == conn[s] # "open" \/ peer[s] # "silent"

\* Waiting for one ends in an exception: either side closed, an error status, a
\* timeout.  Only a direct connection has a timeout; silence on a relay socket
\* lasts.
Fails(s) == conn[s] # "open" \/ peer[s] # "silent" \/ ~relay

\* The other end closes, or vanishes without a word.
PeerEnds(s) ==
    /\ conn[s] = "open" /\ peer[s] = "alive"
    /\ \E p \in {"lost", "silent"} : peer' = [peer EXCEPT ![s] = p]
    /\ UNCHANGED <<objectVars, threadVars, conn, late>>

\* A new connection is made with the first number that is free.
NewSocks == {s \in Sock : conn[s] = "none" /\ \A r \in 1..(s - 1) : conn[r] # "none"}
----------------------------------------------------------------------------
(* doConnect, on the connecting or a reconnecting thread t.                *)

\* An exception leaves doConnect or the factory: the connecting thread goes to
\* scheduleReconnect, a reconnecting one cleans up.
Thrown(t) ==
    IF t # C THEN Go(t, "c1") /\ UNCHANGED state
    ELSE IF relay \/ autoReconnect THEN Go(t, "s0") /\ UNCHANGED state
    ELSE Go(t, "done") /\ state' = "ERROR"

\* RelayConnection.connect: the TCP connection to the relay.
Dial(t) ==
    /\ At(t, "dial")
    /\ \/ \E s \in NewSocks :
            /\ conn' = [conn EXCEPT ![s] = "open"]
            /\ own' = [own EXCEPT ![t] = s]
            /\ Go(t, "dialed")
            /\ UNCHANGED state
       \/ Thrown(t) /\ UNCHANGED <<own, conn>>
    /\ UNCHANGED <<relay, autoReconnect, running, socket, session, readThread, reconnectThread,
                   monitor, attempt, interrupted, peer, late>>

\* The relay answers CONNECT; otherwise the socket is closed.
Dialed(t) ==
    /\ At(t, "dialed")
    /\ \/ Answered(own[t]) /\ Go(t, "enter") /\ UNCHANGED <<state, conn>>
       \/ /\ Fails(own[t])
          /\ conn' = [conn EXCEPT ![own[t]] = "closed"]
          /\ Thrown(t)
    /\ UNCHANGED <<relay, autoReconnect, running, socket, session, readThread, reconnectThread,
                   monitor, own, attempt, interrupted, peer, late>>

\* doConnect is entered, and left at once if nobody wants a connection.
Enter(t) ==
    /\ At(t, "enter")
    /\ monitor = NoThread
    /\ \/ /\ state \in {"CONNECTING", "RECONNECTING"}
          /\ monitor' = t /\ Go(t, IF relay THEN "publish" ELSE "connect")
       \/ /\ state \notin {"CONNECTING", "RECONNECTING"}
          /\ Go(t, "done") /\ UNCHANGED monitor
    /\ UNCHANGED <<relay, state, autoReconnect, running, socket, session, readThread,
                   reconnectThread, own, attempt, interrupted, netVars, late>>

\* sock.connect of a direct connection, with its timeout.
Connect(t) ==
    /\ At(t, "connect")
    /\ \/ \E s \in NewSocks :
            /\ conn' = [conn EXCEPT ![s] = "open"]
            /\ own' = [own EXCEPT ![t] = s]
            /\ Go(t, "publish")
            /\ UNCHANGED <<state, monitor>>
       \/ /\ Thrown(t)
          /\ monitor' = NoThread
          /\ UNCHANGED <<own, conn>>
    /\ UNCHANGED <<relay, autoReconnect, running, socket, session, readThread, reconnectThread,
                   attempt, interrupted, peer, late>>

Publish(t) ==
    /\ At(t, "publish")
    /\ socket' = own[t]
    /\ Go(t, "setup")
    /\ UNCHANGED <<relay, state, autoReconnect, running, session, readThread, reconnectThread,
                   monitor, own, attempt, interrupted, netVars, late>>

\* A request and its answer on the way from one label to the next.  The streams
\* are read from the fields, so it also fails if another thread cleared them.
Exchange(t, from, to, next) ==
    /\ At(t, from)
    /\ \/ /\ Answered(own[t]) /\ socket = own[t]
          /\ Go(t, to)
          /\ state' = next
          /\ session' = TRUE
          /\ UNCHANGED monitor
       \/ /\ Fails(own[t]) \/ socket # own[t]
          /\ Thrown(t)
          /\ monitor' = NoThread
          /\ UNCHANGED session
    /\ UNCHANGED <<relay, autoReconnect, running, socket, readThread, reconnectThread, own,
                   attempt, interrupted, netVars, late>>

\* OPTIONS, DESCRIBE and the first SETUP, which brings the session.
SetupVideo(t) == Exchange(t, "setup", "setup2", state)

\* Mutant of SetupAudio: CONNECTED is left out.
SetupAudioPlays(t) == Exchange(t, "setup2", "play", "PLAYING")

\* The other SETUPs.
SetupAudio(t) == Exchange(t, "setup2", "play", "CONNECTED")

Play(t) == Exchange(t, "play", "start", "PLAYING")

\* The read thread is started and the monitor released.
StartReading(t) ==
    /\ At(t, "start")
    /\ running' = TRUE
    /\ readThread' = <<"R", own[t]>>
    /\ pc' = [pc EXCEPT ![t] = "done", ![<<"R", own[t]>>] = "begin"]
    /\ monitor' = NoThread
    /\ UNCHANGED <<relay, state, autoReconnect, socket, session, reconnectThread, own, attempt,
                   interrupted, netVars, late>>

doConnect(t) ==
    \/ Dial(t) \/ Dialed(t) \/ Enter(t) \/ Connect(t) \/ Publish(t)
    \/ SetupVideo(t) \/ SetupAudio(t) \/ Play(t) \/ StartReading(t)
----------------------------------------------------------------------------
(* internalCleanup, on any thread.                                         *)

\* running.set(false), then TEARDOWN if the thread disconnects.
StopRunning(t) ==
    /\ At(t, "c1")
    /\ running' = FALSE
    /\ Go(t, IF t = D THEN "teardown" ELSE "close")
    /\ UNCHANGED <<relay, state, autoReconnect, socket, session, readThread, reconnectThread,
                   monitor, own, attempt, interrupted, netVars, late>>

\* With a session and an open socket TEARDOWN is to be written.
Teardown ==
    /\ At(D, "teardown")
    /\ Go(D, IF session /\ socket # NoSock /\ conn[socket] = "open" THEN "write" ELSE "close")
    /\ UNCHANGED <<objectVars, own, attempt, interrupted, netVars, late>>

\* sendRequest waits for the monitor.
WriteTeardown ==
    /\ At(D, "write")
    /\ monitor = NoThread
    /\ Go(D, "close")
    /\ UNCHANGED <<objectVars, own, attempt, interrupted, netVars, late>>

CloseSocket(t) ==
    /\ At(t, "close")
    /\ conn' = [s \in Sock |-> IF s = socket THEN "closed" ELSE conn[s]]
    /\ Go(t, "join")
    /\ UNCHANGED <<objectVars, own, attempt, interrupted, peer, late>>

\* Where a thread waits for another, for the network or for the monitor.
Waiting(t) == pc[t] \in {"join", "join2", "enter", "dial", "dialed", "connect", "setup",
                         "setup2", "play", "read", "write"}

\* A join with a timeout ends with the thread, or with the timeout if that thread
\* waits itself; a thread that joins itself runs into the timeout.
Joinable(t) == t # NoThread => (pc[t] = "done" \/ Waiting(t))

\* readThread.join(5000), if there is one.
JoinReader(t) ==
    /\ At(t, "join")
    /\ Joinable(readThread)
    /\ Go(t, "clear")
    /\ UNCHANGED <<objectVars, own, attempt, interrupted, netVars, late>>

\* Mutant of ClearFields: readThread is kept.
ClearAllButReader(t) ==
    /\ At(t, "clear")
    /\ socket' = NoSock
    /\ session' = FALSE
    /\ Go(t, IF t = D THEN "d3" ELSE IF t \in Reconnectors THEN "failed" ELSE "s2")
    /\ UNCHANGED <<relay, state, autoReconnect, running, readThread, reconnectThread, monitor,
                   own, attempt, interrupted, netVars, late>>

\* The fields are cleared; what follows depends on the caller.
ClearFields(t) ==
    /\ At(t, "clear")
    /\ readThread' = NoThread
    /\ socket' = NoSock
    /\ session' = FALSE
    /\ Go(t, IF t = D THEN "d3" ELSE IF t \in Reconnectors THEN "failed" ELSE "s2")
    /\ UNCHANGED <<relay, state, autoReconnect, running, reconnectThread, monitor, own, attempt,
                   interrupted, netVars, late>>

internalCleanup(t) ==
    \/ StopRunning(t) \/ CloseSocket(t) \/ JoinReader(t) \/ ClearFields(t)
    \/ t = D /\ (Teardown \/ WriteTeardown)
----------------------------------------------------------------------------
(* readLoop on thread t.                                                   *)

\* The streams of the moment are taken; without them the thread ends.
BeginReading(t) ==
    /\ At(t, "begin")
    /\ own' = [own EXCEPT ![t] = socket]
    /\ Go(t, IF socket = NoSock THEN "done" ELSE "read")
    /\ UNCHANGED <<objectVars, attempt, interrupted, netVars, late>>

\* The loop ends with running, with the connection, or after 30 s of silence.
ReadingEnds(t) ==
    /\ At(t, "read")
    /\ ~running \/ conn[own[t]] # "open" \/ peer[own[t]] # "alive"
    /\ Go(t, "ended")
    /\ UNCHANGED <<objectVars, own, attempt, interrupted, netVars, late>>

\* Whoever finds running set deals with the loss.
AfterReading(t) ==
    /\ At(t, "ended")
    /\ running' = FALSE
    /\ \/ ~running /\ Go(t, "done") /\ UNCHANGED state
       \/ running /\ autoReconnect /\ Go(t, "s0") /\ UNCHANGED state
       \/ running /\ ~autoReconnect /\ Go(t, "done") /\ state' = "ERROR"
    /\ UNCHANGED <<relay, autoReconnect, socket, session, readThread, reconnectThread,
                   monitor, own, attempt, interrupted, netVars, late>>

readLoop(t) == BeginReading(t) \/ ReadingEnds(t) \/ AfterReading(t)
----------------------------------------------------------------------------
(* scheduleReconnect, on the connecting or a read thread t.                *)

BeginReconnect(t) ==
    /\ At(t, "s0")
    /\ Go(t, IF autoReconnect THEN "c1" ELSE "done")
    /\ UNCHANGED <<objectVars, own, attempt, interrupted, netVars, late>>

\* After internalCleanup: the state, and the end of an earlier thread.
Reconnecting(t) ==
    /\ At(t, "s2")
    /\ state' = "RECONNECTING"
    /\ interrupted' = [x \in Thread |-> interrupted[x] \/ x = reconnectThread]
    /\ Go(t, "join2")
    /\ UNCHANGED <<relay, autoReconnect, running, socket, session, readThread, reconnectThread,
                   monitor, own, attempt, netVars, late>>

JoinReconnector(t) ==
    /\ At(t, "join2")
    /\ Joinable(reconnectThread)
    /\ Go(t, "s4")
    /\ UNCHANGED <<objectVars, own, attempt, interrupted, netVars, late>>

\* The reconnecting threads not started yet, in order.
NewReconnectors ==
    {<<"X", i>> : i \in {j \in 1..(MaxSocks + 1) :
        pc[<<"X", j>>] = "off" /\ \A k \in 1..(j - 1) : pc[<<"X", k>>] # "off"}}

StartReconnector(t) ==
    /\ At(t, "s4")
    /\ \E x \in NewReconnectors :
         /\ reconnectThread' = x
         /\ pc' = [pc EXCEPT ![t] = "done", ![x] = "loop"]
    /\ UNCHANGED <<relay, state, autoReconnect, running, socket, session, readThread, monitor,
                   own, attempt, interrupted, netVars, late>>

scheduleReconnect(t) ==
    BeginReconnect(t) \/ Reconnecting(t) \/ JoinReconnector(t) \/ StartReconnector(t)
----------------------------------------------------------------------------
(* The reconnecting thread t.                                              *)

\* Mutant of Loop: the attempts are not counted.
LoopForever(t) ==
    /\ At(t, "loop")
    /\ Go(t, IF autoReconnect THEN "sleep" ELSE "done")
    /\ UNCHANGED <<objectVars, own, attempt, interrupted, netVars, late>>

\* Another attempt, or the end after the last one, which the user is told of.
Loop(t) ==
    /\ At(t, "loop")
    /\ \/ /\ autoReconnect /\ attempt[t] < MAX_RECONNECT_ATTEMPTS
          /\ attempt' = [attempt EXCEPT ![t] = @ + 1]
          /\ Go(t, "sleep")
          /\ UNCHANGED <<autoReconnect, state>>
       \/ /\ autoReconnect /\ attempt[t] >= MAX_RECONNECT_ATTEMPTS
          /\ autoReconnect' = FALSE /\ state' = "ERROR"
          /\ Go(t, "done")
          /\ UNCHANGED attempt
       \/ ~autoReconnect /\ Go(t, "done") /\ UNCHANGED <<autoReconnect, state, attempt>>
    /\ UNCHANGED <<relay, running, socket, session, readThread, reconnectThread, monitor, own,
                   interrupted, netVars, late>>

\* Mutant of Sleep: the flag is not looked at when the sleep is over.
SleepOnly(t) ==
    /\ At(t, "sleep")
    /\ Go(t, IF interrupted[t] THEN "done" ELSE IF relay THEN "dial" ELSE "enter")
    /\ UNCHANGED <<objectVars, own, attempt, interrupted, netVars, late>>

\* The pause; an interrupt or a disconnect ends the thread.
Sleep(t) ==
    /\ At(t, "sleep")
    /\ Go(t, IF interrupted[t] \/ ~autoReconnect THEN "done"
             ELSE IF relay THEN "dial" ELSE "enter")
    /\ UNCHANGED <<objectVars, own, attempt, interrupted, netVars, late>>

\* Mutant of AttemptFailed: a failed attempt schedules a reconnect of its own.
AttemptRescheduled(t) ==
    /\ At(t, "failed")
    /\ state' = IF autoReconnect THEN "RECONNECTING" ELSE state
    /\ \E x \in NewReconnectors :
         /\ reconnectThread' = x
         /\ pc' = [pc EXCEPT ![t] = "loop", ![x] = "loop"]
    /\ UNCHANGED <<relay, autoReconnect, running, socket, session, readThread, monitor, own,
                   attempt, interrupted, netVars, late>>

\* After internalCleanup of a failed attempt.
AttemptFailed(t) ==
    /\ At(t, "failed")
    /\ state' = IF autoReconnect THEN "RECONNECTING" ELSE state
    /\ Go(t, "loop")
    /\ UNCHANGED <<relay, autoReconnect, running, socket, session, readThread, reconnectThread,
                   monitor, own, attempt, interrupted, netVars, late>>

reconnect(t) == Loop(t) \/ Sleep(t) \/ AttemptFailed(t)
----------------------------------------------------------------------------
(* disconnect, once, by the user or after an error was reported.           *)

\* Between the decision to connect and the end of doConnect.
Connecting(t) == pc[t] \in {"dial", "dialed", "enter", "connect", "publish", "setup", "setup2",
                            "play", "start"}

ForbidReconnect ==
    /\ At(D, "off")
    /\ autoReconnect' = FALSE
    /\ late' = \E t \in Connectors : Connecting(t)
    /\ Go(D, "d2")
    /\ UNCHANGED <<relay, state, running, socket, session, readThread, reconnectThread, monitor,
                   own, attempt, interrupted, netVars>>

InterruptReconnector ==
    /\ At(D, "d2")
    /\ interrupted' = [x \in Thread |-> interrupted[x] \/ x = reconnectThread]
    /\ reconnectThread' = NoThread
    /\ Go(D, "c1")
    /\ UNCHANGED <<relay, state, autoReconnect, running, socket, session, readThread, monitor,
                   own, attempt, netVars, late>>

Disconnected ==
    /\ At(D, "d3")
    /\ state' = "DISCONNECTED"
    /\ Go(D, "done")
    /\ UNCHANGED <<relay, autoReconnect, running, socket, session, readThread, reconnectThread,
                   monitor, own, attempt, interrupted, netVars, late>>

disconnect == InterruptReconnector \/ internalCleanup(D) \/ Disconnected
----------------------------------------------------------------------------
Step(t) ==
    \/ t \in Connectors /\ doConnect(t)
    \/ t \in Readers /\ readLoop(t)
    \/ t \in Reconnectors /\ reconnect(t)
    \/ t \in Readers \cup {C} /\ scheduleReconnect(t)
    \/ t \in Thread \ {D} /\ internalCleanup(t)

Next ==
    \/ \E t \in Thread : Step(t)
    \/ ForbidReconnect \/ disconnect
    \/ \E s \in Sock : PeerEnds(s)

Spec == Init /\ [][Next]_vars

\* Threads that can run are scheduled, waits with a timeout end, and a reported
\* error makes the app disconnect.
FairSpec ==
    /\ Spec
    /\ \A t \in Thread : WF_vars(Step(t))
    /\ WF_vars(disconnect)
    /\ WF_vars(state = "ERROR" /\ ForbidReconnect)
----------------------------------------------------------------------------
Label == {"off", "dial", "dialed", "enter", "connect", "publish", "setup", "setup2", "play",
          "start", "c1", "teardown", "write", "close", "join", "clear", "begin", "read", "ended",
          "s0", "s2", "join2", "s4", "loop", "sleep", "failed", "d2", "d3", "done"}

\* The fields hold values of their types, and no thread counts more attempts than
\* MAX_RECONNECT_ATTEMPTS (RtspClient.kt:475).
TypeOK ==
    /\ relay \in BOOLEAN /\ autoReconnect \in BOOLEAN /\ running \in BOOLEAN
    /\ state \in {"CONNECTING", "CONNECTED", "PLAYING", "RECONNECTING", "ERROR", "DISCONNECTED"}
    /\ socket \in Sock \cup {NoSock} /\ session \in BOOLEAN
    /\ readThread \in Readers \cup {NoThread}
    /\ reconnectThread \in Reconnectors \cup {NoThread}
    /\ monitor \in Connectors \cup {NoThread}
    /\ pc \in [Thread -> Label]
    /\ own \in [Thread -> Sock \cup {NoSock}]
    /\ attempt \in [Thread -> 0..MAX_RECONNECT_ATTEMPTS]
    /\ interrupted \in [Thread -> BOOLEAN]
    /\ conn \in [Sock -> {"none", "open", "closed"}]
    /\ peer \in [Sock -> {"alive", "lost", "silent"}]
    /\ late \in BOOLEAN

\* The threads of one client never work against each other: at any moment at most
\* one thread can still make a connection, so no cleanup (RtspClient.kt:440,
\* 446-450) takes away what another thread has just set up.
OneConnector == Cardinality({t \in Connectors : pc[t] \notin {"off", "done"}}) <= 1

\* When disconnect() has returned, a connection is still open only if a thread was
\* already past its look at autoReconnect (RtspClient.kt:486) when it was called.
LeakHasACause == At(D, "done") /\ (\E s \in Sock : conn[s] = "open") => late

\* readThread.join (RtspClient.kt:443) is not inside a try: an interrupted thread
\* (RtspClient.kt:421, 468) would end there.  It never gets to the join, since a
\* reconnecting thread finds no read thread to wait for.
NoInterruptedJoin == \A t \in Thread : At(t, "join") /\ interrupted[t] => readThread = NoThread

\* disconnect() returns, though doConnect holds the monitor TEARDOWN needs and the
\* read thread may be joining itself (RtspClient.kt:179, 443, 542).  The exception:
\* a relay connection gone silent has no timeout.
DisconnectReturns ==
    ~At(D, "off") ~> (At(D, "done") \/ (relay /\ \E s \in Sock : peer[s] = "silent"))

\* A client nobody disconnects plays, or has told the user that it gave up
\* (RtspClient.kt:508-513); the exception is the same.
Settles ==
    []<>(\/ state = "ERROR" \/ ~At(D, "off")
         \/ state = "PLAYING" /\ running /\ socket # NoSock /\ Answered(socket)
         \/ relay /\ \E s \in Sock : peer[s] = "silent")

\* What the app is told of the client is what ClientStates allows, although the
\* state is written by several threads (RtspClient.kt:236, 243, 466, 501, 511).
States == INSTANCE ClientStates WITH detached <- ~At(D, "off")
TellsInOrder == States!Spec
=============================================================================
