------------------------ MODULE RtspClientLifeProofs ------------------------
(***************************************************************************)
(* Proofs about RtspClientLife for any number of connections and attempts. *)
(* The argument is a token: a thread that connects, reconnects or hands    *)
(* over to a reconnecting thread has it, and between connections the flag  *)
(* running is it.  Whoever has the token determines the state.             *)
(***************************************************************************)
EXTENDS RtspClientLife, FiniteSetTheorems, TLAPS

\* Threads of different kinds are different.
LEMMA Threads ==
    /\ C \in Thread /\ D \in Thread /\ C # D
    /\ D \notin Connectors /\ D \notin Readers /\ D \notin Reconnectors
    /\ C \in Connectors /\ C \notin Readers /\ C \notin Reconnectors
    /\ Readers \subseteq Thread /\ Connectors \subseteq Thread /\ Reconnectors \subseteq Connectors
    /\ \A t \in Readers : t \notin Connectors
    /\ \A s \in Sock : <<"R", s>> \in Readers
    /\ NoThread \notin Thread
BY DEF C, D, Readers, Reconnectors, Connectors, Thread, NoThread

\* The labels of a thread that hands over.
Handing == {"s0", "c1", "close", "join", "clear", "s2", "join2", "s4"}

\* Thread t has the token.
Active(t) ==
    \/ t \in Connectors /\ pc[t] \notin {"off", "done"}
    \/ t \in Readers /\ pc[t] \in Handing

\* There is one token.
Token ==
    /\ \A t, u \in Thread : Active(t) /\ Active(u) => t = u
    /\ \A t \in Thread : Active(t) => ~running

\* The states that go with thread t at a label.
Making == {"dial", "dialed", "enter", "connect", "publish", "setup", "setup2"}
Allowed(t, label) ==
    IF label = "play" THEN {"CONNECTED"}
    ELSE IF label = "start" THEN {"PLAYING"}
    ELSE IF label \in {"join2", "s4", "loop", "sleep"} THEN {"RECONNECTING"}
    ELSE IF label \in Making THEN {IF t = C THEN "CONNECTING" ELSE "RECONNECTING"}
    ELSE IF t = C THEN {"CONNECTING", "CONNECTED"}
    ELSE IF t \in Readers THEN {"PLAYING"} ELSE {"RECONNECTING", "CONNECTED"}

\* Until the client is disconnected, the token tells the state.
Heard ==
    At(D, "off") =>
      /\ \A t \in Thread : Active(t) => state \in Allowed(t, pc[t])
      /\ running => state = "PLAYING"
      /\ autoReconnect \/ state = "ERROR"

\* A thread that is past its dial has a socket.
Owned ==
    \A t \in Connectors :
      pc[t] \in {"dialed", "publish", "setup", "setup2", "play", "start"}
        \/ (relay /\ pc[t] = "enter") => own[t] \in Sock

Inv == TypeOK /\ Owned /\ Token /\ Heard

\* What a step means for the listener.
Tells == At(D, "off") => \/ state' = state
                         \/ \E s \in States!Steps : s[1] = state /\ state' = s[2]

\* A step of the thread with the token that keeps it, or lets it go.
LEMMA TokenStep ==
    ASSUME Inv, NEW t \in Thread, Active(t),
           \A u \in Thread : u # t => pc'[u] = pc[u],
           running' => running,
           At(D, "off") => /\ Active(t)' => state' \in Allowed(t, pc'[t])
                           /\ autoReconnect' \/ state' = "ERROR"
    PROVE  Token' /\ Heard'
<1>1. ~running /\ ~running'
  BY ZenonT(60) DEF Inv, Token
<1>2. \A u \in Thread : Active(u)' => u = t
  BY ZenonT(60) DEF Active, Inv, Token
<1>3. t # D /\ pc'[D] = pc[D]
  BY Threads, ZenonT(60) DEF Active
<1>4. Token'
  BY <1>1, <1>2, ZenonT(60) DEF Token
<1>5. Heard'
  BY <1>1, <1>2, <1>3, ZenonT(60) DEF Heard, At
<1> QED BY <1>4, <1>5, ZenonT(60)
----------------------------------------------------------------------------
(* Types.                                                                  *)

\* The labels a step goes to are labels.
LEMMA GoType ==
    ASSUME pc \in [Thread -> Label], NEW t \in Thread, NEW l \in Label, Go(t, l)
    PROVE  /\ pc' \in [Thread -> Label] /\ pc'[t] = l
           /\ \A u \in Thread : u # t => pc'[u] = pc[u]
BY ZenonT(60) DEF Go

\* An exception takes thread t to a label and perhaps to the state ERROR.
LEMMA ThrownType ==
    ASSUME TypeOK, NEW t \in Thread, Thrown(t)
    PROVE  /\ pc' \in [Thread -> Label] /\ pc'[t] \in {"c1", "s0", "done"}
           /\ \A u \in Thread : u # t => pc'[u] = pc[u]
           /\ state' \in {state, "ERROR"}
BY GoType, ZenonT(60) DEF Thrown, TypeOK, Label, Go

\* Connections are made with numbers of sockets.
LEMMA NewSockType == NewSocks \subseteq Sock
BY ZenonT(60) DEF NewSocks

\* The steps of doConnect keep the types.
LEMMA ConnectTypes ==
    ASSUME TypeOK, Owned, NEW t \in Connectors, doConnect(t)
    PROVE  TypeOK' /\ Owned'
<1> USE DEF TypeOK, At, netVars
<1>0. t \in Thread
  BY Threads, ZenonT(60)
<1>1. ASSUME \A u \in Thread : u # t => pc'[u] = pc[u] /\ own'[u] = own[u],
             relay' = relay,
             pc'[t] \in {"dialed", "publish", "setup", "setup2", "play", "start"}
               \/ (relay /\ pc'[t] = "enter") => own'[t] \in Sock
      PROVE  Owned'
  BY <1>1, Threads, ZenonT(60) DEF Owned
<1>2. CASE Dial(t)
  <2>1. CASE \E s \in NewSocks : /\ conn' = [conn EXCEPT ![s] = "open"]
                                 /\ own' = [own EXCEPT ![t] = s]
                                 /\ Go(t, "dialed")
                                 /\ UNCHANGED state
    <3>1. PICK s \in Sock : /\ conn' = [conn EXCEPT ![s] = "open"]
                            /\ own' = [own EXCEPT ![t] = s]
                            /\ Go(t, "dialed")
                            /\ UNCHANGED state
      BY <2>1, NewSockType, ZenonT(60)
    <3>2. /\ pc' \in [Thread -> Label]
          /\ \A u \in Thread : u # t => pc'[u] = pc[u] /\ own'[u] = own[u]
          /\ own'[t] \in Sock
      BY <1>0, <3>1, GoType, ZenonT(60) DEF Label
    <3>3. Owned'
      BY <1>1, <1>2, <3>2, ZenonT(60) DEF Dial
    <3>4. own' \in [Thread -> Sock \cup {NoSock}] /\ conn' \in [Sock -> {"none", "open", "closed"}]
      BY <1>0, <3>1, ZenonT(60)
    <3>5. UNCHANGED <<relay, autoReconnect, running, socket, session, readThread, reconnectThread,
                      monitor, attempt, interrupted, peer, late, state>>
      BY <1>2, <3>1, ZenonT(60) DEF Dial
    <3> QED BY <3>2, <3>3, <3>4, <3>5
  <2>2. CASE Thrown(t) /\ UNCHANGED <<own, conn>>
    <3>1. Owned'
      BY <1>0, <1>1, <1>2, <2>2, ThrownType, ZenonT(60) DEF Dial
    <3> QED BY <1>0, <1>2, <2>2, <3>1, ThrownType, SMTT(60) DEF Dial
  <2> QED BY <1>2, <2>1, <2>2, ZenonT(60) DEF Dial
<1>3. CASE Dialed(t)
  <2>1. own[t] \in Sock
    BY <1>3, ZenonT(60) DEF Dialed, Owned
  <2>2. CASE Answered(own[t]) /\ Go(t, "enter") /\ UNCHANGED <<state, conn>>
    <3>1. pc' \in [Thread -> Label] /\ \A u \in Thread : u # t => pc'[u] = pc[u]
      BY <1>0, <2>2, GoType, ZenonT(60) DEF Label
    <3>2. Owned'
      BY <1>1, <1>3, <2>1, <3>1, ZenonT(60) DEF Dialed
    <3> QED BY <1>3, <2>2, <3>1, <3>2 DEF Dialed
  <2>3. CASE conn' = [conn EXCEPT ![own[t]] = "closed"] /\ Thrown(t)
    <3>1. Owned'
      BY <1>0, <1>1, <1>3, <2>3, ThrownType, ZenonT(60) DEF Dialed
    <3> QED BY <1>0, <1>3, <2>1, <2>3, <3>1, ThrownType, SMTT(60) DEF Dialed
  <2> QED BY <1>3, <2>2, <2>3, ZenonT(60) DEF Dialed
<1>4. CASE Enter(t)
  <2>1. PICK l \in {"publish", "connect", "done"} :
            Go(t, l) /\ (l = "publish" => relay) /\ monitor' \in {monitor, t}
    BY <1>4, ZenonT(60) DEF Enter
  <2>2. /\ pc' \in [Thread -> Label] /\ pc'[t] = l
        /\ \A u \in Thread : u # t => pc'[u] = pc[u]
    BY <1>0, <2>1, GoType, SMTT(60) DEF Label
  <2>3. Owned'
    BY <1>1, <1>4, <2>1, <2>2, ZenonT(60) DEF Enter, Owned
  <2> QED BY <1>4, <2>1, <2>2, <2>3 DEF Enter
<1>5. CASE Connect(t)
  <2>1. CASE \E s \in NewSocks : /\ conn' = [conn EXCEPT ![s] = "open"]
                                 /\ own' = [own EXCEPT ![t] = s]
                                 /\ Go(t, "publish")
                                 /\ UNCHANGED <<state, monitor>>
    <3>1. PICK s \in Sock : /\ conn' = [conn EXCEPT ![s] = "open"]
                            /\ own' = [own EXCEPT ![t] = s]
                            /\ Go(t, "publish")
                            /\ UNCHANGED <<state, monitor>>
      BY <2>1, NewSockType, ZenonT(60)
    <3>2. /\ pc' \in [Thread -> Label]
          /\ \A u \in Thread : u # t => pc'[u] = pc[u] /\ own'[u] = own[u]
          /\ own'[t] \in Sock
      BY <1>0, <3>1, GoType, ZenonT(60) DEF Label
    <3>3. Owned'
      BY <1>1, <1>5, <3>2, ZenonT(60) DEF Connect
    <3>4. own' \in [Thread -> Sock \cup {NoSock}] /\ conn' \in [Sock -> {"none", "open", "closed"}]
      BY <1>0, <3>1, ZenonT(60)
    <3>5. UNCHANGED <<relay, autoReconnect, running, socket, session, readThread, reconnectThread,
                      attempt, interrupted, peer, late, state, monitor>>
      BY <1>5, <3>1, ZenonT(60) DEF Connect
    <3> QED BY <3>2, <3>3, <3>4, <3>5
  <2>2. CASE Thrown(t) /\ monitor' = NoThread /\ UNCHANGED <<own, conn>>
    <3>1. Owned'
      BY <1>0, <1>1, <1>5, <2>2, ThrownType, ZenonT(60) DEF Connect
    <3> QED BY <1>0, <1>5, <2>2, <3>1, ThrownType, SMTT(60) DEF Connect
  <2> QED BY <1>5, <2>1, <2>2, ZenonT(60) DEF Connect
<1>6. CASE Publish(t)
  <2>1. own[t] \in Sock
    BY <1>6, ZenonT(60) DEF Publish, Owned
  <2>2. /\ pc' \in [Thread -> Label]
        /\ \A u \in Thread : u # t => pc'[u] = pc[u]
    BY <1>0, <1>6, GoType, ZenonT(60) DEF Publish, Label
  <2>3. Owned'
    BY <1>1, <1>6, <2>1, <2>2, ZenonT(60) DEF Publish
  <2> QED BY <1>6, <2>1, <2>2, <2>3, SMTT(60) DEF Publish
<1>7. ASSUME NEW from \in {"setup", "setup2", "play"}, NEW to \in {"setup2", "play", "start"},
             NEW next, next \in {state, "CONNECTED", "PLAYING"},
             Exchange(t, from, to, next)
      PROVE  TypeOK' /\ Owned'
  <2>1. own[t] \in Sock
    BY <1>7, ZenonT(60) DEF Exchange, Owned
  <2>2. CASE Go(t, to) /\ state' = next /\ session' = TRUE /\ UNCHANGED monitor
    <3>1. /\ pc' \in [Thread -> Label]
          /\ \A u \in Thread : u # t => pc'[u] = pc[u]
      BY <1>0, <2>2, GoType, SMTT(60) DEF Label
    <3>2. Owned'
      BY <1>1, <1>7, <2>1, <3>1, ZenonT(60) DEF Exchange
    <3>3. UNCHANGED <<relay, autoReconnect, running, socket, readThread, reconnectThread, own,
                      attempt, interrupted, netVars, late, monitor>>
      BY <1>7, <2>2, ZenonT(60) DEF Exchange
    <3>4. state' \in {state, "CONNECTED", "PLAYING"} /\ session' = TRUE
      BY <1>7, <2>2, ZenonT(60)
    <3> QED BY <3>1, <3>2, <3>3, <3>4, SMTT(60)
  <2>3. CASE Thrown(t) /\ monitor' = NoThread /\ UNCHANGED session
    <3>1. Owned'
      BY <1>0, <1>1, <1>7, <2>3, ThrownType, ZenonT(60) DEF Exchange
    <3> QED BY <1>0, <1>7, <2>3, <3>1, ThrownType, SMTT(60) DEF Exchange
  <2> QED BY <1>7, <2>2, <2>3, ZenonT(60) DEF Exchange
<1>8. CASE SetupVideo(t) \/ SetupAudio(t) \/ Play(t)
  BY <1>7, <1>8, ZenonT(60) DEF SetupVideo, SetupAudio, Play
<1>9. CASE StartReading(t)
  <2>1. own[t] \in Sock
    BY <1>9, ZenonT(60) DEF StartReading, Owned
  <2>2. <<"R", own[t]>> \in Readers
    BY <2>1, Threads, ZenonT(60)
  <2>3. pc' \in [Thread -> Label] /\ pc'[t] = "done"
    BY <1>0, <1>9, <2>2, Threads, ZenonT(60) DEF StartReading, Label
  <2>4. \A u \in Connectors : u # t => pc'[u] = pc[u]
    BY <1>9, <2>2, Threads, ZenonT(60) DEF StartReading
  <2>5. Owned'
    BY <1>9, <2>3, <2>4, Threads, ZenonT(60) DEF StartReading, Owned
  <2> QED BY <1>9, <2>2, <2>3, <2>5, ZenonT(60) DEF StartReading
<1> QED BY <1>2, <1>3, <1>4, <1>5, <1>6, <1>8, <1>9, ZenonT(60) DEF doConnect

\* A new reconnecting thread has not run before.
LEMMA NewReconnectorType ==
    \A x \in NewReconnectors : x \in Reconnectors /\ pc[x] = "off"
BY ZenonT(60) DEF NewReconnectors, Reconnectors

\* The steps of the other threads, and of a thread after doConnect, keep the types.
LEMMA OtherTypes ==
    ASSUME TypeOK, Owned, NEW t \in Thread,
           \/ internalCleanup(t) \/ (t \in Readers /\ readLoop(t))
           \/ scheduleReconnect(t) \/ reconnect(t)
           \/ ForbidReconnect \/ InterruptReconnector \/ Disconnected
    PROVE  TypeOK' /\ Owned'
<1> USE DEF TypeOK, At, netVars, objectVars
<1>0. D \in Thread /\ D \notin Connectors
  BY Threads, ZenonT(60)
<1>1. ASSUME NEW u \in Thread, NEW l \in Label, Go(u, l), relay' = relay,
             u \in Readers \/ UNCHANGED own,
             \A v \in Thread : v # u => own'[v] = own[v],
             l \notin {"dialed", "publish", "setup", "setup2", "play", "start"},
             relay => l # "enter"
      PROVE  pc' \in [Thread -> Label] /\ Owned'
  BY <1>1, GoType, Threads, SMTT(60) DEF Owned
<1>2. CASE StopRunning(t) \/ CloseSocket(t) \/ JoinReader(t)
  <2>1. PICK l \in {"teardown", "close", "join", "clear"} : Go(t, l)
    BY <1>2, ZenonT(60) DEF StopRunning, CloseSocket, JoinReader
  <2>2. UNCHANGED <<relay, own>>
    BY <1>2, ZenonT(60) DEF StopRunning, CloseSocket, JoinReader
  <2>3. pc' \in [Thread -> Label] /\ Owned'
    BY <1>1, <2>1, <2>2, ZenonT(60) DEF Label
  <2> QED BY <1>2, <2>3, ZenonT(60) DEF StopRunning, CloseSocket, JoinReader
<1>3. CASE Teardown \/ WriteTeardown
  <2>1. PICK l \in {"write", "close"} : Go(D, l)
    BY <1>3, ZenonT(60) DEF Teardown, WriteTeardown
  <2>2. UNCHANGED <<objectVars, own, attempt, interrupted, netVars, late>>
    BY <1>3, ZenonT(60) DEF Teardown, WriteTeardown
  <2>3. pc' \in [Thread -> Label] /\ Owned'
    BY <1>0, <1>1, <2>1, <2>2, ZenonT(60) DEF Label
  <2> QED BY <2>2, <2>3, SMTT(60)
<1>4. CASE ClearFields(t)
  <2>1. PICK l \in {"d3", "failed", "s2"} : Go(t, l)
    BY <1>4, ZenonT(60) DEF ClearFields
  <2>2. UNCHANGED <<relay, own>>
    BY <1>4, ZenonT(60) DEF ClearFields
  <2>3. pc' \in [Thread -> Label] /\ Owned'
    BY <1>1, <2>1, <2>2, ZenonT(60) DEF Label
  <2> QED BY <1>4, <2>3, ZenonT(60) DEF ClearFields
<1>5. CASE BeginReading(t) /\ t \in Readers
  <2>1. PICK l \in {"done", "read"} : Go(t, l)
    BY <1>5, ZenonT(60) DEF BeginReading
  <2>2. own' = [own EXCEPT ![t] = socket] /\ relay' = relay
    BY <1>5, ZenonT(60) DEF BeginReading
  <2>3. pc' \in [Thread -> Label] /\ Owned'
    BY <1>1, <1>5, <2>1, <2>2, ZenonT(60) DEF Label
  <2>4. own' \in [Thread -> Sock \cup {NoSock}]
    BY <2>2, ZenonT(60)
  <2>5. UNCHANGED <<objectVars, attempt, interrupted, netVars, late>>
    BY <1>5, ZenonT(60) DEF BeginReading
  <2> QED BY <2>3, <2>4, <2>5, SMTT(60)
<1>6. CASE ReadingEnds(t) \/ BeginReconnect(t) \/ JoinReconnector(t)
  <2>1. PICK l \in {"ended", "c1", "done", "s4"} : Go(t, l)
    BY <1>6, ZenonT(60) DEF ReadingEnds, BeginReconnect, JoinReconnector
  <2>2. UNCHANGED <<objectVars, own, attempt, interrupted, netVars, late>>
    BY <1>6, ZenonT(60) DEF ReadingEnds, BeginReconnect, JoinReconnector
  <2>3. pc' \in [Thread -> Label] /\ Owned'
    BY <1>1, <2>1, <2>2, ZenonT(60) DEF Label
  <2> QED BY <2>2, <2>3, SMTT(60)
<1>7. CASE AfterReading(t)
  <2>1. PICK l \in {"done", "s0"} : Go(t, l)
    BY <1>7, ZenonT(60) DEF AfterReading
  <2>2. UNCHANGED <<relay, own>>
    BY <1>7, ZenonT(60) DEF AfterReading
  <2>3. pc' \in [Thread -> Label] /\ Owned'
    BY <1>1, <2>1, <2>2, ZenonT(60) DEF Label
  <2>4. state' \in {state, "ERROR"} /\ running' = FALSE
    BY <1>7, ZenonT(60) DEF AfterReading
  <2>5. UNCHANGED <<relay, autoReconnect, socket, session, readThread, reconnectThread,
                    monitor, own, attempt, interrupted, netVars, late>>
    BY <1>7, ZenonT(60) DEF AfterReading
  <2> QED BY <2>3, <2>4, <2>5, ZenonT(60)
<1>8. CASE Reconnecting(t)
  <2>1. Go(t, "join2") /\ UNCHANGED <<relay, own>>
    BY <1>8, ZenonT(60) DEF Reconnecting
  <2>2. pc' \in [Thread -> Label] /\ Owned'
    BY <1>1, <2>1, ZenonT(60) DEF Label
  <2>3. interrupted' \in [Thread -> BOOLEAN]
    BY <1>8, ZenonT(60) DEF Reconnecting
  <2> QED BY <1>8, <2>2, <2>3, ZenonT(60) DEF Reconnecting
<1>9. CASE StartReconnector(t)
  <2>1. PICK x \in Reconnectors : /\ reconnectThread' = x
                                  /\ pc' = [pc EXCEPT ![t] = "done", ![x] = "loop"]
    BY <1>9, NewReconnectorType, ZenonT(60) DEF StartReconnector
  <2>2. x \in Thread
    BY Threads, ZenonT(60)
  <2>3. pc' \in [Thread -> Label]
    BY <2>1, <2>2, ZenonT(60) DEF Label
  <2>4. \A u \in Thread : pc'[u] \in {pc[u], "done", "loop"}
    BY <2>1, <2>2, ZenonT(60)
  <2>5. UNCHANGED <<relay, own>>
    BY <1>9, ZenonT(60) DEF StartReconnector
  <2>6. Owned'
    BY <2>4, <2>5, Threads, ZenonT(60) DEF Owned
  <2> QED BY <1>9, <2>1, <2>3, <2>6, SMTT(60) DEF StartReconnector
<1>10. CASE Loop(t)
  <2>1. PICK l \in {"sleep", "done"} : Go(t, l)
    BY <1>10, ZenonT(60) DEF Loop
  <2>2. UNCHANGED <<relay, own>>
    BY <1>10, ZenonT(60) DEF Loop
  <2>3. pc' \in [Thread -> Label] /\ Owned'
    BY <1>1, <2>1, <2>2, ZenonT(60) DEF Label
  <2>4. attempt' \in [Thread -> 0..MAX_RECONNECT_ATTEMPTS]
    <3>1. CASE attempt[t] < MAX_RECONNECT_ATTEMPTS /\ attempt' = [attempt EXCEPT ![t] = @ + 1]
      <4>1. attempt[t] + 1 \in 0..MAX_RECONNECT_ATTEMPTS
        BY <3>1, RtspClientLifeAssumption
      <4> QED BY <3>1, <4>1, ZenonT(60)
    <3> QED BY <1>10, <3>1, ZenonT(60) DEF Loop
  <2>5. state' \in {state, "ERROR"} /\ autoReconnect' \in {autoReconnect, FALSE}
    BY <1>10, ZenonT(60) DEF Loop
  <2>6. UNCHANGED <<relay, running, socket, session, readThread, reconnectThread, monitor, own,
                    interrupted, netVars, late>>
    BY <1>10, ZenonT(60) DEF Loop
  <2>7. autoReconnect' \in BOOLEAN
    BY <2>5, ZenonT(60)
  <2>8. state' \in {"CONNECTING", "CONNECTED", "PLAYING", "RECONNECTING", "ERROR", "DISCONNECTED"}
    BY <2>5, ZenonT(60)
  <2> QED BY <2>3, <2>4, <2>6, <2>7, <2>8, ZenonT(60)
<1>11. CASE Sleep(t)
  <2>1. PICK l \in {"done", "dial", "enter"} : Go(t, l) /\ (relay => l # "enter")
    BY <1>11, ZenonT(60) DEF Sleep
  <2>2. UNCHANGED <<objectVars, own, attempt, interrupted, netVars, late>>
    BY <1>11, ZenonT(60) DEF Sleep
  <2>3. pc' \in [Thread -> Label] /\ Owned'
    BY <1>1, <2>1, <2>2, ZenonT(60) DEF Label
  <2> QED BY <2>2, <2>3, SMTT(60)
<1>12. CASE AttemptFailed(t)
  <2>1. Go(t, "loop") /\ UNCHANGED <<relay, own>>
    BY <1>12, ZenonT(60) DEF AttemptFailed
  <2>2. pc' \in [Thread -> Label] /\ Owned'
    BY <1>1, <2>1, ZenonT(60) DEF Label
  <2> QED BY <1>12, <2>2, ZenonT(60) DEF AttemptFailed
<1>13. CASE ForbidReconnect \/ InterruptReconnector \/ Disconnected
  <2>1. PICK l \in {"d2", "c1", "done"} : Go(D, l)
    BY <1>13, ZenonT(60) DEF ForbidReconnect, InterruptReconnector, Disconnected
  <2>2. UNCHANGED <<relay, own>>
    BY <1>13, ZenonT(60) DEF ForbidReconnect, InterruptReconnector, Disconnected
  <2>3. pc' \in [Thread -> Label] /\ Owned'
    BY <1>0, <1>1, <2>1, <2>2, ZenonT(60) DEF Label
  <2>4. late' \in BOOLEAN
    BY <1>13, ZenonT(60) DEF ForbidReconnect, InterruptReconnector, Disconnected
  <2>5. interrupted' \in [Thread -> BOOLEAN]
    BY <1>13, ZenonT(60) DEF ForbidReconnect, InterruptReconnector, Disconnected
  <2> QED BY <1>13, <2>3, <2>4, <2>5, ZenonT(60) DEF ForbidReconnect, InterruptReconnector, Disconnected
<1> QED BY <1>2, <1>3, <1>4, <1>5, <1>6, <1>7, <1>8, <1>9, <1>10, <1>11, <1>12, <1>13, ZenonT(60)
        DEF internalCleanup, readLoop, scheduleReconnect, reconnect
----------------------------------------------------------------------------
(* The token.                                                              *)

\* What it means to be active, for each kind of thread.
LEMMA Kinds ==
    ASSUME NEW t \in Thread
    PROVE  /\ t \in Connectors => (Active(t) <=> pc[t] \notin {"off", "done"})
           /\ t \in Readers => (Active(t) <=> pc[t] \in Handing)
           /\ t = D => ~Active(t)
BY Threads, ZenonT(60) DEF Active

\* An exception in doConnect keeps the token and tells nothing.
LEMMA ThrownStep ==
    ASSUME Inv, NEW t \in Connectors, Thrown(t), pc[t] \in Making \cup {"play"},
           UNCHANGED <<running, autoReconnect>>
    PROVE  Token' /\ Heard' /\ Tells
<1>0. t \in Thread /\ Active(t) /\ t # D
  BY Threads, ZenonT(60) DEF Active, Making
<1>1. /\ \A u \in Thread : u # t => pc'[u] = pc[u]
      /\ pc'[t] \in {"c1", "s0", "done"}
  BY <1>0, ThrownType, ZenonT(60) DEF Inv
<1>2. ASSUME At(D, "off")
      PROVE  /\ state' = state /\ autoReconnect
             /\ state' \in Allowed(t, pc'[t])
  <2>1. state \in Allowed(t, pc[t]) /\ (autoReconnect \/ state = "ERROR")
    BY <1>0, <1>2, ZenonT(60) DEF Inv, Heard
  <2>2. state \in (IF t = C THEN {"CONNECTING", "CONNECTED"} ELSE {"RECONNECTING", "CONNECTED"})
    BY <2>1, ZenonT(60) DEF Allowed, Making
  <2>3. autoReconnect
    BY <2>1, <2>2, ZenonT(60)
  <2>4. state' = state /\ pc'[t] \in {"c1", "s0"}
    BY <1>0, <2>3, ZenonT(60) DEF Thrown, Go, Inv, TypeOK
  <2>5. t \notin Readers
    BY Threads, ZenonT(60)
  <2> QED BY <2>2, <2>3, <2>4, <2>5, ZenonT(60) DEF Allowed, Making
<1>3. Token' /\ Heard'
  BY <1>0, <1>1, <1>2, TokenStep, ZenonT(60)
<1> QED BY <1>2, <1>3, ZenonT(60) DEF Tells

\* A step to another label with the same or a told state keeps the token.
LEMMA GoStep ==
    ASSUME Inv, NEW t \in Thread, Active(t), NEW l \in Label, Go(t, l),
           running' => running, autoReconnect' = autoReconnect,
           At(D, "off") /\ state \in Allowed(t, pc[t]) /\ autoReconnect =>
              /\ state' = state \/ \E s \in States!Steps : s[1] = state /\ state' = s[2]
              /\ l # "done" => state' \in Allowed(t, l)
    PROVE  Token' /\ Heard' /\ Tells
<1>1. pc'[t] = l /\ \A u \in Thread : u # t => pc'[u] = pc[u]
  BY GoType, ZenonT(60) DEF Inv, TypeOK
<1>2. ASSUME At(D, "off")
      PROVE  state \in Allowed(t, pc[t]) /\ autoReconnect
  <2>1. state \in Allowed(t, pc[t]) /\ (autoReconnect \/ state = "ERROR")
    BY <1>2, ZenonT(60) DEF Inv, Heard
  <2>2. state # "ERROR"
    BY <2>1, ZenonT(60) DEF Allowed
  <2> QED BY <2>1, <2>2, ZenonT(60)
<1>3. Active(t)' => l # "done"
  BY <1>1, ZenonT(60) DEF Active, Handing
<1>4. Token' /\ Heard'
  BY <1>1, <1>2, <1>3, TokenStep, ZenonT(60)
<1> QED BY <1>2, <1>4, ZenonT(60) DEF Tells

\* The steps the listener may see.
LEMMA Pairs ==
    ASSUME NEW a, NEW b,
           \/ a \in {"CONNECTING", "RECONNECTING"} /\ b = "CONNECTED"
           \/ a = "CONNECTED" /\ b = "PLAYING"
           \/ a \in {"CONNECTING", "CONNECTED", "PLAYING"} /\ b = "RECONNECTING"
           \/ a = "RECONNECTING" /\ b = "ERROR"
    PROVE  \E s \in States!Steps : s[1] = a /\ b = s[2]
<1>1. <<a, b>> \in States!Steps
  BY ZenonT(60) DEF States!Steps
<1> QED BY <1>1, ZenonT(60)

\* doConnect keeps the token, and tells CONNECTED and PLAYING.
LEMMA ConnectToken ==
    ASSUME Inv, NEW t \in Connectors, doConnect(t)
    PROVE  Token' /\ Heard' /\ Tells
<1>0. t \in Thread /\ t \notin Readers
  BY Threads, ZenonT(60)
<1>1. ASSUME pc[t] \in Making \cup {"play", "start"} PROVE Active(t)
  BY <1>1, ZenonT(60) DEF Active, Making
<1>2. ASSUME NEW l \in Making, Go(t, l), pc[t] \in Making, UNCHANGED <<state, running, autoReconnect>>
      PROVE  Token' /\ Heard' /\ Tells
  <2>1. Active(t)
    BY <1>1, <1>2, ZenonT(60)
  <2>2. l \in Label
    BY ZenonT(60) DEF Making, Label
  <2>3. Allowed(t, l) = Allowed(t, pc[t])
    BY <1>2, ZenonT(60) DEF Allowed, Making
  <2> QED BY <1>0, <1>2, <2>1, <2>2, <2>3, GoStep, ZenonT(60)
<1>3. CASE Dial(t)
  BY <1>2, <1>3, ThrownStep, ZenonT(60) DEF Dial, At, Making
<1>4. CASE Dialed(t)
  BY <1>2, <1>4, ThrownStep, ZenonT(60) DEF Dialed, At, Making
<1>5. CASE Enter(t)
  <2>1. CASE \E l \in {"publish", "connect"} : Go(t, l)
    BY <1>2, <1>5, <2>1, ZenonT(60) DEF Enter, At, Making
  <2>2. CASE Go(t, "done")
    <3>1. Active(t) /\ "done" \in Label /\ UNCHANGED <<state, running, autoReconnect>>
      BY <1>1, <1>5, ZenonT(60) DEF Enter, At, Making, Label
    <3> QED BY <1>0, <2>2, <3>1, GoStep, ZenonT(60)
  <2> QED BY <1>5, <2>1, <2>2, ZenonT(60) DEF Enter
<1>6. CASE Connect(t)
  BY <1>2, <1>6, ThrownStep, ZenonT(60) DEF Connect, At, Making
<1>7. CASE Publish(t)
  BY <1>2, <1>7, ZenonT(60) DEF Publish, At, Making
<1>8. CASE SetupVideo(t)
  BY <1>2, <1>8, ThrownStep, ZenonT(60) DEF SetupVideo, Exchange, At, Making
<1>9. CASE SetupAudio(t)
  <2>1. CASE Thrown(t)
    BY <1>9, <2>1, ThrownStep, ZenonT(60) DEF SetupAudio, Exchange, At, Making
  <2>2. CASE Go(t, "play") /\ state' = "CONNECTED"
    <3>1. Active(t) /\ "play" \in Label /\ UNCHANGED <<running, autoReconnect>> /\ pc[t] = "setup2"
      BY <1>1, <1>9, ZenonT(60) DEF SetupAudio, Exchange, At, Making, Label
    <3>2. state \in Allowed(t, pc[t]) => state \in {"CONNECTING", "RECONNECTING"}
      BY <3>1, ZenonT(60) DEF Allowed, Making
    <3>3. state' \in Allowed(t, "play")
      BY <2>2, ZenonT(60) DEF Allowed
    <3>4. state \in Allowed(t, pc[t]) => \E s \in States!Steps : s[1] = state /\ state' = s[2]
      BY <2>2, <3>2, Pairs
    <3> QED BY <1>0, <2>2, <3>1, <3>3, <3>4, GoStep, ZenonT(60)
  <2> QED BY <1>9, <2>1, <2>2, ZenonT(60) DEF SetupAudio, Exchange
<1>10. CASE Play(t)
  <2>1. CASE Thrown(t)
    BY <1>10, <2>1, ThrownStep, ZenonT(60) DEF Play, Exchange, At, Making
  <2>2. CASE Go(t, "start") /\ state' = "PLAYING"
    <3>1. Active(t) /\ "start" \in Label /\ UNCHANGED <<running, autoReconnect>> /\ pc[t] = "play"
      BY <1>1, <1>10, ZenonT(60) DEF Play, Exchange, At, Making, Label
    <3>2. state \in Allowed(t, pc[t]) => state = "CONNECTED"
      BY <3>1, ZenonT(60) DEF Allowed, Making
    <3>3. state' \in Allowed(t, "start")
      BY <2>2, ZenonT(60) DEF Allowed
    <3>4. state \in Allowed(t, pc[t]) => \E s \in States!Steps : s[1] = state /\ state' = s[2]
      BY <2>2, <3>2, Pairs
    <3> QED BY <1>0, <2>2, <3>1, <3>3, <3>4, GoStep, ZenonT(60)
  <2> QED BY <1>10, <2>1, <2>2, ZenonT(60) DEF Play, Exchange
<1>11. CASE StartReading(t)
  <2>1. pc[t] = "start" /\ running' = TRUE /\ UNCHANGED <<state, autoReconnect>>
    BY <1>11, ZenonT(60) DEF StartReading, At
  <2>2. own[t] \in Sock
    BY <2>1, ZenonT(60) DEF Inv, Owned
  <2>3. <<"R", own[t]>> \in Readers /\ <<"R", own[t]>> # t
    BY <1>0, <2>2, Threads, ZenonT(60)
  <2>4. pc' = [pc EXCEPT ![t] = "done", ![<<"R", own[t]>>] = "begin"]
    BY <1>11, ZenonT(60) DEF StartReading
  <2>5. /\ pc'[t] = "done" /\ pc'[<<"R", own[t]>>] = "begin" /\ pc'[D] = pc[D]
        /\ \A u \in Thread : u # t /\ u # <<"R", own[t]>> => pc'[u] = pc[u]
    BY <1>0, <2>3, <2>4, Threads, ZenonT(60) DEF Inv, TypeOK
  <2>6. Active(t)
    BY <1>1, <2>1, ZenonT(60)
  <2>7. \A u \in Thread : ~Active(u)'
    <3> SUFFICES ASSUME NEW u \in Thread PROVE ~Active(u)'
      BY ZenonT(60)
    <3>1. CASE u = t
      BY <1>0, <2>5, <3>1, ZenonT(60) DEF Active
    <3>2. CASE u = <<"R", own[t]>>
      BY <2>3, <2>5, <3>2, Threads, ZenonT(60) DEF Active, Handing
    <3>3. CASE u # t /\ u # <<"R", own[t]>>
      <4>1. ~Active(u)
        BY <1>0, <2>6, <3>3, ZenonT(60) DEF Inv, Token
      <4> QED BY <2>5, <3>3, <4>1, ZenonT(60) DEF Active
    <3> QED BY <3>1, <3>2, <3>3, ZenonT(60)
  <2>8. At(D, "off") => state = "PLAYING" /\ autoReconnect
    <3>1. Allowed(t, pc[t]) = {"PLAYING"}
      BY <2>1, ZenonT(60) DEF Allowed
    <3> QED BY <1>0, <2>6, <3>1, ZenonT(60) DEF Inv, Heard
  <2>9. Token'
    BY <2>7, ZenonT(60) DEF Token
  <2>10. Heard'
    BY <2>1, <2>5, <2>7, <2>8, ZenonT(60) DEF Heard, At
  <2> QED BY <2>1, <2>9, <2>10, ZenonT(60) DEF Tells
<1> QED BY <1>3, <1>4, <1>5, <1>6, <1>7, <1>8, <1>9, <1>10, <1>11, ZenonT(60) DEF doConnect

\* internalCleanup on any thread but the disconnecting one keeps the token.
LEMMA CleanupToken ==
    ASSUME Inv, NEW t \in Thread \ {D}, internalCleanup(t)
    PROVE  Token' /\ Heard' /\ Tells
<1>0. t \in Thread /\ t # D /\ (t \in Connectors \/ t \in Readers)
  BY ZenonT(60) DEF Thread, Connectors
<1>1. ASSUME NEW l \in {"close", "join", "clear", "failed", "s2"}, Go(t, l),
             pc[t] \in {"c1", "close", "join", "clear"},
             running' => running, UNCHANGED <<state, autoReconnect>>
      PROVE  Token' /\ Heard' /\ Tells
  <2>1. Active(t)
    BY <1>0, <1>1, ZenonT(60) DEF Active, Handing
  <2>2. l \in Label
    BY ZenonT(60) DEF Label
  <2>3. Allowed(t, l) = Allowed(t, pc[t])
    BY <1>1, ZenonT(60) DEF Allowed, Making
  <2> QED BY <1>0, <1>1, <2>1, <2>2, <2>3, GoStep, ZenonT(60)
<1>2. CASE StopRunning(t)
  BY <1>0, <1>1, <1>2, ZenonT(60) DEF StopRunning, At
<1>3. CASE CloseSocket(t)
  <2>1. Go(t, "join") /\ pc[t] = "close" /\ UNCHANGED <<running, state, autoReconnect>>
    BY <1>3, ZenonT(60) DEF CloseSocket, At, objectVars
  <2> QED BY <1>1, <2>1, ZenonT(60)
<1>4. CASE JoinReader(t)
  <2>1. Go(t, "clear") /\ pc[t] = "join" /\ UNCHANGED <<running, state, autoReconnect>>
    BY <1>4, ZenonT(60) DEF JoinReader, At, objectVars
  <2> QED BY <1>1, <2>1, ZenonT(60)
<1>5. CASE ClearFields(t)
  <2>1. /\ \E l \in {"failed", "s2"} : Go(t, l)
        /\ pc[t] = "clear" /\ UNCHANGED <<running, state, autoReconnect>>
    BY <1>0, <1>5, ZenonT(60) DEF ClearFields, At
  <2> QED BY <1>1, <2>1, ZenonT(60)
<1> QED BY <1>0, <1>2, <1>3, <1>4, <1>5, ZenonT(60) DEF internalCleanup

\* scheduleReconnect tells RECONNECTING and hands the token to a new thread.
LEMMA ScheduleToken ==
    ASSUME Inv, NEW t \in Readers \cup {C}, scheduleReconnect(t)
    PROVE  Token' /\ Heard' /\ Tells
<1>0. t \in Thread /\ t # D /\ t \notin Reconnectors /\ (t \in Connectors \/ t \in Readers)
  BY Threads, ZenonT(60)
<1>1. ASSUME pc[t] \in {"s0", "s2", "join2", "s4"} PROVE Active(t)
  BY <1>0, <1>1, ZenonT(60) DEF Active, Handing
<1>2. CASE BeginReconnect(t)
  <2>1. pc[t] = "s0" /\ UNCHANGED <<running, state, autoReconnect>>
    BY <1>2, ZenonT(60) DEF BeginReconnect, At, objectVars
  <2>2. PICK l \in {"c1", "done"} : Go(t, l)
    BY <1>2, ZenonT(60) DEF BeginReconnect
  <2>3. l \in Label /\ (l # "done" => Allowed(t, l) = Allowed(t, pc[t]))
    BY <2>1, ZenonT(60) DEF Label, Allowed, Making
  <2> QED BY <1>0, <1>1, <2>1, <2>2, <2>3, GoStep, ZenonT(60)
<1>3. CASE Reconnecting(t)
  <2>1. pc[t] = "s2" /\ Go(t, "join2") /\ state' = "RECONNECTING"
        /\ UNCHANGED <<running, autoReconnect>>
    BY <1>3, ZenonT(60) DEF Reconnecting, At
  <2>2. Allowed(t, "s2") \subseteq {"CONNECTING", "CONNECTED", "PLAYING"}
        /\ "RECONNECTING" \in Allowed(t, "join2") /\ "join2" \in Label
    BY <1>0, ZenonT(60) DEF Allowed, Making, Label
  <2>3. state \in Allowed(t, pc[t]) => \E s \in States!Steps : s[1] = state /\ state' = s[2]
    BY <2>1, <2>2, Pairs, SMTT(60)
  <2> QED BY <1>0, <1>1, <2>1, <2>2, <2>3, GoStep, ZenonT(60)
<1>4. CASE JoinReconnector(t)
  <2>1. pc[t] = "join2" /\ Go(t, "s4") /\ UNCHANGED <<running, state, autoReconnect>>
    BY <1>4, ZenonT(60) DEF JoinReconnector, At, objectVars
  <2>2. "s4" \in Label /\ Allowed(t, "s4") = Allowed(t, pc[t])
    BY <2>1, ZenonT(60) DEF Label, Allowed
  <2> QED BY <1>0, <1>1, <2>1, <2>2, GoStep, ZenonT(60)
<1>5. CASE StartReconnector(t)
  <2>1. pc[t] = "s4" /\ UNCHANGED <<running, state, autoReconnect>>
    BY <1>5, ZenonT(60) DEF StartReconnector, At
  <2>2. PICK x \in NewReconnectors : pc' = [pc EXCEPT ![t] = "done", ![x] = "loop"]
    BY <1>5, ZenonT(60) DEF StartReconnector
  <2>3. x \in Reconnectors
    BY <2>2, NewReconnectorType, ZenonT(60)
  <2>4. x \in Thread /\ x \in Connectors /\ x # t /\ x # D
    BY <1>0, <2>3, Threads, ZenonT(60)
  <2>5. /\ pc'[t] = "done" /\ pc'[x] = "loop" /\ pc'[D] = pc[D]
        /\ \A u \in Thread : u # t /\ u # x => pc'[u] = pc[u]
    BY <1>0, <2>2, <2>4, Threads, ZenonT(60) DEF Inv, TypeOK
  <2>6. Active(t) /\ ~running
    BY <1>0, <1>1, <2>1, ZenonT(60) DEF Inv, Token
  <2>7. \A u \in Thread : Active(u)' => u = x
    <3> SUFFICES ASSUME NEW u \in Thread, u # x PROVE ~Active(u)'
      BY ZenonT(60)
    <3>1. CASE u = t
      BY <1>0, <2>5, <3>1, ZenonT(60) DEF Active, Handing
    <3>2. CASE u # t
      <4>1. ~Active(u)
        BY <1>0, <2>6, <3>2, ZenonT(60) DEF Inv, Token
      <4> QED BY <2>5, <3>2, <4>1, ZenonT(60) DEF Active
    <3> QED BY <3>1, <3>2, ZenonT(60)
  <2>8. At(D, "off") => state = "RECONNECTING" /\ (autoReconnect \/ state = "ERROR")
    <3>1. Allowed(t, pc[t]) = {"RECONNECTING"}
      BY <2>1, ZenonT(60) DEF Allowed
    <3> QED BY <1>0, <2>6, <3>1, ZenonT(60) DEF Inv, Heard
  <2>9. Token'
    BY <2>1, <2>6, <2>7, ZenonT(60) DEF Token
  <2>10. Allowed(x, "loop") = {"RECONNECTING"}
    BY ZenonT(60) DEF Allowed
  <2>11. Heard'
    BY <2>1, <2>5, <2>6, <2>7, <2>8, <2>10, ZenonT(60) DEF Heard, At
  <2> QED BY <2>1, <2>9, <2>11, ZenonT(60) DEF Tells
<1> QED BY <1>2, <1>3, <1>4, <1>5, ZenonT(60) DEF scheduleReconnect

\* The loop of a reconnecting thread keeps the token, or ends with it.
LEMMA ReconnectToken ==
    ASSUME Inv, NEW t \in Reconnectors, reconnect(t)
    PROVE  Token' /\ Heard' /\ Tells
<1>0. t \in Thread /\ t # D /\ t # C /\ t \in Connectors /\ t \notin Readers
  BY Threads, ZenonT(60)
<1>1. ASSUME pc[t] \in {"loop", "sleep", "failed"} PROVE Active(t)
  BY <1>0, <1>1, ZenonT(60) DEF Active
<1>2. ASSUME NEW l \in Making \cup {"sleep", "loop", "done"}, Go(t, l), pc[t] \in {"loop", "sleep"},
             UNCHANGED <<running, state, autoReconnect>>
      PROVE  Token' /\ Heard' /\ Tells
  <2>1. l \in Label /\ Active(t)
    BY <1>1, <1>2, ZenonT(60) DEF Label, Making
  <2>2. l # "done" => Allowed(t, l) = Allowed(t, pc[t])
    BY <1>0, <1>2, ZenonT(60) DEF Allowed, Making
  <2> QED BY <1>0, <1>2, <2>1, <2>2, GoStep, ZenonT(60)
<1>3. CASE Loop(t)
  <2>1. pc[t] = "loop" /\ running' = running
    BY <1>3, ZenonT(60) DEF Loop, At
  <2>2. CASE (\E l \in {"sleep", "done"} : Go(t, l)) /\ UNCHANGED <<autoReconnect, state>>
    BY <1>2, <2>1, <2>2, ZenonT(60)
  <2>3. CASE Go(t, "done") /\ state' = "ERROR"
    <3>1. Active(t) /\ Allowed(t, pc[t]) = {"RECONNECTING"} /\ "done" \in Label
      BY <1>1, <2>1, ZenonT(60) DEF Allowed, Label
    <3>2. pc'[t] = "done" /\ \A u \in Thread : u # t => pc'[u] = pc[u]
      BY <1>0, <2>3, <3>1, GoType, ZenonT(60) DEF Inv, TypeOK
    <3>3. ~Active(t)'
      BY <1>0, <3>2, ZenonT(60) DEF Active
    <3>4. Token' /\ Heard'
      BY <1>0, <2>1, <2>3, <3>1, <3>2, <3>3, TokenStep, ZenonT(60)
    <3>5. At(D, "off") => state = "RECONNECTING"
      BY <1>0, <3>1, ZenonT(60) DEF Inv, Heard
    <3> QED BY <2>3, <3>4, <3>5, Pairs DEF Tells
  <2> QED BY <1>3, <2>2, <2>3, ZenonT(60) DEF Loop
<1>4. CASE Sleep(t)
  <2>1. pc[t] = "sleep" /\ UNCHANGED <<running, state, autoReconnect>>
    BY <1>4, ZenonT(60) DEF Sleep, At, objectVars
  <2>2. \E l \in Making \cup {"done"} : Go(t, l)
    BY <1>4, ZenonT(60) DEF Sleep, Making
  <2> QED BY <1>2, <2>1, <2>2, ZenonT(60)
<1>5. CASE AttemptFailed(t)
  <2>1. pc[t] = "failed" /\ Go(t, "loop") /\ UNCHANGED <<running, autoReconnect>>
        /\ state' = IF autoReconnect THEN "RECONNECTING" ELSE state
    BY <1>5, ZenonT(60) DEF AttemptFailed, At
  <2>2. /\ Allowed(t, "failed") = {"RECONNECTING", "CONNECTED"}
        /\ Allowed(t, "loop") = {"RECONNECTING"} /\ "loop" \in Label
    BY <1>0, ZenonT(60) DEF Allowed, Making, Label
  <2>3. state \in Allowed(t, pc[t]) /\ autoReconnect =>
           state' = state \/ \E s \in States!Steps : s[1] = state /\ state' = s[2]
    BY <2>1, <2>2, Pairs, SMTT(60)
  <2> QED BY <1>0, <1>1, <2>1, <2>2, <2>3, GoStep, ZenonT(60)
<1> QED BY <1>3, <1>4, <1>5, ZenonT(60) DEF reconnect

\* A reading thread takes the token from running, if it is there.
LEMMA ReadToken ==
    ASSUME Inv, NEW t \in Readers, readLoop(t)
    PROVE  Token' /\ Heard' /\ Tells
<1>0. t \in Thread /\ t # D /\ t # C /\ t \notin Connectors
  BY Threads, ZenonT(60)
<1>1. ASSUME NEW l \in {"read", "ended", "done"}, Go(t, l), pc[t] \in {"begin", "read", "ended"},
             running' => running, UNCHANGED <<state, autoReconnect>>
      PROVE  Token' /\ Heard' /\ Tells
  <2>1. l \in Label
    BY ZenonT(60) DEF Label
  <2>2. /\ pc'[t] = l /\ pc'[D] = pc[D]
        /\ \A u \in Thread : u # t => pc'[u] = pc[u]
    BY <1>0, <1>1, <2>1, GoType, Threads, ZenonT(60) DEF Inv, TypeOK
  <2>3. ~Active(t)'
    BY <1>0, <2>2, ZenonT(60) DEF Active, Handing
  <2>4. \A u \in Thread : Active(u)' => Active(u) /\ pc'[u] = pc[u]
    BY <2>2, <2>3, ZenonT(60) DEF Active
  <2>5. Token'
    BY <1>1, <2>4, ZenonT(60) DEF Inv, Token
  <2>6. Heard'
    BY <1>1, <2>2, <2>4, ZenonT(60) DEF Inv, Heard, At
  <2> QED BY <1>1, <2>5, <2>6, ZenonT(60) DEF Tells
<1>2. CASE BeginReading(t)
  <2>1. pc[t] = "begin" /\ UNCHANGED <<running, state, autoReconnect>>
    BY <1>2, ZenonT(60) DEF BeginReading, At, objectVars
  <2>2. \E l \in {"read", "done"} : Go(t, l)
    BY <1>2, ZenonT(60) DEF BeginReading
  <2> QED BY <1>1, <2>1, <2>2, ZenonT(60)
<1>3. CASE ReadingEnds(t)
  <2>1. pc[t] = "read" /\ UNCHANGED <<running, state, autoReconnect>>
    BY <1>3, ZenonT(60) DEF ReadingEnds, At, objectVars
  <2>2. Go(t, "ended")
    BY <1>3, ZenonT(60) DEF ReadingEnds
  <2> QED BY <1>1, <2>1, <2>2, ZenonT(60)
<1>4. CASE AfterReading(t)
  <2>1. pc[t] = "ended" /\ running' = FALSE /\ autoReconnect' = autoReconnect
    BY <1>4, ZenonT(60) DEF AfterReading, At
  <2>2. CASE ~running /\ Go(t, "done") /\ UNCHANGED state
    BY <1>1, <2>1, <2>2, ZenonT(60)
  <2>3. CASE running /\ Go(t, "s0") /\ UNCHANGED state
    <3>1. /\ pc'[t] = "s0" /\ pc'[D] = pc[D]
          /\ \A u \in Thread : u # t => pc'[u] = pc[u]
      BY <1>0, <2>3, GoType, Threads, ZenonT(60) DEF Inv, TypeOK, Label
    <3>2. \A u \in Thread : ~Active(u)
      BY <2>3, ZenonT(60) DEF Inv, Token
    <3>3. \A u \in Thread : Active(u)' => u = t
      BY <3>1, <3>2, ZenonT(60) DEF Active
    <3>4. Token'
      BY <2>1, <3>3, ZenonT(60) DEF Token
    <3>5. "PLAYING" \in Allowed(t, "s0")
      BY <1>0, ZenonT(60) DEF Allowed, Making
    <3>6. Heard'
      BY <2>1, <2>3, <3>1, <3>3, <3>5, ZenonT(60) DEF Inv, Heard, At
    <3> QED BY <2>3, <3>4, <3>6, ZenonT(60) DEF Tells
  <2>4. CASE running /\ ~autoReconnect /\ Go(t, "done") /\ state' = "ERROR"
    <3>1. /\ pc'[t] = "done" /\ pc'[D] = pc[D]
          /\ \A u \in Thread : u # t => pc'[u] = pc[u]
      BY <1>0, <2>4, GoType, Threads, ZenonT(60) DEF Inv, TypeOK, Label
    <3>2. ~At(D, "off")
      BY <2>4, ZenonT(60) DEF Inv, Heard
    <3>3. \A u \in Thread : ~Active(u)'
      BY <1>0, <2>4, <3>1, ZenonT(60) DEF Inv, Token, Active, Handing
    <3> QED BY <3>1, <3>2, <3>3, ZenonT(60) DEF Token, Heard, Tells, At
  <2> QED BY <1>4, <2>2, <2>3, <2>4, ZenonT(60) DEF AfterReading
<1> QED BY <1>2, <1>3, <1>4, ZenonT(60) DEF readLoop

\* The disconnecting thread never has the token, and ends what is heard.
LEMMA DisconnectToken ==
    ASSUME Inv, ForbidReconnect \/ disconnect
    PROVE  Token' /\ Heard' /\ pc'[D] # "off" /\ (ForbidReconnect => UNCHANGED state)
           /\ (~ForbidReconnect => ~At(D, "off"))
<1>0. D \in Thread
  BY Threads, ZenonT(60)
<1>1. ASSUME NEW l \in Label \ {"off"}, Go(D, l), running' => running
      PROVE  Token' /\ Heard' /\ pc'[D] # "off"
  <2>1. pc'[D] = l /\ \A u \in Thread : u # D => pc'[u] = pc[u]
    BY <1>0, <1>1, GoType, ZenonT(60) DEF Inv, TypeOK
  <2>2. \A u \in Thread : Active(u)' => Active(u)
    BY <2>1, Threads, ZenonT(60) DEF Active
  <2> QED BY <1>1, <2>1, <2>2, ZenonT(60) DEF Inv, Token, Heard, At
<1>2. CASE ForbidReconnect
  BY <1>1, <1>2, ZenonT(60) DEF ForbidReconnect, Label
<1>3. CASE InterruptReconnector
  BY <1>1, <1>3, ZenonT(60) DEF InterruptReconnector, Label, ForbidReconnect, At
<1>4. CASE Disconnected
  BY <1>1, <1>4, ZenonT(60) DEF Disconnected, Label, ForbidReconnect, At
<1>5. CASE internalCleanup(D)
  <2>1. /\ ~At(D, "off") /\ (running' => running)
        /\ \E l \in Label \ {"off"} : Go(D, l)
    BY <1>5, SMTT(60) DEF internalCleanup, StopRunning, CloseSocket, JoinReader, ClearFields, Teardown,
                WriteTeardown, objectVars, At, Label
  <2> QED BY <1>1, <2>1, ZenonT(60) DEF ForbidReconnect
<1> QED BY <1>2, <1>3, <1>4, <1>5, ZenonT(60) DEF disconnect
----------------------------------------------------------------------------
(* The invariant and what follows from it.                                 *)

\* The start has the token with the connecting thread.
LEMMA InitInv == Init => Inv
<1> SUFFICES ASSUME Init PROVE Inv
  BY ZenonT(60)
<1>1. pc = [t \in Thread |-> IF t = C THEN (IF relay THEN "dial" ELSE "enter") ELSE "off"]
      /\ relay \in BOOLEAN
  BY ZenonT(60) DEF Init
<1>2. /\ \A t \in Thread : t # C => pc[t] = "off"
      /\ pc[C] \in {"dial", "enter"} /\ (relay => pc[C] = "dial")
      /\ pc \in [Thread -> Label]
  BY <1>1, Threads, ZenonT(60) DEF Label
<1>3. TypeOK
  <2>1. attempt \in [Thread -> 0..MAX_RECONNECT_ATTEMPTS]
    BY RtspClientLifeAssumption, SMTT(60) DEF Init
  <2> QED BY <1>1, <1>2, <2>1, ZenonT(60) DEF Init, TypeOK, NoSock
<1>4. Owned
  BY <1>2, Threads, ZenonT(60) DEF Owned
<1>5. \A t \in Thread : Active(t) => t = C
  BY <1>2, ZenonT(60) DEF Active, Handing
<1>6. Token
  BY <1>5, ZenonT(60) DEF Token, Init
<1>7. "CONNECTING" \in Allowed(C, pc[C])
  BY <1>2, ZenonT(60) DEF Allowed, Making
<1>8. Heard
  BY <1>5, <1>7, ZenonT(60) DEF Heard, Init
<1> QED BY <1>3, <1>4, <1>6, <1>8, ZenonT(60) DEF Inv

\* doConnect does not move the disconnecting thread.
LEMMA ConnectKeepsD ==
    ASSUME TypeOK, Owned, NEW t \in Connectors, doConnect(t)
    PROVE  pc'[D] = pc[D]
<1>0. t \in Thread /\ t # D /\ D \in Thread
  BY Threads, ZenonT(60)
<1>1. CASE Thrown(t)
  BY <1>0, <1>1, ThrownType, ZenonT(60)
<1>2. CASE \E l \in Label : Go(t, l)
  BY <1>0, <1>2, ZenonT(60) DEF Go, TypeOK
<1>3. CASE StartReading(t)
  <2>1. own[t] \in Sock
    BY <1>3, ZenonT(60) DEF StartReading, At, Owned
  <2> QED BY <1>0, <1>3, <2>1, Threads, ZenonT(60) DEF StartReading, TypeOK
<1> QED BY <1>1, <1>2, <1>3, ZenonT(60) DEF doConnect, Dial, Dialed, Enter, Connect, Publish, SetupVideo,
             SetupAudio, Play, Exchange, Label

\* Every step keeps the invariant, and until the client is disconnected it tells
\* what ClientStates allows.
LEMMA NextInv ==
    ASSUME Inv, [Next]_vars
    PROVE  Inv' /\ [States!Next]_<<state, ~At(D, "off")>>
<1>0. D \in Thread
  BY Threads, ZenonT(60)
<1>1. ASSUME Token', Heard', Tells, TypeOK', Owned', pc'[D] = pc[D]
      PROVE  Inv' /\ [States!Next]_<<state, ~At(D, "off")>>
  <2>1. Inv'
    BY <1>1, ZenonT(60) DEF Inv
  <2>2. state' \in States!State
    BY <1>1, ZenonT(60) DEF TypeOK, States!State
  <2> QED BY <1>1, <2>1, <2>2, ZenonT(60) DEF Tells, At, States!Next, States!Change, States!Unheard
<1>2. ASSUME UNCHANGED <<objectVars, threadVars>>, TypeOK'
      PROVE  Inv' /\ [States!Next]_<<state, ~At(D, "off")>>
  <2>1. UNCHANGED <<relay, state, autoReconnect, running, pc, own>>
    BY <1>2, ZenonT(60) DEF objectVars, threadVars
  <2>2. Owned'
    BY <2>1, ZenonT(60) DEF Inv, Owned
  <2>3. Token'
    BY <2>1, ZenonT(60) DEF Inv, Token, Active
  <2>4. Heard'
    BY <2>1, ZenonT(60) DEF Inv, Heard, Active, At
  <2> QED BY <1>2, <2>1, <2>2, <2>3, <2>4, ZenonT(60) DEF Inv, At
<1>3. CASE UNCHANGED vars
  <2>1. UNCHANGED <<objectVars, threadVars>>
    BY <1>3, ZenonT(60) DEF vars
  <2>2. TypeOK'
    BY <1>3, SMTT(60) DEF vars, objectVars, threadVars, netVars, Inv, TypeOK
  <2> QED BY <1>2, <2>1, <2>2, ZenonT(60)
<1>4. CASE \E s \in Sock : PeerEnds(s)
  <2>1. UNCHANGED <<objectVars, threadVars, conn, late>>
        /\ \E s \in Sock, p \in {"lost", "silent"} : peer' = [peer EXCEPT ![s] = p]
    BY <1>4, ZenonT(60) DEF PeerEnds
  <2>2. TypeOK'
    BY <2>1, SMTT(60) DEF objectVars, threadVars, Inv, TypeOK
  <2> QED BY <1>2, <2>1, <2>2, ZenonT(60)
<1>5. CASE \E t \in Thread : Step(t)
  <2>1. PICK t \in Thread : Step(t)
    BY <1>5, ZenonT(60)
  <2>2. CASE t \in Connectors /\ doConnect(t)
    <3>1. TypeOK' /\ Owned'
      BY <2>2, ConnectTypes, ZenonT(60) DEF Inv
    <3>2. Token' /\ Heard' /\ Tells
      BY <2>2, ConnectToken, ZenonT(60)
    <3>3. pc'[D] = pc[D]
      BY <2>2, ConnectKeepsD, ZenonT(60) DEF Inv
    <3> QED BY <1>1, <3>1, <3>2, <3>3, ZenonT(60)
  <2>3. CASE t \in Readers /\ readLoop(t)
    <3>1. TypeOK' /\ Owned'
      BY <2>3, OtherTypes, ZenonT(60) DEF Inv
    <3>2. Token' /\ Heard' /\ Tells
      BY <2>3, ReadToken, ZenonT(60)
    <3>3. pc'[D] = pc[D]
      BY <2>3, Threads, ZenonT(60) DEF readLoop, BeginReading, ReadingEnds, AfterReading, Go, Inv, TypeOK
    <3> QED BY <1>1, <3>1, <3>2, <3>3, ZenonT(60)
  <2>4. CASE t \in Reconnectors /\ reconnect(t)
    <3>1. TypeOK' /\ Owned'
      BY <2>4, OtherTypes, ZenonT(60) DEF Inv
    <3>2. Token' /\ Heard' /\ Tells
      BY <2>4, ReconnectToken, ZenonT(60)
    <3>3. pc'[D] = pc[D]
      BY <2>4, Threads, ZenonT(60) DEF reconnect, Loop, Sleep, AttemptFailed, Go, Inv, TypeOK
    <3> QED BY <1>1, <3>1, <3>2, <3>3, ZenonT(60)
  <2>5. CASE t \in Readers \cup {C} /\ scheduleReconnect(t)
    <3>1. TypeOK' /\ Owned'
      BY <2>5, OtherTypes, ZenonT(60) DEF Inv
    <3>2. Token' /\ Heard' /\ Tells
      BY <2>5, ScheduleToken, ZenonT(60)
    <3>3. pc'[D] = pc[D]
      BY <2>5, Threads, NewReconnectorType, ZenonT(60) DEF scheduleReconnect, BeginReconnect, Reconnecting,
           JoinReconnector, StartReconnector, Go, Inv, TypeOK
    <3> QED BY <1>1, <3>1, <3>2, <3>3, ZenonT(60)
  <2>6. CASE t \in Thread \ {D} /\ internalCleanup(t)
    <3>1. TypeOK' /\ Owned'
      BY <2>6, OtherTypes, ZenonT(60) DEF Inv
    <3>2. Token' /\ Heard' /\ Tells
      BY <2>6, CleanupToken, ZenonT(60)
    <3>3. pc'[D] = pc[D]
      BY <2>6, Threads, ZenonT(60) DEF internalCleanup, StopRunning, CloseSocket, JoinReader, ClearFields,
           Go, Inv, TypeOK
    <3> QED BY <1>1, <3>1, <3>2, <3>3, ZenonT(60)
  <2> QED BY <2>1, <2>2, <2>3, <2>4, <2>5, <2>6, ZenonT(60) DEF Step
<1>6. CASE ForbidReconnect \/ disconnect
  <2>1. TypeOK' /\ Owned'
    BY <1>0, <1>6, OtherTypes, ZenonT(60) DEF Inv, disconnect
  <2>2. Token' /\ Heard' /\ pc'[D] # "off" /\ (ForbidReconnect => UNCHANGED state)
        /\ (~ForbidReconnect => ~At(D, "off"))
    BY <1>6, DisconnectToken, ZenonT(60)
  <2>3. state' \in States!State
    BY <2>1, ZenonT(60) DEF TypeOK, States!State
  <2>4. Inv'
    BY <2>1, <2>2, ZenonT(60) DEF Inv
  <2>5. ForbidReconnect => At(D, "off")
    BY ZenonT(60) DEF ForbidReconnect
  <2> QED BY <2>2, <2>3, <2>4, <2>5, ZenonT(60) DEF At, States!Next, States!Detach, States!Unheard
<1> QED BY <1>3, <1>4, <1>5, <1>6, ZenonT(60) DEF Next

\* The invariant holds in every state of the client.
LEMMA Always == Spec => []Inv
<1>1. Inv /\ [Next]_vars => Inv'
  BY NextInv, ZenonT(60)
<1> QED BY InitInv, <1>1, PTL DEF Spec

\* The fields of a client hold values of their types, and no reconnecting thread
\* counts past MAX_RECONNECT_ATTEMPTS (RtspClient.kt:475).
THEOREM LifeTypes == Spec => []TypeOK
<1>1. Inv => TypeOK
  BY ZenonT(60) DEF Inv
<1> QED BY Always, <1>1, PTL

\* However many connections and attempts there are, at most one thread of a client
\* can still make a connection (RtspClient.kt:420-455, 461-515).
THEOREM ConnectsAlone == Spec => []OneConnector
<1>1. Inv => OneConnector
  <2> SUFFICES ASSUME Inv PROVE OneConnector
    BY ZenonT(60)
  <2> DEFINE S == {t \in Connectors : pc[t] \notin {"off", "done"}}
  <2>1. \A t, u \in S : t = u
    BY Threads, ZenonT(60) DEF Inv, Token, Active
  <2>2. CASE S = {}
    <3>1. Cardinality(S) = 0
      BY <2>2, FS_EmptySet, ZenonT(60)
    <3> QED BY <3>1 DEF OneConnector
  <2>3. CASE S # {}
    <3>1. PICK t : t \in S
      BY <2>3, ZenonT(60)
    <3>2. S = {t}
      BY <2>1, <3>1, ZenonT(60)
    <3>3. Cardinality(S) = 1
      BY <3>2, FS_Singleton, ZenonT(60)
    <3> QED BY <3>3 DEF OneConnector
  <2> QED BY <2>2, <2>3, ZenonT(60)
<1> QED BY Always, <1>1, PTL

\* The client implements ClientStates: whatever its threads do, the app hears the
\* states in the order ClientStates gives (RtspClient.kt:236, 243, 466, 501, 511).
THEOREM TellsTheStates == Spec => TellsInOrder
<1>1. Init => States!Init
  BY Threads, ZenonT(60) DEF Init, States!Init, At
<1>2. Inv /\ [Next]_vars => [States!Next]_<<state, ~At(D, "off")>>
  BY NextInv, ZenonT(60)
<1> QED BY Always, <1>1, <1>2, PTL DEF Spec, TellsInOrder, States!Spec
----------------------------------------------------------------------------
(* The read thread and the interrupts.                                     *)

\* Between the cleanup of scheduleReconnect and the reconnecting thread.
Between == {"s2", "join2", "s4"}

\* From the cleanup before it starts to its end, a reconnecting thread finds no
\* read thread, and no other thread is ever interrupted.
NoReader ==
    /\ \A x \in Reconnectors : pc[x] \notin {"off", "done"} => readThread = NoThread
    /\ \A t \in Readers \cup {C} : pc[t] \in Between => readThread = NoThread
    /\ \A t \in Thread : interrupted[t] => t \in Reconnectors

\* A step of one thread that sets no read thread.
LEMMA ReaderMove ==
    ASSUME NoReader, NEW t \in Thread,
           t \in Reconnectors => pc[t] \notin {"off", "done"},
           \A u \in Thread : u # t => pc'[u] = pc[u],
           pc'[t] \in Between => pc[t] \in Between \/ readThread' = NoThread,
           readThread' \in {readThread, NoThread},
           \A u \in Thread : interrupted'[u] => interrupted[u] \/ u \in Reconnectors
    PROVE  NoReader'
<1>1. \A x \in Reconnectors : x \in Thread
  BY Threads, ZenonT(60)
<1>2. \A u \in Readers \cup {C} : u \in Thread
  BY Threads, ZenonT(60)
<1>3. \A x \in Reconnectors : pc'[x] \notin {"off", "done"} => readThread' = NoThread
  BY <1>1, ZenonT(60) DEF NoReader
<1>4. \A u \in Readers \cup {C} : pc'[u] \in Between => readThread' = NoThread
  BY <1>2, ZenonT(60) DEF NoReader
<1> QED BY <1>3, <1>4, ZenonT(60) DEF NoReader, Readers, Reconnectors, Sock

\* The same for a step to another label.
LEMMA ReaderGo ==
    ASSUME TypeOK, NoReader, NEW t \in Thread, NEW l \in Label, Go(t, l),
           t \in Reconnectors => pc[t] \notin {"off", "done"},
           l \in Between => pc[t] \in Between \/ readThread' = NoThread,
           readThread' \in {readThread, NoThread},
           \A u \in Thread : interrupted'[u] => interrupted[u] \/ u \in Reconnectors
    PROVE  NoReader'
<1>1. pc'[t] = l /\ \A u \in Thread : u # t => pc'[u] = pc[u]
  BY GoType, ZenonT(60) DEF TypeOK
<1> QED BY <1>1, ReaderMove, ZenonT(60)

\* Only the end of doConnect sets a read thread, and no other thread is active then.
LEMMA ConnectReader ==
    ASSUME Inv, NoReader, NEW t \in Connectors, doConnect(t)
    PROVE  NoReader'
<1>0. TypeOK /\ t \in Thread
  BY Threads, ZenonT(60) DEF Inv
<1>1. CASE StartReading(t)
  <2>1. pc[t] = "start" /\ UNCHANGED interrupted
    BY <1>1, ZenonT(60) DEF StartReading, At
  <2>2. Active(t) /\ own[t] \in Sock
    BY <2>1, ZenonT(60) DEF Active, Inv, Owned
  <2>3. <<"R", own[t]>> \in Readers /\ <<"R", own[t]>> \notin Connectors
    BY <2>2, Threads, ZenonT(60)
  <2>4. pc' = [pc EXCEPT ![t] = "done", ![<<"R", own[t]>>] = "begin"]
    BY <1>1, ZenonT(60) DEF StartReading
  <2>5. /\ pc'[t] = "done"
        /\ \A u \in Thread : /\ pc'[u] \in {pc[u], "done", "begin"}
                             /\ u \in Connectors => pc'[u] # "begin" \/ pc[u] = "begin"
    BY <1>0, <2>3, <2>4, Threads, ZenonT(60) DEF TypeOK
  <2>6. \A u \in Thread : u # t => ~Active(u)
    BY <1>0, <2>2, ZenonT(60) DEF Inv, Token
  <2>7. \A x \in Reconnectors : pc'[x] \in {"off", "done"}
    BY <2>5, <2>6, Threads DEF Active
  <2>8. \A u \in Readers \cup {C} : pc'[u] \notin Between
    BY <2>5, <2>6, Threads DEF Active, Between, Handing
  <2> QED BY <2>1, <2>7, <2>8, ZenonT(60) DEF NoReader, Readers, Reconnectors, Sock
<1>2. CASE ~StartReading(t)
  <2>1. UNCHANGED <<readThread, interrupted>> /\ pc[t] \notin {"off", "done"}
    BY <1>2, ZenonT(60) DEF doConnect, Dial, Dialed, Enter, Connect, Publish, SetupVideo, SetupAudio, Play,
                Exchange, At
  <2>2. \/ Thrown(t)
        \/ \E l \in {"dialed", "enter", "publish", "connect", "done", "setup", "setup2", "play",
                     "start"} : Go(t, l)
    BY <1>2, ZenonT(60) DEF doConnect, Dial, Dialed, Enter, Connect, Publish, SetupVideo, SetupAudio, Play,
                Exchange
  <2>3. CASE Thrown(t)
    <3>1. pc'[t] \notin Between /\ \A u \in Thread : u # t => pc'[u] = pc[u]
      BY <1>0, <2>3, ThrownType, ZenonT(60) DEF Between
    <3> QED BY <1>0, <2>1, <3>1, ReaderMove, ZenonT(60)
  <2>4. CASE \E l \in {"dialed", "enter", "publish", "connect", "done", "setup", "setup2",
                       "play", "start"} : Go(t, l)
    BY <1>0, <2>1, <2>4, ReaderGo, ZenonT(60) DEF Label, Between
  <2> QED BY <2>2, <2>3, <2>4, ZenonT(60)
<1> QED BY <1>1, <1>2, ZenonT(60)

\* The other steps set none, and only reconnecting threads are interrupted.
LEMMA OtherReader ==
    ASSUME Inv, NoReader, NEW t \in Thread,
           \/ internalCleanup(t) \/ (t \in Readers /\ readLoop(t))
           \/ (t \in Readers \cup {C} /\ scheduleReconnect(t))
           \/ (t \in Reconnectors /\ reconnect(t))
           \/ (t = D /\ (ForbidReconnect \/ InterruptReconnector \/ Disconnected))
    PROVE  NoReader'
<1>0. TypeOK /\ D \notin Reconnectors /\ C \notin Reconnectors
      /\ \A r \in Readers : r \notin Reconnectors
  BY Threads, ZenonT(60) DEF Inv
<1> USE DEF At, objectVars
<1>1. CASE StopRunning(t) \/ CloseSocket(t) \/ JoinReader(t)
  <2>1. UNCHANGED <<readThread, interrupted>> /\ pc[t] \notin {"off", "done"}
    BY <1>1, ZenonT(60) DEF StopRunning, CloseSocket, JoinReader
  <2>2. \E l \in {"teardown", "close", "join", "clear"} : Go(t, l)
    BY <1>1, ZenonT(60) DEF StopRunning, CloseSocket, JoinReader
  <2> QED BY <1>0, <2>1, <2>2, ReaderGo, ZenonT(60) DEF Label, Between
<1>2. CASE t = D /\ (Teardown \/ WriteTeardown \/ ForbidReconnect \/ Disconnected)
  <2>1. UNCHANGED <<readThread, interrupted>>
    BY <1>2, ZenonT(60) DEF Teardown, WriteTeardown, ForbidReconnect, Disconnected
  <2>2. \E l \in {"write", "close", "d2", "done"} : Go(t, l)
    BY <1>2, ZenonT(60) DEF Teardown, WriteTeardown, ForbidReconnect, Disconnected
  <2> QED BY <1>0, <1>2, <2>1, <2>2, ReaderGo, ZenonT(60) DEF Label, Between
<1>3. CASE ClearFields(t)
  <2>1. readThread' = NoThread /\ UNCHANGED interrupted /\ pc[t] \notin {"off", "done"}
    BY <1>3, ZenonT(60) DEF ClearFields
  <2>2. \E l \in {"d3", "failed", "s2"} : Go(t, l)
    BY <1>3, ZenonT(60) DEF ClearFields
  <2> QED BY <1>0, <2>1, <2>2, ReaderGo, ZenonT(60) DEF Label
<1>4. CASE t \in Readers /\ readLoop(t)
  <2>1. UNCHANGED <<readThread, interrupted>>
    BY <1>4, ZenonT(60) DEF readLoop, BeginReading, ReadingEnds, AfterReading
  <2>2. \E l \in {"done", "read", "ended", "s0"} : Go(t, l)
    BY <1>4, ZenonT(60) DEF readLoop, BeginReading, ReadingEnds, AfterReading
  <2> QED BY <1>0, <1>4, <2>1, <2>2, ReaderGo, ZenonT(60) DEF Label, Between
<1>5. CASE t \in Readers \cup {C} /\ (BeginReconnect(t) \/ JoinReconnector(t))
  <2>1. UNCHANGED <<readThread, interrupted>>
    BY <1>5, ZenonT(60) DEF BeginReconnect, JoinReconnector
  <2>2. \E l \in {"c1", "done", "s4"} : Go(t, l) /\ (l = "s4" => pc[t] \in Between)
    BY <1>5, ZenonT(60) DEF BeginReconnect, JoinReconnector, Between
  <2> QED BY <1>0, <1>5, <2>1, <2>2, ReaderGo, ZenonT(60) DEF Label, Between
<1>6. CASE t \in Readers \cup {C} /\ Reconnecting(t)
  <2>1. /\ UNCHANGED readThread /\ Go(t, "join2") /\ pc[t] \in Between
        /\ \A u \in Thread : interrupted'[u] => interrupted[u] \/ u = reconnectThread
    BY <1>6, ZenonT(60) DEF Reconnecting, Between
  <2>2. \A u \in Thread : u = reconnectThread => u \in Reconnectors
    BY <1>0, Threads, ZenonT(60) DEF TypeOK
  <2> QED BY <1>0, <1>6, <2>1, <2>2, ReaderGo, ZenonT(60) DEF Label
<1>7. CASE t \in Readers \cup {C} /\ StartReconnector(t)
  <2>1. PICK x \in NewReconnectors : pc' = [pc EXCEPT ![t] = "done", ![x] = "loop"]
    BY <1>7, ZenonT(60) DEF StartReconnector
  <2>2. readThread = NoThread /\ UNCHANGED <<readThread, interrupted>>
    BY <1>7, ZenonT(60) DEF StartReconnector, NoReader, Between
  <2> QED BY <2>2, ZenonT(60) DEF NoReader, Readers, Reconnectors, Sock
<1>8. CASE t \in Reconnectors /\ reconnect(t)
  <2>1. UNCHANGED <<readThread, interrupted>> /\ pc[t] \notin {"off", "done"}
    BY <1>8, ZenonT(60) DEF reconnect, Loop, Sleep, AttemptFailed
  <2>2. \E l \in {"done", "sleep", "dial", "enter", "loop"} : Go(t, l)
    BY <1>8, ZenonT(60) DEF reconnect, Loop, Sleep, AttemptFailed
  <2> QED BY <1>0, <2>1, <2>2, ReaderGo, ZenonT(60) DEF Label, Between
<1>9. CASE t = D /\ InterruptReconnector
  <2>1. /\ UNCHANGED readThread /\ Go(t, "c1")
        /\ \A u \in Thread : interrupted'[u] => interrupted[u] \/ u = reconnectThread
    BY <1>9, ZenonT(60) DEF InterruptReconnector
  <2>2. \A u \in Thread : u = reconnectThread => u \in Reconnectors
    BY <1>0, Threads, ZenonT(60) DEF TypeOK
  <2> QED BY <1>0, <1>9, <2>1, <2>2, ReaderGo, ZenonT(60) DEF Label, Between
<1> QED BY <1>1, <1>2, <1>3, <1>4, <1>5, <1>6, <1>7, <1>8, <1>9, ZenonT(60)
        DEF internalCleanup, scheduleReconnect

\* Every step keeps reconnecting threads without a read thread.
LEMMA NextReader == Inv /\ NoReader /\ [Next]_vars => NoReader'
<1> SUFFICES ASSUME Inv, NoReader, [Next]_vars PROVE NoReader'
  BY ZenonT(60)
<1>1. CASE UNCHANGED vars \/ \E s \in Sock : PeerEnds(s)
  <2>1. UNCHANGED <<pc, readThread, interrupted>>
    BY <1>1, ZenonT(60) DEF vars, PeerEnds, objectVars, threadVars
  <2> QED BY <2>1, ZenonT(60) DEF NoReader, Readers, Reconnectors, Sock
<1>2. ASSUME NEW t \in Thread, Step(t) PROVE NoReader'
  BY <1>2, ConnectReader, OtherReader, ZenonT(60) DEF Step
<1>3. CASE ForbidReconnect \/ disconnect
  BY <1>3, OtherReader, Threads, ZenonT(60) DEF disconnect
<1> QED BY <1>1, <1>2, <1>3, ZenonT(60) DEF Next

\* readThread.join (RtspClient.kt:443) is never reached by an interrupted thread
\* with a read thread to wait for, however many connections and attempts there are.
THEOREM NeverInterruptedInJoin == Spec => []NoInterruptedJoin
<1>1. Init => NoReader
  BY ZenonT(60) DEF Init, NoReader, Between, Readers, Reconnectors, Sock
<1>2. NoReader => NoInterruptedJoin
  BY ZenonT(60) DEF NoReader, NoInterruptedJoin, At
<1> QED BY Always, NextReader, <1>1, <1>2, PTL DEF Spec
----------------------------------------------------------------------------
(* The connections left open.                                              *)

NothingOpen == \A s \in Sock : conn[s] # "open"

\* Thread t has a connection that is not yet the field socket.
Unpublished(t) == pc[t] \in {"dialed", "publish"} \/ (pc[t] = "enter" /\ relay)

\* Thread t has closed its last connection and made no new one.
Bare(t) ==
    \/ pc[t] \in {"dial", "connect", "join", "clear", "s2", "join2", "s4", "failed", "loop",
                  "sleep"}
    \/ pc[t] = "enter" /\ ~relay

\* disconnect has not met a thread that was connecting.
Calm == At(D, "off") \/ ~late

\* An open connection is the field socket, or belongs to the thread about to
\* publish it; there is none once a cleanup has closed it.
Tidy ==
    /\ \A t \in Thread : Active(t) /\ Bare(t) => NothingOpen
    /\ \A t \in Connectors : Unpublished(t) => \A s \in Sock : conn[s] = "open" => s = own[t]
    /\ (\A t \in Connectors : ~Unpublished(t)) => \A s \in Sock : conn[s] = "open" => s = socket
    /\ pc[D] \in {"join", "clear", "d3", "done"} => NothingOpen
    /\ ~At(D, "off") => ~autoReconnect /\ \A t \in Connectors : ~Connecting(t)
    /\ \A t \in Connectors : pc[t] \in {"dial", "dialed"} => relay

\* A step after which nothing is open.
LEMMA TidyClosed ==
    ASSUME Tidy, NothingOpen', At(D, "off") => At(D, "off")', autoReconnect' => autoReconnect,
           \A u \in Connectors : Connecting(u)' => Connecting(u) \/ autoReconnect,
           \A u \in Connectors :
             pc'[u] \in {"dial", "dialed"} => pc[u] \in {"dial", "dialed"} \/ relay,
           relay' = relay
    PROVE  Tidy'
<1>1. ~At(D, "off")' => ~autoReconnect' /\ \A u \in Connectors : ~Connecting(u)'
  BY ZenonT(60) DEF Tidy
<1>2. \A u \in Connectors : pc'[u] \in {"dial", "dialed"} => relay'
  BY ZenonT(60) DEF Tidy
<1> QED BY <1>1, <1>2, ZenonT(60) DEF Tidy, NothingOpen, Connectors, Reconnectors

\* A step that leaves the connections alone.
LEMMA TidyMove ==
    ASSUME Tidy, UNCHANGED <<conn, socket, relay>>, autoReconnect' => autoReconnect,
           At(D, "off") => At(D, "off")',
           pc'[D] \in {"join", "clear", "d3", "done"} => pc[D] \in {"join", "clear", "d3", "done"},
           \A u \in Thread : Active(u)' /\ Bare(u)' => Active(u) /\ Bare(u),
           \A u \in Connectors : /\ own'[u] = own[u]
                                 /\ Unpublished(u)' <=> Unpublished(u)
                                 /\ Connecting(u)' => Connecting(u)
                                 /\ pc'[u] \in {"dial", "dialed"} => pc[u] \in {"dial", "dialed"}
    PROVE  Tidy'
<1>1. NothingOpen' <=> NothingOpen
  BY ZenonT(60) DEF NothingOpen, Sock
<1>2. \A u \in Thread : Active(u)' /\ Bare(u)' => NothingOpen'
  BY <1>1, ZenonT(60) DEF Tidy
<1>3. \A u \in Connectors : Unpublished(u)' => \A s \in Sock : conn'[s] = "open" => s = own'[u]
  BY ZenonT(60) DEF Tidy
<1>4. (\A u \in Connectors : ~Unpublished(u)') => \A s \in Sock : conn'[s] = "open" => s = socket'
  BY ZenonT(60) DEF Tidy
<1>5. pc'[D] \in {"join", "clear", "d3", "done"} => NothingOpen'
  BY <1>1, ZenonT(60) DEF Tidy
<1>6. ~At(D, "off")' => ~autoReconnect' /\ \A u \in Connectors : ~Connecting(u)'
  BY ZenonT(60) DEF Tidy
<1>7. \A u \in Connectors : pc'[u] \in {"dial", "dialed"} => relay'
  BY ZenonT(60) DEF Tidy
<1> QED BY <1>2, <1>3, <1>4, <1>5, <1>6, <1>7, ZenonT(60)
        DEF Tidy, Connectors, Reconnectors, Thread, Readers, Sock, C, D

\* A thread that connects opens a connection: it is the only one.
LEMMA TidyOpens ==
    ASSUME Inv, Tidy, NEW t \in Connectors, NEW s \in Sock, NEW l \in {"dialed", "publish"},
           conn' = [conn EXCEPT ![s] = "open"], own' = [own EXCEPT ![t] = s], Go(t, l),
           pc[t] \in {"dial", "connect"}, l = "dialed" => pc[t] = "dial",
           UNCHANGED <<relay, autoReconnect>>
    PROVE  Tidy'
<1>0. TypeOK /\ t \in Thread /\ t # D /\ l \in Label
  BY Threads, ZenonT(60) DEF Inv, Label
<1>1. Active(t) /\ Bare(t) /\ Connecting(t)
  BY ZenonT(60) DEF Active, Bare, Connecting
<1>2. NothingOpen /\ At(D, "off")
  BY <1>0, <1>1, ZenonT(60) DEF Tidy
<1>3. pc'[t] = l /\ \A u \in Thread : u # t => pc'[u] = pc[u]
  BY <1>0, GoType, ZenonT(60) DEF TypeOK
<1>4. own'[t] = s /\ \A r \in Sock : conn'[r] = "open" => r = s
  BY <1>0, <1>2, ZenonT(60) DEF TypeOK, NothingOpen
<1>5. \A u \in Thread : u # t => ~Active(u)
  BY <1>0, <1>1, ZenonT(60) DEF Inv, Token
<1>6. \A u \in Thread : u # t => ~Active(u)'
  BY <1>3, <1>5, ZenonT(60) DEF Active
<1>7. Unpublished(t)' /\ ~Bare(t)'
  BY <1>3, ZenonT(60) DEF Unpublished, Bare
<1>8. \A u \in Connectors : u # t => ~Unpublished(u)'
  BY <1>6, Threads, ZenonT(60) DEF Unpublished, Active
<1>9. At(D, "off")' /\ pc'[D] \notin {"join", "clear", "d3", "done"}
  BY <1>0, <1>2, <1>3, Threads, ZenonT(60) DEF At
<1>10. \A u \in Connectors : pc'[u] \in {"dial", "dialed"} => relay'
  BY <1>3, Threads, ZenonT(60) DEF Tidy
<1>11. \A u \in Thread : ~(Active(u)' /\ Bare(u)')
  BY <1>6, <1>7, ZenonT(60)
<1>12. \A u \in Connectors : Unpublished(u)' => \A r \in Sock : conn'[r] = "open" => r = own'[u]
  BY <1>4, <1>8, ZenonT(60)
<1> QED BY <1>7, <1>9, <1>10, <1>11, <1>12, ZenonT(60)
        DEF Tidy, Connectors, Reconnectors, Thread, Readers, Sock, C, D

\* A step of one thread between two labels that are neither bare nor unpublished.
LEMMA TidyGo ==
    ASSUME Inv, Tidy, NEW t \in Thread \ {D},
           \A u \in Thread : u # t => pc'[u] = pc[u],
           UNCHANGED <<conn, socket, relay>>, autoReconnect' => autoReconnect,
           \A u \in Connectors : own'[u] = own[u],
           Bare(t)' => Bare(t), Active(t)' /\ Bare(t)' => Active(t),
           t \in Connectors => /\ Unpublished(t)' <=> Unpublished(t)
                               /\ Connecting(t)' => Connecting(t)
                               /\ pc'[t] \in {"dial", "dialed"} => pc[t] \in {"dial", "dialed"}
    PROVE  Tidy'
<1>1. pc'[D] = pc[D]
  BY Threads, ZenonT(60)
<1>2. \A u \in Thread : u # t => /\ Active(u)' <=> Active(u)
                                 /\ Bare(u)' <=> Bare(u)
                                 /\ Unpublished(u)' <=> Unpublished(u)
                                 /\ Connecting(u)' <=> Connecting(u)
  BY ZenonT(60) DEF Active, Bare, Unpublished, Connecting
<1>3. \A u \in Thread : Active(u)' /\ Bare(u)' => Active(u) /\ Bare(u)
  BY <1>2, ZenonT(60)
<1>4. \A u \in Connectors : /\ own'[u] = own[u]
                            /\ Unpublished(u)' <=> Unpublished(u)
                            /\ Connecting(u)' => Connecting(u)
                            /\ pc'[u] \in {"dial", "dialed"} => pc[u] \in {"dial", "dialed"}
  BY <1>2, Threads, ZenonT(60)
<1> QED BY <1>1, <1>3, <1>4, TidyMove, ZenonT(60) DEF At

\* The steps of doConnect.
LEMMA ConnectTidy ==
    ASSUME Inv, Tidy, NEW t \in Connectors, doConnect(t)
    PROVE  Tidy'
<1>0. TypeOK /\ t \in Thread \ {D} /\ t # D /\ t \in Thread
  BY Threads, ZenonT(60) DEF Inv
<1>1. /\ UNCHANGED <<relay, autoReconnect>> /\ (socket' = socket \/ Publish(t))
      /\ Connecting(t) /\ Active(t)
  BY ZenonT(60) DEF doConnect, Dial, Dialed, Enter, Connect, Publish, SetupVideo, SetupAudio, Play,
         Exchange, StartReading, At, Connecting, Active
<1>2. At(D, "off") /\ \A u \in Thread : u # t => ~Active(u)
  BY <1>0, <1>1, ZenonT(60) DEF Tidy, Inv, Token
<1>3. ASSUME Thrown(t), NothingOpen' PROVE Tidy'
  <2>1. pc'[t] \in {"c1", "s0", "done"} /\ \A u \in Thread : u # t => pc'[u] = pc[u]
    BY <1>0, <1>3, ThrownType, ZenonT(60)
  <2>2. At(D, "off")'
    BY <1>0, <1>2, <2>1, Threads, ZenonT(60) DEF At
  <2>3. \A u \in Connectors : /\ Connecting(u)' => Connecting(u)
                              /\ pc'[u] \in {"dial", "dialed"} => pc[u] \in {"dial", "dialed"}
    BY <2>1, Threads, ZenonT(60) DEF Connecting
  <2> QED BY <1>1, <1>3, <2>2, <2>3, TidyClosed, ZenonT(60)
<1>4. CASE Dial(t) \/ Connect(t)
  <2>1. pc[t] \in {"dial", "connect"} /\ (Dial(t) => pc[t] = "dial")
    BY <1>4, ZenonT(60) DEF Dial, Connect, At
  <2>2. CASE Thrown(t) /\ UNCHANGED conn
    <3>1. NothingOpen
      BY <1>0, <1>1, <2>1, ZenonT(60) DEF Tidy, Bare
    <3> QED BY <1>3, <2>2, <3>1, ZenonT(60) DEF NothingOpen, Sock
  <2>3. CASE \E s \in NewSocks, l \in {"dialed", "publish"} :
               /\ conn' = [conn EXCEPT ![s] = "open"]
               /\ own' = [own EXCEPT ![t] = s]
               /\ Go(t, l)
               /\ l = "dialed" => pc[t] = "dial"
    BY <1>1, <2>1, <2>3, NewSockType, TidyOpens, ZenonT(60)
  <2> QED BY <1>4, <2>1, <2>2, <2>3, ZenonT(60) DEF Dial, Connect
<1>5. CASE Dialed(t)
  <2>1. pc[t] = "dialed" /\ UNCHANGED own
    BY <1>5, ZenonT(60) DEF Dialed, At
  <2>2. own[t] \in Sock /\ Unpublished(t)
    BY <2>1, ZenonT(60) DEF Inv, Owned, Unpublished
  <2>3. CASE Go(t, "enter") /\ UNCHANGED conn
    <3>1. pc'[t] = "enter" /\ relay /\ relay' /\ \A u \in Thread : u # t => pc'[u] = pc[u]
      BY <1>0, <1>1, <2>1, <2>3, GoType DEF TypeOK, Label, Tidy
    <3>2. socket' = socket
      BY <1>5, ZenonT(60) DEF Dialed
    <3>3. ~Bare(t)' /\ Unpublished(t)' /\ pc'[t] \notin {"dial", "dialed"}
      BY <3>1, ZenonT(60) DEF Bare, Unpublished
    <3> QED BY <1>0, <1>1, <2>1, <2>2, <2>3, <3>1, <3>2, <3>3, TidyGo
  <2>4. CASE Thrown(t) /\ conn' = [conn EXCEPT ![own[t]] = "closed"]
    <3>1. \A s \in Sock : conn[s] = "open" => s = own[t]
      BY <2>2, ZenonT(60) DEF Tidy
    <3>2. NothingOpen'
      BY <1>0, <2>2, <2>4, <3>1, ZenonT(60) DEF NothingOpen, TypeOK, Sock
    <3> QED BY <1>3, <2>4, <3>2, ZenonT(60)
  <2> QED BY <1>5, <2>3, <2>4, ZenonT(60) DEF Dialed
<1>6. CASE Enter(t)
  <2>1. pc[t] = "enter" /\ UNCHANGED <<own, conn, socket>>
    BY <1>6, ZenonT(60) DEF Enter, At, netVars
  <2>2. state \in {"CONNECTING", "RECONNECTING"}
    BY <1>0, <1>1, <1>2, <2>1, ZenonT(60) DEF Inv, Heard, Allowed, Making
  <2>3. Go(t, IF relay THEN "publish" ELSE "connect")
    BY <1>6, <2>2, ZenonT(60) DEF Enter
  <2>4. /\ pc'[t] = IF relay THEN "publish" ELSE "connect"
        /\ \A u \in Thread : u # t => pc'[u] = pc[u]
    BY <1>0, <2>3, GoType, ZenonT(60) DEF TypeOK, Label
  <2>5. /\ Bare(t)' => Bare(t)
        /\ Unpublished(t)' <=> Unpublished(t)
        /\ pc'[t] \notin {"dial", "dialed"}
    BY <1>1, <2>1, <2>4, ZenonT(60) DEF Bare, Unpublished
  <2> QED BY <1>0, <1>1, <2>1, <2>4, <2>5, TidyGo, ZenonT(60)
<1>7. CASE Publish(t)
  <2>1. pc[t] = "publish" /\ socket' = own[t] /\ Go(t, "setup") /\ UNCHANGED <<own, conn>>
    BY <1>7, ZenonT(60) DEF Publish, At, netVars
  <2>2. pc'[t] = "setup" /\ \A u \in Thread : u # t => pc'[u] = pc[u]
    BY <1>0, <2>1, GoType, ZenonT(60) DEF TypeOK, Label
  <2>3. \A s \in Sock : conn'[s] = "open" => s = socket'
    BY <2>1, ZenonT(60) DEF Tidy, Unpublished
  <2>4. ~Bare(t)' /\ ~Unpublished(t)' /\ pc'[t] \notin {"dial", "dialed"}
    BY <2>2, ZenonT(60) DEF Bare, Unpublished
  <2>5. \A u \in Thread : u # t => ~Active(u)'
    BY <1>2, <2>2, ZenonT(60) DEF Active
  <2>6. \A u \in Connectors : ~Unpublished(u)'
    BY <2>4, <2>5, Threads, ZenonT(60) DEF Unpublished, Active
  <2>7. At(D, "off")' /\ pc'[D] \notin {"join", "clear", "d3", "done"}
    BY <1>0, <1>2, <2>2, Threads, ZenonT(60) DEF At
  <2>8. \A u \in Connectors : pc'[u] \in {"dial", "dialed"} => relay'
    BY <1>1, <2>2, <2>4, Threads, ZenonT(60) DEF Tidy
  <2>9. \A u \in Thread : ~(Active(u)' /\ Bare(u)')
    BY <2>4, <2>5, ZenonT(60)
  <2> QED BY <2>3, <2>6, <2>7, <2>8, <2>9, ZenonT(60)
          DEF Tidy, Connectors, Reconnectors, Thread, Readers, Sock, C, D
<1>8. CASE SetupVideo(t) \/ SetupAudio(t) \/ Play(t)
  <2>1. /\ pc[t] \in {"setup", "setup2", "play"} /\ UNCHANGED <<own, conn, socket>>
        /\ Thrown(t) \/ \E l \in {"setup2", "play", "start"} : Go(t, l)
    BY <1>8, ZenonT(60) DEF SetupVideo, SetupAudio, Play, Exchange, At, netVars
  <2>2. /\ pc'[t] \in {"setup2", "play", "start", "c1", "s0", "done"}
        /\ \A u \in Thread : u # t => pc'[u] = pc[u]
    BY <1>0, <2>1, GoType, ThrownType DEF TypeOK, Label
  <2>3. ~Bare(t)' /\ ~Unpublished(t)' /\ ~Unpublished(t) /\ pc'[t] \notin {"dial", "dialed"}
    BY <2>1, <2>2, ZenonT(60) DEF Bare, Unpublished
  <2> QED BY <1>0, <1>1, <2>1, <2>2, <2>3, TidyGo, ZenonT(60)
<1>9. CASE StartReading(t)
  <2>1. /\ pc[t] = "start" /\ UNCHANGED <<own, conn, socket>>
        /\ pc' = [pc EXCEPT ![t] = "done", ![<<"R", own[t]>>] = "begin"]
    BY <1>9, ZenonT(60) DEF StartReading, At, netVars
  <2>2. <<"R", own[t]>> \in Readers
    BY <2>1, Threads, ZenonT(60) DEF Inv, Owned
  <2>7. \A u \in Thread : pc'[u] = IF u = <<"R", own[t]>> THEN "begin"
                                   ELSE IF u = t THEN "done" ELSE pc[u]
    BY <1>0, <2>1, ZenonT(60) DEF TypeOK
  <2>8. \A u \in Connectors \cup {D} : u # <<"R", own[t]>>
    BY <2>2, Threads, ZenonT(60)
  <2>3. \A u \in Thread :
          /\ pc'[u] \in {pc[u], "done", "begin"}
          /\ u \in Connectors \cup {D} => pc'[u] = pc[u] \/ (u = t /\ pc'[u] = "done")
    BY <2>7, <2>8, ZenonT(60)
  <2>4. pc'[D] = pc[D]
    BY <1>0, <2>3, Threads, ZenonT(60)
  <2>5. \A u \in Thread : Active(u)' /\ Bare(u)' => Active(u) /\ Bare(u)
    BY <1>1, <2>3, Threads DEF Active, Bare, Handing
  <2>6. \A u \in Connectors : /\ own'[u] = own[u]
                              /\ Unpublished(u)' <=> Unpublished(u)
                              /\ Connecting(u)' => Connecting(u)
                              /\ pc'[u] \in {"dial", "dialed"} => pc[u] \in {"dial", "dialed"}
    BY <1>1, <2>1, <2>3, Threads, ZenonT(60) DEF Unpublished, Connecting
  <2> QED BY <1>1, <2>1, <2>4, <2>5, <2>6, TidyMove, ZenonT(60) DEF At
<1> QED BY <1>4, <1>5, <1>6, <1>7, <1>8, <1>9, ZenonT(60) DEF doConnect

\* A step of a bare thread, or one that closes the field socket.
LEMMA CleanupTidy ==
    ASSUME Inv, Tidy, NEW t \in Thread, internalCleanup(t)
    PROVE  Tidy'
<1>0. TypeOK /\ t \in Thread
  BY ZenonT(60) DEF Inv
<1>1. UNCHANGED <<relay, autoReconnect, own>>
  BY ZenonT(60) DEF internalCleanup, StopRunning, CloseSocket, JoinReader, ClearFields, Teardown,
         WriteTeardown, objectVars
<1>2. \E l \in {"teardown", "close", "join", "clear", "d3", "failed", "s2", "write"} : Go(t, l)
  BY ZenonT(60) DEF internalCleanup, StopRunning, CloseSocket, JoinReader, ClearFields, Teardown,
         WriteTeardown
<1>3. pc[t] \in {"c1", "close", "join", "clear", "teardown", "write"}
  BY ZenonT(60) DEF internalCleanup, StopRunning, CloseSocket, JoinReader, ClearFields, Teardown,
         WriteTeardown, At
<1>4. /\ pc'[t] \in {"teardown", "close", "join", "clear", "d3", "failed", "s2", "write"}
      /\ \A u \in Thread : u # t => pc'[u] = pc[u]
  BY <1>0, <1>2, GoType DEF TypeOK, Label
<1>5. \A u \in Connectors : /\ Connecting(u)' => Connecting(u)
                            /\ pc'[u] \in {"dial", "dialed"} => pc[u] \in {"dial", "dialed"}
                            /\ Unpublished(u)' <=> Unpublished(u)
  BY <1>1, <1>3, <1>4, Threads, ZenonT(60) DEF Connecting, Unpublished
<1>6. At(D, "off") => At(D, "off")'
  BY <1>3, <1>4, Threads, ZenonT(60) DEF At
<1>7. t # D /\ pc[t] \in {"close", "join", "clear"} => Active(t)
  BY <1>0, Threads, ZenonT(60) DEF Active, Handing, Thread, Connectors
<1>8. CASE CloseSocket(t)
  <2>1. pc[t] = "close" /\ conn' = [s \in Sock |-> IF s = socket THEN "closed" ELSE conn[s]]
    BY <1>8, ZenonT(60) DEF CloseSocket, At
  <2>2. \A u \in Connectors : ~Unpublished(u)
    <3>1. CASE t = D
      BY <2>1, <3>1, ZenonT(60) DEF Tidy, At, Unpublished, Connecting
    <3>2. CASE t # D
      <4>1. \A u \in Thread : u # t => ~Active(u)
        BY <1>0, <1>7, <2>1, <3>2, ZenonT(60) DEF Inv, Token
      <4> QED BY <2>1, <4>1, Threads, ZenonT(60) DEF Active, Unpublished
    <3> QED BY <3>1, <3>2, ZenonT(60)
  <2>3. NothingOpen'
    BY <2>1, <2>2, ZenonT(60) DEF Tidy, NothingOpen, Sock
  <2> QED BY <1>1, <1>5, <1>6, <2>3, TidyClosed, ZenonT(60)
<1>9. CASE JoinReader(t) \/ ClearFields(t)
  <2>1. pc[t] \in {"join", "clear"} /\ UNCHANGED conn
    BY <1>9, ZenonT(60) DEF JoinReader, ClearFields, At, netVars
  <2>2. NothingOpen
    <3>1. CASE t = D
      BY <2>1, <3>1, ZenonT(60) DEF Tidy
    <3>2. CASE t # D
      BY <1>0, <1>7, <2>1, <3>2, ZenonT(60) DEF Tidy, Bare
    <3> QED BY <3>1, <3>2, ZenonT(60)
  <2>3. NothingOpen'
    BY <2>1, <2>2, ZenonT(60) DEF NothingOpen, Sock
  <2> QED BY <1>1, <1>5, <1>6, <2>3, TidyClosed, ZenonT(60)
<1>10. CASE StopRunning(t) \/ (t = D /\ (Teardown \/ WriteTeardown))
  <2>1. UNCHANGED <<conn, socket>>
    BY <1>10, ZenonT(60) DEF StopRunning, Teardown, WriteTeardown, netVars, objectVars
  <2>2. \E l \in {"teardown", "close", "write"} : Go(t, l)
    BY <1>10, ZenonT(60) DEF StopRunning, Teardown, WriteTeardown
  <2>3. pc'[t] \in {"teardown", "close", "write"}
    BY <1>0, <2>2, GoType DEF TypeOK, Label
  <2>4. pc'[D] \in {"join", "clear", "d3", "done"} => pc[D] \in {"join", "clear", "d3", "done"}
    BY <1>4, <2>3, Threads, ZenonT(60)
  <2>5. \A u \in Thread : Active(u)' /\ Bare(u)' => Active(u) /\ Bare(u)
    BY <1>1, <1>4, <2>3, ZenonT(60) DEF Active, Bare
  <2> QED BY <1>1, <1>5, <1>6, <2>1, <2>4, <2>5, TidyMove, ZenonT(60)
<1> QED BY <1>8, <1>9, <1>10, ZenonT(60) DEF internalCleanup

\* The steps of the read threads and of scheduleReconnect.
LEMMA ReadTidy ==
    ASSUME Inv, Tidy, NEW t \in Readers \cup {C},
           \/ t \in Readers /\ readLoop(t)
           \/ scheduleReconnect(t)
    PROVE  Tidy'
<1>0. TypeOK /\ t \in Thread \ {D} /\ t \in Thread
  BY Threads, ZenonT(60) DEF Inv
<1>1. UNCHANGED <<relay, autoReconnect, socket, conn>>
  BY ZenonT(60) DEF readLoop, BeginReading, ReadingEnds, AfterReading, scheduleReconnect, BeginReconnect,
         Reconnecting, JoinReconnector, StartReconnector, objectVars, netVars
<1>2. CASE BeginReconnect(t) \/ (t \in Readers /\ readLoop(t))
  <2>1. /\ \E l \in {"done", "read", "ended", "s0", "c1"} : Go(t, l)
        /\ t \in Connectors => pc[t] = "s0"
    BY <1>2, Threads, ZenonT(60) DEF readLoop, BeginReading, ReadingEnds, AfterReading, BeginReconnect, At
  <2>2. /\ pc'[t] \in {"done", "read", "ended", "s0", "c1"}
        /\ \A u \in Thread : u # t => pc'[u] = pc[u]
    BY <1>0, <2>1, GoType DEF TypeOK, Label
  <2>3. \A u \in Connectors : own'[u] = own[u]
    BY <1>0, <1>2, Threads, ZenonT(60) DEF readLoop, BeginReading, ReadingEnds, AfterReading, BeginReconnect,
                               TypeOK
  <2>4. /\ ~Bare(t)'
        /\ t \in Connectors => /\ Unpublished(t)' <=> Unpublished(t)
                               /\ Connecting(t)' => Connecting(t)
                               /\ pc'[t] \in {"dial", "dialed"} => pc[t] \in {"dial", "dialed"}
    BY <2>1, <2>2, ZenonT(60) DEF Bare, Unpublished, Connecting
  <2> QED BY <1>0, <1>1, <2>2, <2>3, <2>4, TidyGo, ZenonT(60)
<1>3. CASE Reconnecting(t) \/ JoinReconnector(t) \/ StartReconnector(t)
  <2>1. pc[t] \in {"s2", "join2", "s4"}
    BY <1>3, ZenonT(60) DEF Reconnecting, JoinReconnector, StartReconnector, At
  <2>2. Active(t) /\ Bare(t)
    BY <2>1, Threads, ZenonT(60) DEF Active, Bare, Handing
  <2>3. NothingOpen'
    BY <1>0, <1>1, <2>2, ZenonT(60) DEF Tidy, NothingOpen, Sock
  <2>4. \A u \in Thread : pc'[u] = pc[u] \/ (u # D /\ pc'[u] \in {"join2", "s4", "done", "loop"})
    <3>1. CASE Reconnecting(t) \/ JoinReconnector(t)
      <4>1. \E l \in {"join2", "s4"} : Go(t, l)
        BY <3>1, ZenonT(60) DEF Reconnecting, JoinReconnector
      <4>2. pc'[t] \in {"join2", "s4"} /\ \A u \in Thread : u # t => pc'[u] = pc[u]
        BY <1>0, <4>1, GoType DEF TypeOK, Label
      <4> QED BY <1>0, <4>2, ZenonT(60)
    <3>2. CASE StartReconnector(t)
      <4>1. PICK x \in NewReconnectors : pc' = [pc EXCEPT ![t] = "done", ![x] = "loop"]
        BY <3>2, ZenonT(60) DEF StartReconnector
      <4>2. x # D /\ t # D
        BY <1>0, NewReconnectorType, Threads, ZenonT(60)
      <4>3. \A u \in Thread : pc'[u] = IF u = x THEN "loop" ELSE IF u = t THEN "done" ELSE pc[u]
        BY <1>0, <4>1, ZenonT(60) DEF TypeOK
      <4> QED BY <4>2, <4>3, ZenonT(60)
    <3> QED BY <1>3, <3>1, <3>2, ZenonT(60)
  <2>5. At(D, "off") => At(D, "off")'
    BY <2>4, Threads, ZenonT(60) DEF At
  <2>6. \A u \in Connectors : /\ Connecting(u)' => Connecting(u)
                              /\ pc'[u] \in {"dial", "dialed"} => pc[u] \in {"dial", "dialed"}
    BY <2>4, Threads, ZenonT(60) DEF Connecting
  <2> QED BY <1>1, <2>3, <2>5, <2>6, TidyClosed, ZenonT(60)
<1> QED BY <1>2, <1>3, ZenonT(60) DEF scheduleReconnect

\* The steps of a reconnecting thread.
LEMMA ReconnectTidy ==
    ASSUME Inv, Tidy, NEW t \in Reconnectors, reconnect(t)
    PROVE  Tidy'
<1>0. TypeOK /\ t \in Thread \ {D} /\ t \in Thread /\ t \in Connectors
  BY Threads, ZenonT(60) DEF Inv
<1>1. UNCHANGED <<relay, socket, conn>> /\ pc[t] \in {"loop", "sleep", "failed"}
      /\ (autoReconnect' => autoReconnect)
  BY DEF reconnect, Loop, Sleep, AttemptFailed, At, netVars, objectVars
<1>2. \E l \in {"done", "sleep", "dial", "enter", "loop"} :
        /\ Go(t, l)
        /\ l \in {"dial", "enter"} => autoReconnect
        /\ l = "dial" => relay
  BY ZenonT(60) DEF reconnect, Loop, Sleep, AttemptFailed
<1>3. /\ pc'[t] \in {"done", "sleep", "dial", "enter", "loop"}
      /\ pc'[t] \in {"dial", "enter"} => autoReconnect
      /\ pc'[t] = "dial" => relay
      /\ \A u \in Thread : u # t => pc'[u] = pc[u]
  BY <1>0, <1>2, GoType DEF TypeOK, Label
<1>4. NothingOpen'
  BY <1>0, <1>1, ZenonT(60) DEF Tidy, Active, Bare, NothingOpen, Sock
<1>5. At(D, "off") => At(D, "off")'
  BY <1>0, <1>3, Threads, ZenonT(60) DEF At
<1>6. \A u \in Connectors :
        /\ Connecting(u)' => Connecting(u) \/ autoReconnect
        /\ pc'[u] \in {"dial", "dialed"} => pc[u] \in {"dial", "dialed"} \/ relay
  BY <1>3, Threads, ZenonT(60) DEF Connecting
<1> QED BY <1>1, <1>4, <1>5, <1>6, TidyClosed, ZenonT(60)

\* Only the disconnecting thread moves itself.
LEMMA StepKeepsD ==
    ASSUME TypeOK, Owned, NEW t \in Thread, Step(t)
    PROVE  pc'[D] = pc[D]
<1>1. CASE t \in Connectors /\ doConnect(t)
  BY <1>1, ConnectKeepsD, ZenonT(60)
<1>2. ASSUME t # D, \E l \in Label : Go(t, l) PROVE pc'[D] = pc[D]
  BY <1>2, GoType, Threads, ZenonT(60) DEF TypeOK
<1>3. CASE t \in Readers /\ readLoop(t)
  BY <1>2, <1>3, Threads, ZenonT(60) DEF readLoop, BeginReading, ReadingEnds, AfterReading, Label
<1>4. CASE t \in Reconnectors /\ reconnect(t)
  BY <1>2, <1>4, Threads, ZenonT(60) DEF reconnect, Loop, Sleep, AttemptFailed, Label
<1>5. CASE t \in Readers \cup {C} /\ scheduleReconnect(t)
  <2>1. t # D
    BY <1>5, Threads, ZenonT(60)
  <2>2. CASE StartReconnector(t)
    <3>1. PICK x \in NewReconnectors : pc' = [pc EXCEPT ![t] = "done", ![x] = "loop"]
      BY <2>2, ZenonT(60) DEF StartReconnector
    <3>2. x # D
      BY NewReconnectorType, Threads, ZenonT(60)
    <3> QED BY <2>1, <3>1, <3>2, Threads, ZenonT(60) DEF TypeOK
  <2> QED BY <1>2, <1>5, <2>1, <2>2, ZenonT(60) DEF scheduleReconnect, BeginReconnect, Reconnecting,
                                        JoinReconnector, Label
<1>6. CASE t \in Thread \ {D} /\ internalCleanup(t)
  BY <1>2, <1>6, ZenonT(60) DEF internalCleanup, StopRunning, CloseSocket, JoinReader, ClearFields, Label
<1> QED BY <1>1, <1>3, <1>4, <1>5, <1>6, ZenonT(60) DEF Step

\* Every step, as long as disconnect has not met a thread that was connecting.
LEMMA NextTidy == Inv /\ (Calm => Tidy) /\ [Next]_vars => (Calm => Tidy)'
<1> SUFFICES ASSUME Inv, Calm => Tidy, [Next]_vars, Calm' PROVE Tidy'
  BY ZenonT(60)
<1>0. TypeOK
  BY ZenonT(60) DEF Inv
<1>1. CASE UNCHANGED vars \/ \E s \in Sock : PeerEnds(s)
  <2>1. UNCHANGED <<pc, own, conn, socket, relay, autoReconnect, late>>
    BY <1>1, ZenonT(60) DEF vars, PeerEnds, objectVars, threadVars, netVars
  <2>2. Tidy
    BY <2>1 DEF Calm, At
  <2> QED BY <2>1, <2>2, TidyMove, ZenonT(60) DEF At, Active, Bare, Unpublished, Connecting
<1>2. ASSUME NEW t \in Thread, Step(t) PROVE Tidy'
  <2>1. late' = late
    BY <1>2, ZenonT(60) DEF Step, doConnect, Dial, Dialed, Enter, Connect, Publish, SetupVideo, SetupAudio,
                Play, Exchange, StartReading, internalCleanup, StopRunning, CloseSocket, JoinReader,
                ClearFields, Teardown, WriteTeardown, readLoop, BeginReading, ReadingEnds,
                AfterReading, scheduleReconnect, BeginReconnect, Reconnecting, JoinReconnector,
                StartReconnector, reconnect, Loop, Sleep, AttemptFailed
  <2>2. pc'[D] = pc[D]
    BY <1>0, <1>2, StepKeepsD, ZenonT(60) DEF Inv
  <2>3. Tidy
    BY <2>1, <2>2, ZenonT(60) DEF Calm, At
  <2> QED BY <1>2, <2>3, ConnectTidy, CleanupTidy, ReadTidy, ReconnectTidy, Threads, ZenonT(60) DEF Step
<1>3. CASE disconnect
  <2>1. late' = late /\ pc[D] # "off"
    BY <1>3, ZenonT(60) DEF disconnect, InterruptReconnector, Disconnected, internalCleanup, StopRunning,
                CloseSocket, JoinReader, ClearFields, Teardown, WriteTeardown, At
  <2>2. ~At(D, "off")' => Tidy
    BY <2>1, ZenonT(60) DEF Calm
  <2>3. \/ internalCleanup(D)
        \/ /\ InterruptReconnector \/ Disconnected
           /\ UNCHANGED <<relay, autoReconnect, socket, conn, own>>
           /\ \E l \in {"c1", "done"} : Go(D, l) /\ (l = "done" => pc[D] = "d3")
    BY <1>3, ZenonT(60) DEF disconnect, InterruptReconnector, Disconnected, At, netVars
  <2>4. pc'[D] # "off"
    <3>1. \E l \in Label \ {"off"} : Go(D, l)
      BY <1>3, ZenonT(60) DEF disconnect, InterruptReconnector, Disconnected, internalCleanup, StopRunning,
                  CloseSocket, JoinReader, ClearFields, Teardown, WriteTeardown, Label
    <3> QED BY <1>0, <3>1, GoType, Threads, ZenonT(60) DEF TypeOK
  <2>5. Tidy
    BY <2>2, <2>4, ZenonT(60) DEF At
  <2>6. CASE internalCleanup(D)
    BY <2>5, <2>6, CleanupTidy, Threads, ZenonT(60)
  <2>7. CASE ~internalCleanup(D)
    <3>1. /\ UNCHANGED <<relay, autoReconnect, socket, conn, own>>
          /\ \E l \in {"c1", "done"} : Go(D, l) /\ (l = "done" => pc[D] = "d3")
      BY <2>3, <2>7, ZenonT(60)
    <3>2. /\ pc'[D] \in {"c1", "done"} /\ (pc'[D] = "done" => pc[D] = "d3")
          /\ \A u \in Thread : u # D => pc'[u] = pc[u]
      BY <1>0, <3>1, GoType, Threads DEF TypeOK, Label
    <3>3. \A u \in Thread : Active(u)' /\ Bare(u)' => Active(u) /\ Bare(u)
      BY <3>1, <3>2, Threads, ZenonT(60) DEF Active, Bare
    <3>4. \A u \in Connectors : /\ own'[u] = own[u]
                                /\ Unpublished(u)' <=> Unpublished(u)
                                /\ Connecting(u)' => Connecting(u)
                                /\ pc'[u] \in {"dial", "dialed"} => pc[u] \in {"dial", "dialed"}
      BY <3>1, <3>2, Threads, ZenonT(60) DEF Unpublished, Connecting
    <3> QED BY <2>1, <2>5, <3>1, <3>2, <3>3, <3>4, TidyMove, ZenonT(60) DEF At
  <2> QED BY <2>6, <2>7, ZenonT(60)
<1>4. CASE ForbidReconnect
  <2>1. /\ At(D, "off") /\ autoReconnect' = FALSE /\ Go(D, "d2")
        /\ late' = \E t \in Connectors : Connecting(t)
        /\ UNCHANGED <<relay, socket, conn, own>>
    BY <1>4, ZenonT(60) DEF ForbidReconnect, netVars
  <2>2. Tidy
    BY <2>1, ZenonT(60) DEF Calm
  <2>3. pc'[D] = "d2" /\ \A u \in Thread : u # D => pc'[u] = pc[u]
    BY <1>0, <2>1, GoType, Threads, ZenonT(60) DEF TypeOK, Label
  <2>4. ~late'
    BY <2>3, ZenonT(60) DEF Calm, At
  <2>5. \A u \in Connectors : /\ Connecting(u)' <=> Connecting(u)
                              /\ Unpublished(u)' <=> Unpublished(u)
                              /\ pc'[u] = pc[u]
    BY <2>1, <2>3, Threads, ZenonT(60) DEF Connecting, Unpublished
  <2>6. \A u \in Connectors : ~Connecting(u)'
    BY <2>1, <2>4, <2>5, ZenonT(60)
  <2>7. \A u \in Thread : Active(u)' /\ Bare(u)' => NothingOpen'
    BY <2>1, <2>2, <2>3, Threads, ZenonT(60) DEF Active, Bare, Tidy, NothingOpen, Sock
  <2>8. \A u \in Connectors : ~Unpublished(u)' /\ ~Unpublished(u)
    BY <2>5, <2>6, ZenonT(60) DEF Connecting, Unpublished
  <2>9. \A s \in Sock : conn'[s] = "open" => s = socket'
    BY <2>1, <2>2, <2>8, ZenonT(60) DEF Tidy
  <2>10. \A u \in Connectors : pc'[u] \in {"dial", "dialed"} => relay'
    BY <2>1, <2>2, <2>5, ZenonT(60) DEF Tidy
  <2> QED BY <2>1, <2>3, <2>6, <2>7, <2>8, <2>9, <2>10, ZenonT(60)
          DEF Tidy, Connectors, Reconnectors, Thread, Readers, Sock, C, D
<1> QED BY <1>1, <1>2, <1>3, <1>4, ZenonT(60) DEF Next

\* A connection still open after disconnect belongs to a thread that was
\* connecting when disconnect began (RtspClient.kt, disconnect and doConnect).
THEOREM LeavesNothingOpen == Spec => []LeakHasACause
<1>1. Init => (Calm => Tidy)
  <2> SUFFICES ASSUME Init PROVE Tidy
    BY ZenonT(60)
  <2>1. NothingOpen /\ At(D, "off")
    BY Threads, ZenonT(60) DEF Init, NothingOpen, At
  <2>2. \A t \in Connectors : pc[t] \in {"dial", "dialed"} => relay
    BY Threads, ZenonT(60) DEF Init
  <2> QED BY <2>1, <2>2, ZenonT(60) DEF Tidy, NothingOpen, At
<1>2. TypeOK /\ (Calm => Tidy) => LeakHasACause
  BY ZenonT(60) DEF TypeOK, Calm, Tidy, LeakHasACause, At, NothingOpen
<1> QED BY Always, NextTidy, <1>1, <1>2, PTL DEF Spec, Inv
=============================================================================
