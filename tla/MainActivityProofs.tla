------------------------- MODULE MainActivityProofs -------------------------
(***************************************************************************)
(* Proofs about MainActivity with its clients and the doorbell, for any    *)
(* number of rings, clients and reconnections.  The doorbell, the clients  *)
(* and the UI thread each have their inductive invariant.                  *)
(***************************************************************************)
EXTENDS MainActivity, SequenceTheorems, TLAPS

----------------------------------------------------------------------------
(* The doorbell.                                                           *)

\* Rings are accepted in their order, and the one that waits is the last.
InOrder ==
    /\ \A r, q \in Ring : q < r /\ fate[r] # "none" => fate[q] # "none"
    /\ \A r \in Ring : pending # NoRing /\ pending < r => fate[r] = "none"

BellInv == DoorbellTypeOK /\ RingInOnePlace /\ InOrder

\* The bounds of rings as numbers.
LEMMA Rings ==
    /\ NoRing \notin Ring
    /\ \A r \in Ring : r \in Int /\ 1 <= r /\ r <= MaxRings
    /\ MaxRings \in Int
    /\ \A r \in Int : 1 <= r /\ r <= MaxRings => r \in Ring
BY DoorbellAssumption DEF Ring, NoRing

\* A new ring follows the one that waits, which it joins.
LEMMA TriggerStep ==
    ASSUME BellInv, handle_doorbell_trigger
    PROVE  BellInv'
<1> USE DEF BellInv, DoorbellTypeOK
<1>1. PICK r \in Ring : /\ fate[r] = "none"
                        /\ \A q \in 1..(r - 1) : fate[q] # "none"
                        /\ pending' = r
                        /\ fate' = [Meets(pending, "joined") EXCEPT ![r] = "waits"]
  BY ZenonT(60) DEF handle_doorbell_trigger
<1>2. UNCHANGED <<poller, answer, screen>>
  BY ZenonT(60) DEF handle_doorbell_trigger, serviceVars
<1>3. \A q \in Ring : q < r => fate[q] # "none"
  BY <1>1, Rings
<1>4. \A q \in Ring : r < q => fate[q] = "none"
  BY <1>1, Rings, ZenonT(60) DEF InOrder
<1>5. \A q \in Ring : fate'[q] = IF q = r THEN "waits"
                                 ELSE IF q = pending THEN "joined" ELSE fate[q]
  BY <1>1, Rings, ZenonT(60) DEF Meets
<1>6. pending # NoRing => pending \in Ring /\ pending + 1 = r
  <2> SUFFICES ASSUME pending # NoRing PROVE pending \in Ring /\ pending + 1 = r
    BY ZenonT(60)
  <2>1. pending \in Ring /\ fate[pending] = "waits"
    BY ZenonT(60) DEF RingInOnePlace
  <2>2. pending # r /\ ~(r < pending)
    BY <1>1, <1>4, <2>1, ZenonT(60)
  <2>3. pending < r
    BY <2>1, <2>2, Rings
  <2>4. ~(pending + 1 < r)
    <3> SUFFICES ASSUME pending + 1 < r PROVE FALSE
      BY ZenonT(60)
    <3>1. pending + 1 \in Ring /\ pending < pending + 1
      BY <2>1, Rings
    <3>2. fate[pending + 1] = "none"
      BY <3>1, ZenonT(60) DEF InOrder
    <3> QED BY <1>3, <3>1, <3>2, ZenonT(60)
  <2> QED BY <2>1, <2>3, <2>4, Rings
<1>7. DoorbellTypeOK'
  <2>1. fate' \in [Ring -> Fate]
    BY <1>1, ZenonT(60) DEF Meets, Fate
  <2> QED BY <1>1, <1>2, <2>1, ZenonT(60)
<1>8. InOrder'
  <2>1. \A p, q \in Ring : q < p /\ fate'[p] # "none" => fate'[q] # "none"
    <3> SUFFICES ASSUME NEW p \in Ring, NEW q \in Ring, q < p, fate'[p] # "none"
                 PROVE  fate'[q] # "none"
      BY ZenonT(60)
    <3>1. CASE p = r
      BY <1>3, <1>5, <3>1, ZenonT(60)
    <3>2. CASE p # r
      <4>1. fate[p] # "none"
        BY <1>5, <3>2, ZenonT(60) DEF RingInOnePlace
      <4>2. fate[q] # "none"
        BY <4>1, ZenonT(60) DEF InOrder
      <4> QED BY <1>5, <4>2, ZenonT(60)
    <3> QED BY <3>1, <3>2, ZenonT(60)
  <2>2. \A q \in Ring : r < q => fate'[q] = "none"
    <3> SUFFICES ASSUME NEW q \in Ring, r < q PROVE fate'[q] = "none"
      BY ZenonT(60)
    <3>1. q # r /\ q # pending
      BY <1>6, Rings
    <3> QED BY <1>4, <1>5, <3>1, ZenonT(60)
  <2> QED BY <1>1, <2>1, <2>2, ZenonT(60) DEF InOrder
<1>9. RingInOnePlace'
  <2> SUFFICES ASSUME NEW q \in Ring
               PROVE  /\ (fate'[q] = "waits") <=> (r = q)
                      /\ (fate'[q] = "answered") <=> (answer = q)
                      /\ fate'[q] = "joined" => q < MaxRings /\ fate'[q + 1] # "none"
    BY <1>1, <1>2, ZenonT(60) DEF RingInOnePlace
  <2>1. (fate'[q] = "waits") <=> (r = q)
    BY <1>5, ZenonT(60) DEF RingInOnePlace
  <2>2. (fate'[q] = "answered") <=> (answer = q)
    <3>1. (fate[q] = "answered") <=> (answer = q)
      BY ZenonT(60) DEF RingInOnePlace
    <3>2. q = pending => fate[q] = "waits"
      BY ZenonT(60) DEF RingInOnePlace
    <3>3. q = r => fate[q] = "none"
      BY <1>1, ZenonT(60)
    <3>4. fate'[q] = IF q = r THEN "waits" ELSE IF q = pending THEN "joined" ELSE fate[q]
      BY <1>5, ZenonT(60)
    <3>5. CASE q = r
      BY <3>1, <3>3, <3>4, <3>5, ZenonT(60)
    <3>6. CASE q # r /\ q = pending
      BY <3>1, <3>2, <3>4, <3>6, ZenonT(60)
    <3>7. CASE q # r /\ q # pending
      BY <3>1, <3>4, <3>7, ZenonT(60)
    <3> QED BY <3>5, <3>6, <3>7, ZenonT(60)
  <2>3. CASE q = pending
    <3>1. q + 1 = r /\ q < MaxRings
      BY <1>6, <2>3, Rings
    <3>2. fate'[q + 1] = "waits"
      BY <1>5, <3>1, ZenonT(60)
    <3> QED BY <2>1, <2>2, <3>1, <3>2, ZenonT(60)
  <2>4. CASE q # pending
    <3> SUFFICES ASSUME fate'[q] = "joined" PROVE q < MaxRings /\ fate'[q + 1] # "none"
      BY <2>1, <2>2, ZenonT(60)
    <3>1. fate[q] = "joined"
      BY <1>5, <2>4, ZenonT(60)
    <3>2. q < MaxRings /\ fate[q + 1] # "none"
      BY <3>1, ZenonT(60) DEF RingInOnePlace
    <3>3. q + 1 \in Ring
      BY <3>2, Rings
    <3> QED BY <1>5, <3>2, <3>3, ZenonT(60)
  <2> QED BY <2>1, <2>2, <2>3, <2>4, ZenonT(60)
<1> QED BY <1>7, <1>8, <1>9, ZenonT(60)

\* A ring whose place and fate change together keeps the invariant: f is what
\* becomes of ring p, which leaves its place.
LEMMA MeetsStep ==
    ASSUME BellInv, NEW p \in Ring, NEW f \in {"answered", "over"},
           fate' = [fate EXCEPT ![p] = f],
           fate[p] # "none", fate[p] # "joined",
           pending' = IF pending = p THEN NoRing ELSE pending,
           answer' = IF f = "answered" THEN p ELSE IF answer = p THEN NoRing ELSE answer,
           f = "answered" => answer = NoRing,
           poller' \in {"ask", "served", "launch", "done"},
           screen' \in Ring \cup {NoRing}
    PROVE  BellInv'
<1> USE DEF BellInv, DoorbellTypeOK
<1>1. \A q \in Ring : fate'[q] = IF q = p THEN f ELSE fate[q]
  BY ZenonT(60)
<1>2. DoorbellTypeOK'
  BY ZenonT(60) DEF Fate
<1>3. InOrder'
  <2>1. \A r, q \in Ring : q < r /\ fate'[r] # "none" => fate'[q] # "none"
    BY <1>1, ZenonT(60) DEF InOrder
  <2>2. \A r \in Ring : pending' # NoRing /\ pending' < r => fate'[r] = "none"
    BY <1>1, ZenonT(60) DEF InOrder
  <2> QED BY <2>1, <2>2, ZenonT(60) DEF InOrder
<1>4. RingInOnePlace'
  <2> SUFFICES ASSUME NEW q \in Ring
               PROVE  /\ (fate'[q] = "waits") <=> (pending' = q)
                      /\ (fate'[q] = "answered") <=> (answer' = q)
                      /\ fate'[q] = "joined" => q < MaxRings /\ fate'[q + 1] # "none"
    BY ZenonT(60) DEF RingInOnePlace
  <2>1. q # NoRing /\ p # NoRing
    BY Rings, ZenonT(60)
  <2>2. /\ (fate[q] = "waits") <=> (pending = q)
        /\ (fate[q] = "answered") <=> (answer = q)
    BY ZenonT(60) DEF RingInOnePlace
  <2>3. fate'[q] = "joined" => q < MaxRings /\ fate'[q + 1] # "none"
    <3> SUFFICES ASSUME fate'[q] = "joined" PROVE q < MaxRings /\ fate'[q + 1] # "none"
      BY ZenonT(60)
    <3>1. fate[q] = "joined"
      BY <1>1, ZenonT(60)
    <3>2. q < MaxRings /\ fate[q + 1] # "none"
      BY <3>1, ZenonT(60) DEF RingInOnePlace
    <3>3. q + 1 \in Ring
      BY <3>2, Rings
    <3> QED BY <1>1, <3>2, <3>3, ZenonT(60)
  <2>4. CASE q = p
    BY <1>1, <2>1, <2>2, <2>3, <2>4, ZenonT(60)
  <2>5. CASE q # p
    BY <1>1, <2>1, <2>2, <2>3, <2>5, ZenonT(60)
  <2> QED BY <2>4, <2>5, ZenonT(60)
<1> QED BY <1>2, <1>3, <1>4, ZenonT(60)

\* Only the step between request and call screen carries a ring.
Carried == answer # NoRing => poller \in {"served", "launch"}

\* Every step of device, service and call screen keeps both.
LEMMA BellStep ==
    ASSUME BellInv, Carried, NEW streaming, Bell \/ pollLoop(streaming)
    PROVE  BellInv' /\ Carried'
<1> USE DEF BellInv, DoorbellTypeOK, serviceVars, bellVars
<1>0. /\ pending # NoRing => pending \in Ring /\ fate[pending] = "waits" /\ answer # pending
      /\ answer # NoRing => answer \in Ring /\ fate[answer] = "answered" /\ answer # pending
  BY ZenonT(60) DEF RingInOnePlace
<1>1. CASE handle_doorbell_trigger
  BY <1>1, TriggerStep, ZenonT(60) DEF Carried, handle_doorbell_trigger
<1>2. CASE OtherRequest
  <2>1. /\ pending \in Ring /\ fate' = [fate EXCEPT ![pending] = "over"]
        /\ pending' = NoRing /\ UNCHANGED <<poller, answer, screen>>
    BY <1>0, <1>2, ZenonT(60) DEF OtherRequest, handle_doorbell_status, Meets
  <2>2. Carried'
    BY <2>1, ZenonT(60) DEF Carried
  <2>3. PICK p \in Ring : p = pending
    BY <2>1, ZenonT(60)
  <2>4. /\ fate' = [fate EXCEPT ![p] = "over"] /\ fate[p] = "waits"
        /\ pending' = IF pending = p THEN NoRing ELSE pending
        /\ answer' = IF answer = p THEN NoRing ELSE answer
    BY <1>0, <2>1, <2>3, Rings, ZenonT(60)
  <2> QED BY <2>1, <2>2, <2>4, MeetsStep, ZenonT(60)
<1>3. CASE Served
  <2>1. /\ pending \in Ring /\ fate' = [fate EXCEPT ![pending] = "answered"]
        /\ pending' = NoRing /\ answer' = pending /\ poller' = "served"
        /\ screen' = screen /\ answer = NoRing
    BY <1>0, <1>3, ZenonT(60) DEF Served, handle_doorbell_status, Meets, Carried
  <2>2. Carried'
    BY <2>1, ZenonT(60) DEF Carried
  <2>3. PICK p \in Ring : p = pending
    BY <2>1, ZenonT(60)
  <2>4. /\ fate' = [fate EXCEPT ![p] = "answered"] /\ fate[p] = "waits"
        /\ pending' = IF pending = p THEN NoRing ELSE pending
        /\ answer' = p
    BY <1>0, <2>1, <2>3, Rings, ZenonT(60)
  <2> QED BY <2>1, <2>2, <2>4, MeetsStep, ZenonT(60)
<1>4. CASE RequestFails \/ CloseScreen
  <2>1. /\ UNCHANGED <<pending, fate, answer>> /\ screen' \in {screen, NoRing}
        /\ poller' \in {poller, "ask"}
    BY <1>4, ZenonT(60) DEF RequestFails, CloseScreen, doorbellVars
  <2>2. Carried'
    BY <1>4, ZenonT(60) DEF Carried, RequestFails, CloseScreen, doorbellVars
  <2> QED BY <2>1, <2>2, ZenonT(60) DEF RingInOnePlace, InOrder
<1>5. ASSUME fate' = Meets(answer, "over"), answer' = NoRing, poller' = "ask",
             pending' = pending, screen' \in {screen, answer}
      PROVE  BellInv' /\ Carried'
  <2>1. CASE answer = NoRing
    <3>1. UNCHANGED <<pending, fate, answer>> /\ screen' \in Ring \cup {NoRing}
      BY <1>5, <2>1, ZenonT(60) DEF Meets
    <3> QED BY <1>5, <3>1 DEF RingInOnePlace, InOrder, Carried
  <2>2. CASE answer # NoRing
    <3>1. fate' = [fate EXCEPT ![answer] = "over"] /\ screen' \in Ring \cup {NoRing}
      BY <1>0, <1>5, <2>2, ZenonT(60) DEF Meets
    <3> QED BY <1>0, <1>5, <2>2, <3>1, MeetsStep, ZenonT(60) DEF Carried
  <2> QED BY <2>1, <2>2, ZenonT(60)
<1>6. CASE AnswerFails \/ startActivity
  BY <1>5, <1>6, ZenonT(60) DEF AnswerFails, startActivity
<1>7. CASE onDoorbellRing(streaming)
  <2>1. CASE poller' = "launch" /\ UNCHANGED <<pending, fate, answer, screen>>
    BY <2>1, ZenonT(60) DEF RingInOnePlace, InOrder, Carried
  <2> QED BY <1>5, <1>7, <2>1, ZenonT(60) DEF onDoorbellRing
<1> QED BY <1>1, <1>2, <1>3, <1>4, <1>6, <1>7, ZenonT(60) DEF Bell, pollLoop

\* A step of another part leaves the doorbell alone.
LEMMA BellQuiet ==
    ASSUME BellInv, Carried, UNCHANGED doorbellVars
    PROVE  BellInv' /\ Carried'
BY ZenonT(60) DEF doorbellVars, bellVars, serviceVars, BellInv, DoorbellTypeOK, RingInOnePlace, InOrder,
       Carried

\* Whose step it is.
LEMMA BellParts == [Next]_vars => Bell \/ pollLoop(isStreaming) \/ UNCHANGED doorbellVars
<1> SUFFICES ASSUME [Next]_vars
             PROVE  Bell \/ pollLoop(isStreaming) \/ UNCHANGED doorbellVars
  BY ZenonT(60)
<1>1. CASE DoorbellStep
  BY <1>1, ZenonT(60) DEF DoorbellStep
<1>2. CASE onAccept
  BY <1>2, ZenonT(60) DEF onAccept, Bell
<1>3. CASE Click \/ RunPosted \/ surfaceCreated \/ surfaceDestroyed \/ CloseClient
  BY <1>3, ZenonT(60) DEF Click, RunPosted, surfaceCreated, surfaceDestroyed, CloseClient, UNCHANGEDByUi
<1>4. CASE \E k \in Client : ClientStep(k) \/ \E t \in Worker : OnErrorStep(k, t)
  BY <1>4, ZenonT(60) DEF ClientStep, OnErrorStep
<1>5. CASE UNCHANGED vars
  BY <1>5, ZenonT(60) DEF vars
<1> QED BY <1>1, <1>2, <1>3, <1>4, <1>5, ZenonT(60) DEF Next

\* The invariant of the doorbell.
LEMMA BellAlways == Spec => [](BellInv /\ Carried)
<1>1. Init => BellInv /\ Carried
  BY Rings, ZenonT(60) DEF Init, DoorbellInit, BellInv, Carried, DoorbellTypeOK, RingInOnePlace, InOrder, Fate
<1>2. BellInv /\ Carried /\ [Next]_vars => BellInv' /\ Carried'
  BY BellStep, BellQuiet, BellParts, ZenonT(60)
<1> QED BY <1>1, <1>2, PTL DEF Spec

\* Every ring is in one place, for any number of rings, lost requests and lost
\* answers (http_server.c:271-272, 289; DoorbellService.kt:98-166).
THEOREM NoRingTwice == Spec => []RingInOnePlace
BY BellAlways, PTL DEF BellInv
----------------------------------------------------------------------------
(* The clients.                                                            *)

States == {"CONNECTING", "CONNECTED", "PLAYING", "RECONNECTING", "ERROR", "DISCONNECTED"}
Message == Client \X Told \cup {NoClient} \X {"click", "auto"}

\* The types of what the UI thread and the clients share.
PhoneTypes ==
    /\ client \in Client \cup {NoClient} /\ doomed \in Client \cup {NoClient}
    /\ made \in 0..MaxClients
    /\ disconnecting \in BOOLEAN /\ isStreaming \in BOOLEAN /\ stale \in BOOLEAN
    /\ webrtc \in BOOLEAN
    /\ state \in [Client -> States]
    /\ listener \in [Client -> BOOLEAN]
    /\ failing \in [Client -> SUBSET Worker]
    /\ sig \in [Client -> {"off", "offer", "remote", "wait", "done"}]
    /\ remote \in [Client -> BOOLEAN]
    /\ ice \in [Client -> {"new", "up", "down"}]
    /\ posted \in Seq(Message)

\* How far a WebRtcClient is: the state is CONNECTED before the answer is applied,
\* and there is no ICE connection before that.
Signalling(k) ==
    /\ ~webrtc => sig[k] \in {"off", "done"}
    /\ sig[k] \in {"off", "offer", "remote"} => ~remote[k]
    /\ ~webrtc => ~remote[k]
    /\ sig[k] = "remote" => state[k] = "CONNECTED"
    /\ remote[k] => state[k] \in {"CONNECTED", "PLAYING", "ERROR"}
    /\ ice[k] = "up" => remote[k] /\ state[k] \in {"PLAYING", "ERROR"}

\* A client not made yet does nothing, and one that is let go has no listener.
Succession ==
    /\ client # NoClient => client <= made
    /\ doomed # NoClient => doomed <= made
    /\ \A k \in Client : made < k =>
          ~listener[k] /\ ~remote[k] /\ sig[k] = "off" /\ ice[k] = "new"
    /\ \A k \in Client : doomed = k => ~listener[k]

PhoneInv ==
    /\ PhoneTypes /\ Succession /\ OneAtATime /\ StreamingHasACause
    /\ \A k \in Client : Signalling(k)

\* The bounds of clients as numbers.
LEMMA Clients ==
    /\ NoClient \notin Client
    /\ \A k \in Client : k \in Int /\ 1 <= k /\ k <= MaxClients
    /\ MaxClients \in Int
    /\ \A k \in Int : 1 <= k /\ k <= MaxClients => k \in Client
BY PhoneClientsAssumption DEF Client, NoClient

\* A client that has done anything has been made.
LEMMA Made ==
    ASSUME PhoneTypes, Succession, NEW k \in Client,
           remote[k] \/ sig[k] # "off" \/ ice[k] # "new"
    PROVE  k <= made
<1>1. ~(made < k)
  BY ZenonT(60) DEF Succession
<1>2. made \in Int /\ k \in Int
  BY Clients DEF PhoneTypes
<1> QED BY <1>1, <1>2

\* What a client's listener posts is a message.
LEMMA TellType ==
    ASSUME posted \in Seq(Message), NEW k \in Client, NEW v \in Told, Tell(k, v)
    PROVE  posted' \in Seq(Message)
<1>1. <<k, v>> \in Message
  BY ZenonT(60) DEF Message
<1>2. Append(posted, <<k, v>>) \in Seq(Message)
  BY <1>1, AppendProperties, ZenonT(60)
<1> QED BY <1>2, ZenonT(60) DEF Tell

\* What a client's thread may do to its client: v is the state it writes, if any.
LEMMA ThreadTypes ==
    ASSUME PhoneTypes, NEW k \in Client, NEW t \in Worker, NEW v \in Told \ {"onError"},
           SetState(k, v) \/ Fail(k, t) \/ UNCHANGED <<state, posted, failing>>
    PROVE  /\ state' \in [Client -> States]
           /\ posted' \in Seq(Message)
           /\ failing' \in [Client -> SUBSET Worker]
           /\ \A j \in Client : j # k => state'[j] = state[j]
<1> USE DEF PhoneTypes
<1>1. CASE SetState(k, v)
  BY <1>1, TellType, ZenonT(60) DEF SetState, Told, States
<1>2. CASE Fail(k, t)
  <2>1. posted' \in Seq(Message)
    BY <1>2, TellType, ZenonT(60) DEF Fail, Told
  <2> QED BY <1>2, <2>1, ZenonT(60) DEF Fail, States
<1>3. CASE UNCHANGED <<state, posted, failing>>
  BY <1>3, ZenonT(60)
<1> QED BY <1>1, <1>2, <1>3, ZenonT(60)

\* A step of client k that leaves the others and the UI thread alone keeps the
\* invariant if it keeps the order of k's own signalling.
LEMMA ClientFrame ==
    ASSUME PhoneInv, NEW k \in Client,
           UNCHANGED <<webrtc, listener, uiVars, historyVars>>,
           state' \in [Client -> States], posted' \in Seq(Message),
           failing' \in [Client -> SUBSET Worker],
           \A j \in Client : j # k => state'[j] = state[j],
           NEW g \in {"off", "offer", "remote", "wait", "done"}, NEW m \in BOOLEAN,
           NEW i \in {"new", "up", "down"},
           sig' = [sig EXCEPT ![k] = g], remote' = [remote EXCEPT ![k] = m],
           ice' = [ice EXCEPT ![k] = i],
           k <= made \/ (~m /\ g = "off" /\ i = "new"),
           Signalling(k)'
    PROVE  PhoneInv'
<1> USE DEF PhoneInv, PhoneTypes, uiVars, historyVars
<1>1. PhoneTypes'
  BY ZenonT(60)
<1>2. \A j \in Client : j # k => /\ sig'[j] = sig[j] /\ remote'[j] = remote[j]
                                /\ ice'[j] = ice[j] /\ state'[j] = state[j]
  BY ZenonT(60)
<1>3. sig'[k] = g /\ remote'[k] = m /\ ice'[k] = i
  BY ZenonT(60)
<1>4. Succession'
  <2>1. \A j \in Client : made < j =>
            ~listener[j] /\ ~remote'[j] /\ sig'[j] = "off" /\ ice'[j] = "new"
    <3> SUFFICES ASSUME NEW j \in Client, made < j
                 PROVE  ~listener[j] /\ ~remote'[j] /\ sig'[j] = "off" /\ ice'[j] = "new"
      BY ZenonT(60)
    <3>1. CASE j = k
      <4>1. ~(k <= made)
        BY <3>1, Clients, SMTT(60)
      <4> QED BY <1>3, <3>1, <4>1, ZenonT(60) DEF Succession
    <3>2. CASE j # k
      BY <1>2, <3>2, ZenonT(60) DEF Succession
    <3> QED BY <3>1, <3>2, ZenonT(60)
  <2> QED BY <2>1, ZenonT(60) DEF Succession
<1>5. OneAtATime' /\ StreamingHasACause'
  BY ZenonT(60) DEF OneAtATime, StreamingHasACause
<1>6. \A j \in Client : Signalling(j)'
  <2> SUFFICES ASSUME NEW j \in Client PROVE Signalling(j)'
    BY ZenonT(60)
  <2>1. CASE j = k
    BY <2>1, ZenonT(60)
  <2>2. CASE j # k
    BY <1>2, <2>2, SMTT(60) DEF Signalling
  <2> QED BY <2>1, <2>2, ZenonT(60)
<1> QED BY <1>1, <1>4, <1>5, <1>6, ZenonT(60)

\* A client's thread keeps the invariant.
LEMMA ClientKeeps ==
    ASSUME PhoneInv, NEW k \in Client, ClientStep(k) \/ \E t \in Worker : OnErrorStep(k, t)
    PROVE  PhoneInv'
<1> USE DEF PhoneInv, PhoneTypes
<1>0. UNCHANGED <<webrtc, listener, uiVars, historyVars>> /\ Signalling(k)
  BY ZenonT(60) DEF ClientStep, RtspStep, exchangeSdp, Signal, SetRemote, RemoteSet,
         onIceConnectionChange, IceConnected, IceLost, OnErrorStep, CallOnError
<1>1. ASSUME UNCHANGED <<sig, remote, ice>>,
             state' \in [Client -> States], posted' \in Seq(Message),
             failing' \in [Client -> SUBSET Worker],
             \A j \in Client : j # k => state'[j] = state[j],
             Signalling(k)'
      PROVE  PhoneInv'
  <2>1. /\ sig' = [sig EXCEPT ![k] = sig[k]] /\ remote' = [remote EXCEPT ![k] = remote[k]]
        /\ ice' = [ice EXCEPT ![k] = ice[k]]
    BY <1>1, ZenonT(60)
  <2>2. k <= made \/ (~remote[k] /\ sig[k] = "off" /\ ice[k] = "new")
    <3> HIDE DEF PhoneTypes
    <3> QED BY Made, ZenonT(60)
  <2> QED BY <1>0, <1>1, <2>1, <2>2, ClientFrame, ZenonT(60)
<1>2. CASE RtspStep(k)
  <2>1. PICK st \in RtspStates(k)!Steps :
            IF st[2] = "ERROR" THEN Fail(k, "S") ELSE SetState(k, st[2])
    BY <1>2, ZenonT(60) DEF RtspStep
  <2>2. st[2] \in Told \ {"onError"} /\ "S" \in Worker
    BY DEF RtspStates!Steps, Told, Worker
  <2>3. /\ state' \in [Client -> States] /\ posted' \in Seq(Message)
        /\ failing' \in [Client -> SUBSET Worker]
        /\ \A j \in Client : j # k => state'[j] = state[j]
    BY <2>1, <2>2, ThreadTypes, ZenonT(60)
  <2>4. ~webrtc /\ UNCHANGED <<sig, remote, ice, webrtc>>
    BY <1>2, ZenonT(60) DEF RtspStep
  <2>5. Signalling(k)'
    BY <1>0, <2>4, ZenonT(60) DEF Signalling
  <2> QED BY <1>1, <2>3, <2>4, <2>5, ZenonT(60)
<1>3. CASE \E t \in Worker : CallOnError(k, t)
  <2>1. PICK t \in Worker : CallOnError(k, t)
    BY <1>3, ZenonT(60)
  <2>2. posted' \in Seq(Message)
    BY <2>1, TellType, ZenonT(60) DEF CallOnError, Told
  <2>3. UNCHANGED <<sig, remote, ice, state, webrtc>>
    BY <2>1, ZenonT(60) DEF CallOnError
  <2>4. failing' \in [Client -> SUBSET Worker]
    BY <2>1, ZenonT(60) DEF CallOnError
  <2>5. Signalling(k)'
    BY <1>0, <2>3, SMTT(60) DEF Signalling
  <2> QED BY <1>1, <2>2, <2>3, <2>4, <2>5, ZenonT(60)
<1>4. "S" \in Worker /\ "I" \in Worker /\ "CONNECTED" \in Told \ {"onError"}
      /\ "PLAYING" \in Told \ {"onError"}
  BY ZenonT(60) DEF Worker, Told
<1>5. CASE Signal(k)
  <2>1. /\ sig[k] = "offer" /\ UNCHANGED <<remote, ice, webrtc>>
        /\ \/ SetState(k, "CONNECTED") /\ sig' = [sig EXCEPT ![k] = "remote"]
           \/ Fail(k, "S") /\ sig' = [sig EXCEPT ![k] = "done"]
    BY <1>5, ZenonT(60) DEF Signal
  <2>2. k <= made
    <3>1. sig[k] # "off"
      BY <2>1, ZenonT(60)
    <3> HIDE DEF PhoneTypes
    <3> QED BY <3>1, Made, ZenonT(60)
  <2>3. /\ state' \in [Client -> States] /\ posted' \in Seq(Message)
        /\ failing' \in [Client -> SUBSET Worker]
        /\ \A j \in Client : j # k => state'[j] = state[j]
    BY <1>4, <2>1, ThreadTypes, ZenonT(60)
  <2>4. /\ remote' = [remote EXCEPT ![k] = remote[k]] /\ ice' = [ice EXCEPT ![k] = ice[k]]
    BY <2>1, ZenonT(60)
  <2>5. CASE SetState(k, "CONNECTED") /\ sig' = [sig EXCEPT ![k] = "remote"]
    <3>1. Signalling(k)'
      BY <1>0, <2>1, <2>5, SMTT(60) DEF Signalling, SetState
    <3> QED BY <1>0, <2>2, <2>3, <2>4, <2>5, <3>1, ClientFrame, ZenonT(60)
  <2>6. CASE Fail(k, "S") /\ sig' = [sig EXCEPT ![k] = "done"]
    <3>1. Signalling(k)'
      BY <1>0, <2>1, <2>6, ZenonT(60) DEF Signalling, Fail
    <3> QED BY <1>0, <2>2, <2>3, <2>4, <2>6, <3>1, ClientFrame, ZenonT(60)
  <2> QED BY <2>1, <2>5, <2>6, ZenonT(60)
<1>6. CASE SetRemote(k)
  <2>1. /\ sig[k] = "remote" /\ sig' = [sig EXCEPT ![k] = "wait"]
        /\ remote' = [remote EXCEPT ![k] = TRUE]
        /\ UNCHANGED <<state, posted, failing, ice, webrtc>>
    BY <1>6, ZenonT(60) DEF SetRemote
  <2>2. k <= made
    <3>1. remote[k] \/ sig[k] # "off" \/ ice[k] # "new"
      BY <2>1, ZenonT(60)
    <3> HIDE DEF PhoneTypes
    <3> QED BY <3>1, Made, ZenonT(60)
  <2>3. Signalling(k)'
    BY <1>0, <2>1, SMTT(60) DEF Signalling
  <2>4. ice' = [ice EXCEPT ![k] = ice[k]]
    BY <2>1, ZenonT(60)
  <2> QED BY <1>0, <2>1, <2>2, <2>3, <2>4, ClientFrame, ZenonT(60)
<1>7. CASE RemoteSet(k)
  <2>1. /\ sig[k] = "wait" /\ sig' = [sig EXCEPT ![k] = "done"]
        /\ Fail(k, "S") \/ UNCHANGED <<state, posted, failing>>
        /\ UNCHANGED <<remote, ice, webrtc>>
    BY <1>7, ZenonT(60) DEF RemoteSet
  <2>2. k <= made
    <3>1. remote[k] \/ sig[k] # "off" \/ ice[k] # "new"
      BY <2>1, ZenonT(60)
    <3> HIDE DEF PhoneTypes
    <3> QED BY <3>1, Made, ZenonT(60)
  <2>3. /\ state' \in [Client -> States] /\ posted' \in Seq(Message)
        /\ failing' \in [Client -> SUBSET Worker]
        /\ \A j \in Client : j # k => state'[j] = state[j]
    BY <1>4, <2>1, ThreadTypes, ZenonT(60)
  <2>4. /\ remote' = [remote EXCEPT ![k] = remote[k]] /\ ice' = [ice EXCEPT ![k] = ice[k]]
    BY <2>1, ZenonT(60)
  <2>5. Signalling(k)'
    BY <1>0, <2>1, SMTT(60) DEF Signalling, Fail
  <2> QED BY <1>0, <2>1, <2>2, <2>3, <2>4, <2>5, ClientFrame, ZenonT(60)
<1>8. CASE IceConnected(k)
  <2>1. /\ remote[k] /\ ice' = [ice EXCEPT ![k] = "up"]
        /\ \/ state[k] = "CONNECTED" /\ SetState(k, "PLAYING")
           \/ state[k] # "CONNECTED" /\ UNCHANGED <<state, posted, failing>>
        /\ UNCHANGED <<sig, remote, webrtc>>
    BY <1>8, ZenonT(60) DEF IceConnected
  <2>2. k <= made
    <3>1. remote[k] \/ sig[k] # "off" \/ ice[k] # "new"
      BY <2>1, ZenonT(60)
    <3> HIDE DEF PhoneTypes
    <3> QED BY <3>1, Made, ZenonT(60)
  <2>3. /\ state' \in [Client -> States] /\ posted' \in Seq(Message)
        /\ failing' \in [Client -> SUBSET Worker]
        /\ \A j \in Client : j # k => state'[j] = state[j]
    BY <1>4, <2>1, ThreadTypes, ZenonT(60)
  <2>4. /\ remote' = [remote EXCEPT ![k] = remote[k]] /\ sig' = [sig EXCEPT ![k] = sig[k]]
    BY <2>1, ZenonT(60)
  <2>5. Signalling(k)'
    BY <1>0, <2>1, SMTT(60) DEF Signalling, SetState
  <2> QED BY <1>0, <2>1, <2>2, <2>3, <2>4, <2>5, ClientFrame, ZenonT(60)
<1>9. CASE IceLost(k)
  <2>1. /\ remote[k] /\ ice' = [ice EXCEPT ![k] = "down"] /\ Fail(k, "I")
        /\ UNCHANGED <<sig, remote, webrtc>>
    BY <1>9, ZenonT(60) DEF IceLost
  <2>2. k <= made
    <3>1. remote[k] \/ sig[k] # "off" \/ ice[k] # "new"
      BY <2>1, ZenonT(60)
    <3> HIDE DEF PhoneTypes
    <3> QED BY <3>1, Made, ZenonT(60)
  <2>3. /\ state' \in [Client -> States] /\ posted' \in Seq(Message)
        /\ failing' \in [Client -> SUBSET Worker]
        /\ \A j \in Client : j # k => state'[j] = state[j]
    BY <1>4, <2>1, ThreadTypes, ZenonT(60)
  <2>4. /\ remote' = [remote EXCEPT ![k] = remote[k]] /\ sig' = [sig EXCEPT ![k] = sig[k]]
    BY <2>1, ZenonT(60)
  <2>5. Signalling(k)'
    BY <1>0, <2>1, SMTT(60) DEF Signalling, Fail
  <2> QED BY <1>0, <2>1, <2>2, <2>3, <2>4, <2>5, ClientFrame, ZenonT(60)
<1> QED BY <1>2, <1>3, <1>5, <1>6, <1>7, <1>8, <1>9, ZenonT(60)
        DEF ClientStep, OnErrorStep, exchangeSdp, onIceConnectionChange
----------------------------------------------------------------------------
(* The UI thread and the thread "Disconnect".                              *)

\* What the UI thread can do to clients and flags: let the client go, make one,
\* fail to make one, note a state, or nothing.
UiEffect ==
    \/ disconnectAll /\ stale' = stale
    \/ ~disconnecting /\ client = NoClient /\ (Connect \/ ConnectFails) /\ stale' = stale
    \/ \E k \in Client, v \in Told : onStateChanged(k, v)
    \/ UNCHANGED <<client, made, isStreaming, disconnecting, doomed, state, listener, sig, stale>>

\* The messages the UI thread takes from its queue.
LEMMA HeadType ==
    ASSUME posted \in Seq(Message), posted # <<>>
    PROVE  /\ Tail(posted) \in Seq(Message)
           /\ \/ Head(posted)[1] \in Client /\ Head(posted)[2] \in Told
              \/ Head(posted)[2] \in {"click", "auto"}
<1>1. Head(posted) \in Message /\ Tail(posted) \in Seq(Message)
  BY HeadTailProperties, ZenonT(60)
<1> QED BY <1>1, ZenonT(60) DEF Message

\* The UI thread's steps have these effects.
LEMMA UiParts ==
    ASSUME PhoneTypes, RunPosted \/ surfaceCreated \/ surfaceDestroyed
    PROVE  /\ UiEffect /\ posted' \in Seq(Message)
           /\ UNCHANGED <<webrtc, failing, closed, remote, ice, retries>>
<1> USE DEF connVars
<1>1. posted' \in Seq(Message) /\ UNCHANGED <<webrtc, failing, closed, remote, ice, retries>>
  BY HeadType, ZenonT(60) DEF PhoneTypes, RunPosted, surfaceCreated, surfaceDestroyed, UNCHANGEDByUi
<1>2. /\ onConnectClick /\ stale' = stale => UiEffect
      /\ disconnectAll /\ stale' = stale => UiEffect
      /\ UNCHANGED <<connVars, stale>> => UiEffect
  BY ZenonT(60) DEF onConnectClick, UiEffect
<1> SUFFICES UiEffect
  BY <1>1, ZenonT(60)
<1>3. CASE surfaceCreated
  <2>1. CASE pendingAutoConnect
    BY <1>2, <1>3, <2>1, ZenonT(60) DEF surfaceCreated
  <2>2. CASE ~pendingAutoConnect
    <3>1. UNCHANGED <<client, made, isStreaming, disconnecting, doomed, state, listener, sig,
                      stale>>
      BY <1>3, <2>2, ZenonT(60) DEF surfaceCreated
    <3> QED BY <3>1, ZenonT(60) DEF UiEffect
  <2> QED BY <2>1, <2>2, ZenonT(60)
<1>4. CASE surfaceDestroyed
  BY <1>2, <1>4, ZenonT(60) DEF surfaceDestroyed
<1>5. CASE RunPosted
  <2> DEFINE k == Head(posted)[1]
             v == Head(posted)[2]
  <2>1. \/ v = "click" /\ onConnectClick /\ UNCHANGED stale
        \/ v = "auto" /\ handleAutoConnect /\ UNCHANGED stale
        \/ v = "onError" /\ onError /\ UNCHANGED stale
        \/ v \notin {"click", "auto", "onError"} /\ onStateChanged(k, v)
    BY <1>5, ZenonT(60) DEF RunPosted
  <2>2. (k \in Client /\ v \in Told) \/ v \in {"click", "auto"}
    BY <1>5, HeadType, ZenonT(60) DEF RunPosted, PhoneTypes
  <2> HIDE DEF k, v
  <2>3. CASE handleAutoConnect /\ UNCHANGED stale
    BY <1>2, <2>3, ZenonT(60) DEF handleAutoConnect
  <2>4. CASE onError /\ UNCHANGED stale
    BY <1>2, <2>4, ZenonT(60) DEF onError
  <2>5. CASE v \notin {"click", "auto", "onError"} /\ onStateChanged(k, v)
    <3>1. k \in Client /\ v \in Told
      BY <2>2, <2>5, ZenonT(60)
    <3> QED BY <2>5, <3>1, ZenonT(60) DEF UiEffect
  <2> QED BY <1>2, <2>1, <2>3, <2>4, <2>5, ZenonT(60)
<1> QED BY <1>3, <1>4, <1>5, ZenonT(60)

\* Each effect keeps the invariant.
LEMMA UiKeeps ==
    ASSUME PhoneInv, UiEffect, posted' \in Seq(Message),
           UNCHANGED <<webrtc, failing, closed, remote, ice, retries>>
    PROVE  PhoneInv'
<1> USE DEF PhoneInv, PhoneTypes
<1>1. CASE UNCHANGED <<client, made, isStreaming, disconnecting, doomed, state, listener, sig,
                       stale>>
  <2>1. \A k \in Client : Signalling(k)'
    BY <1>1, ZenonT(60) DEF Signalling
  <2> QED BY <1>1, <2>1, ZenonT(60) DEF Succession, OneAtATime, StreamingHasACause
<1>2. CASE disconnectAll /\ stale' = stale
  <2>1. CASE disconnecting
    BY <1>1, <1>2, <2>1, ZenonT(60) DEF disconnectAll, connVars
  <2>2. CASE ~disconnecting
    <3>1. /\ disconnecting' = TRUE /\ isStreaming' = FALSE /\ client' = NoClient
          /\ doomed' = client /\ listener' = [j \in Client |-> listener[j] /\ j # client]
          /\ UNCHANGED <<made, state, sig>>
      BY <1>2, <2>2, ZenonT(60) DEF disconnectAll
    <3>2. PhoneTypes'
      BY <1>2, <3>1, ZenonT(60)
    <3>3. Succession'
      <4>1. \A j \in Client : ~listener[j] => ~listener'[j]
        BY <3>1, ZenonT(60)
      <4>2. \A j \in Client : doomed' = j => ~listener'[j]
        BY <3>1, ZenonT(60)
      <4>3. doomed' # NoClient => doomed' <= made'
        BY <3>1, ZenonT(60) DEF Succession
      <4> QED BY <3>1, <4>1, <4>2, <4>3, ZenonT(60) DEF Succession
    <3>4. \A k \in Client : Signalling(k)'
      BY <3>1, ZenonT(60) DEF Signalling
    <3> QED BY <3>1, <3>2, <3>3, <3>4, ZenonT(60) DEF OneAtATime, StreamingHasACause
  <2> QED BY <2>1, <2>2, ZenonT(60)
<1>3. CASE \E k \in Client, v \in Told : onStateChanged(k, v)
  <2>1. PICK k \in Client, v \in Told : onStateChanged(k, v)
    BY <1>3, ZenonT(60)
  <2>2. UNCHANGED <<client, made, disconnecting, doomed, state, listener, sig>>
    BY <2>1, ZenonT(60) DEF onStateChanged
  <2>3. stale' = (stale \/ (v = "PLAYING" /\ k # client))
    BY <2>1, ZenonT(60) DEF onStateChanged
  <2>4. isStreaming' = IF v = "PLAYING" THEN TRUE
                       ELSE IF v = "CONNECTED" THEN isStreaming ELSE FALSE
    BY <2>1, ZenonT(60) DEF onStateChanged
  <2>5. StreamingHasACause'
    BY <2>2, <2>3, <2>4, Clients, ZenonT(60) DEF StreamingHasACause
  <2>6. PhoneTypes'
    BY <2>2, <2>3, <2>4, ZenonT(60)
  <2>7. \A j \in Client : Signalling(j)'
    BY <2>2, ZenonT(60) DEF Signalling
  <2> QED BY <2>2, <2>5, <2>6, <2>7, ZenonT(60) DEF Succession, OneAtATime
<1>4. ASSUME ~disconnecting, client = NoClient, Connect, stale' = stale PROVE PhoneInv'
  <2>1. PICK n \in Client : n = made + 1
    BY <1>4, Clients, SMTT(60) DEF Connect
  <2>2. /\ made' = n /\ client' = n /\ state' = [state EXCEPT ![n] = "CONNECTING"]
        /\ listener' = [listener EXCEPT ![n] = TRUE]
        /\ sig' = [sig EXCEPT ![n] = IF webrtc THEN "offer" ELSE "off"]
        /\ UNCHANGED <<isStreaming, disconnecting, doomed>>
    BY <1>4, <2>1, ZenonT(60) DEF Connect
  <2>3. ~listener[n] /\ ~remote[n] /\ sig[n] = "off" /\ ice[n] = "new" /\ doomed # n
    BY <2>1, Clients, SMTT(60) DEF Succession
  <2>4. PhoneTypes'
    BY <1>4, <2>2, Clients, SMTT(60) DEF States
  <2>5. Succession'
    <3>1. \A j \in Client : n < j => made < j /\ j # n
      BY <2>1, Clients, SMTT(60)
    <3>2. doomed # NoClient => doomed <= n
      BY <2>1, Clients, SMTT(60) DEF Succession
    <3>3. n <= n
      BY Clients, SMTT(60)
    <3> QED BY <2>2, <2>3, <3>1, <3>2, <3>3, ZenonT(60) DEF Succession
  <2>6. \A j \in Client : Signalling(j)'
    <3> SUFFICES ASSUME NEW j \in Client PROVE Signalling(j)'
      BY ZenonT(60)
    <3>1. CASE j = n
      BY <2>2, <2>3, <3>1, ZenonT(60) DEF Signalling
    <3>2. CASE j # n
      BY <2>2, <3>2, ZenonT(60) DEF Signalling
    <3> QED BY <3>1, <3>2, ZenonT(60)
  <2> QED BY <1>4, <2>2, <2>4, <2>5, <2>6, Clients, ZenonT(60) DEF OneAtATime, StreamingHasACause
<1>5. ASSUME ~disconnecting, client = NoClient, ConnectFails, stale' = stale PROVE PhoneInv'
  <2>1. PICK n \in Client : n = made + 1
    BY <1>5, Clients, SMTT(60) DEF ConnectFails
  <2>2. /\ made' = n /\ client' = client /\ state' = [state EXCEPT ![n] = "ERROR"]
        /\ isStreaming' = FALSE /\ disconnecting' = TRUE /\ doomed' = n
        /\ UNCHANGED <<listener, sig>>
    BY <1>5, <2>1, ZenonT(60) DEF ConnectFails
  <2>3. ~listener[n] /\ ~remote[n] /\ sig[n] = "off" /\ ice[n] = "new"
    BY <2>1, Clients, SMTT(60) DEF Succession
  <2>4. PhoneTypes'
    <3>1. made' \in 0..MaxClients /\ doomed' \in Client \cup {NoClient}
      BY <2>2, Clients, SMTT(60)
    <3>2. state' \in [Client -> States]
      BY <2>2, ZenonT(60) DEF States
    <3> QED BY <1>5, <2>2, <3>1, <3>2, ZenonT(60)
  <2>5. Succession'
    <3>1. \A j \in Client : n < j => made < j
      BY <2>1, Clients, SMTT(60)
    <3>2. n <= n
      BY Clients, SMTT(60)
    <3> QED BY <1>5, <2>2, <2>3, <3>1, <3>2, ZenonT(60) DEF Succession
  <2>6. \A j \in Client : Signalling(j)'
    <3> SUFFICES ASSUME NEW j \in Client PROVE Signalling(j)'
      BY ZenonT(60)
    <3>1. CASE j = n
      BY <2>2, <2>3, <3>1, ZenonT(60) DEF Signalling
    <3>2. CASE j # n
      BY <2>2, <3>2, ZenonT(60) DEF Signalling
    <3> QED BY <3>1, <3>2, ZenonT(60)
  <2> QED BY <1>5, <2>2, <2>4, <2>5, <2>6, ZenonT(60) DEF OneAtATime, StreamingHasACause
<1> QED BY <1>1, <1>2, <1>3, <1>4, <1>5, ZenonT(60) DEF UiEffect

\* The end of a disconnect keeps the invariant: the client that was let go has no
\* listener, so nothing is posted for it.
LEMMA CloseKeeps ==
    ASSUME PhoneInv, CloseClient
    PROVE  PhoneInv'
<1> USE DEF PhoneInv, PhoneTypes
<1>1. /\ disconnecting' = FALSE /\ doomed' = NoClient
      /\ state' = [k \in Client |-> IF k = doomed THEN "DISCONNECTED" ELSE state[k]]
      /\ failing' = [k \in Client |-> IF k = doomed THEN {} ELSE failing[k]]
      /\ sig' = [k \in Client |-> IF k = doomed THEN "done" ELSE sig[k]]
      /\ remote' = [k \in Client |-> k # doomed /\ remote[k]]
      /\ ice' = [k \in Client |-> IF k = doomed THEN "new" ELSE ice[k]]
      /\ UNCHANGED <<webrtc, listener, client, made, isStreaming, stale>>
  BY ZenonT(60) DEF CloseClient, historyVars
<1>2. posted' = posted
  BY ZenonT(60) DEF CloseClient, Succession
<1>3. PhoneTypes'
  <2>1. state' \in [Client -> States]
    BY <1>1, ZenonT(60) DEF States
  <2>2. failing' \in [Client -> SUBSET Worker]
    BY <1>1, ZenonT(60)
  <2>3. sig' \in [Client -> {"off", "offer", "remote", "wait", "done"}]
    BY <1>1, ZenonT(60)
  <2>4. remote' \in [Client -> BOOLEAN]
    BY <1>1, ZenonT(60)
  <2>5. ice' \in [Client -> {"new", "up", "down"}]
    BY <1>1, ZenonT(60)
  <2> QED BY <1>1, <1>2, <2>1, <2>2, <2>3, <2>4, <2>5, ZenonT(60)
<1>4. Succession'
  <2>1. \A k \in Client : made < k => k # doomed
    BY Clients, SMTT(60) DEF Succession
  <2>2. \A k \in Client : made < k =>
            ~listener[k] /\ ~remote'[k] /\ sig'[k] = "off" /\ ice'[k] = "new"
    BY <1>1, <2>1, ZenonT(60) DEF Succession
  <2> QED BY <1>1, <2>2, Clients, ZenonT(60) DEF Succession
<1>5. \A k \in Client : Signalling(k)'
  <2> SUFFICES ASSUME NEW k \in Client PROVE Signalling(k)'
    BY ZenonT(60)
  <2>1. CASE k = doomed
    <3>1. sig'[k] = "done" /\ ~remote'[k] /\ ice'[k] = "new" /\ webrtc' = webrtc
      BY <1>1, <2>1, ZenonT(60)
    <3> QED BY <3>1, ZenonT(60) DEF Signalling
  <2>2. CASE k # doomed
    <3>1. /\ sig'[k] = sig[k] /\ (remote'[k] <=> remote[k]) /\ ice'[k] = ice[k]
          /\ state'[k] = state[k] /\ webrtc' = webrtc
      BY <1>1, <2>2, ZenonT(60)
    <3>2. Signalling(k)
      BY ZenonT(60)
    <3> QED BY <3>1, <3>2, ZenonT(60) DEF Signalling
  <2> QED BY <2>1, <2>2, ZenonT(60)
<1> QED BY <1>1, <1>3, <1>4, <1>5, ZenonT(60) DEF OneAtATime, StreamingHasACause

\* Clicks and accepted calls only post a message; the rest of the doorbell does
\* not touch the app.
LEMMA PostKeeps ==
    ASSUME PhoneInv, onAccept \/ Click \/ DoorbellStep \/ UNCHANGED vars
    PROVE  PhoneInv'
<1> USE DEF PhoneInv, PhoneTypes
<1>1. /\ UNCHANGED <<client, made, isStreaming, disconnecting, doomed, state, listener, sig, stale>>
      /\ UNCHANGED <<webrtc, failing, closed, remote, ice, retries>>
  BY ZenonT(60) DEF onAccept, Click, DoorbellStep, vars, phoneVars, clientVars, uiVars, historyVars
<1>2. <<NoClient, "click">> \in Message /\ <<NoClient, "auto">> \in Message
  BY ZenonT(60) DEF Message
<1>3. posted' \in Seq(Message)
  <2>1. CASE onAccept \/ Click
    <3>1. \E m \in Message : posted' = Append(posted, m)
      BY <1>2, <2>1, ZenonT(60) DEF onAccept, Click
    <3> QED BY <3>1, AppendProperties, SMTT(60)
  <2>2. CASE DoorbellStep \/ UNCHANGED vars
    BY <2>2, ZenonT(60) DEF DoorbellStep, vars, phoneVars, clientVars
  <2> QED BY <2>1, <2>2, ZenonT(60)
<1>4. UiEffect
  BY <1>1, ZenonT(60) DEF UiEffect
<1> QED BY <1>1, <1>3, <1>4, UiKeeps, ZenonT(60)

\* The invariant of the app and its clients.
LEMMA PhoneAlways == Spec => []PhoneInv
<1>1. Init => PhoneInv
  <2> SUFFICES ASSUME Init PROVE PhoneInv
    BY ZenonT(60)
  <2>1. <<>> \in Seq(Message)
    BY EmptySeq, ZenonT(60)
  <2>2. PhoneTypes
    <3>1. /\ state \in [Client -> States] /\ listener \in [Client -> BOOLEAN]
          /\ remote \in [Client -> BOOLEAN] /\ failing \in [Client -> SUBSET Worker]
      BY ZenonT(60) DEF Init, ClientsInit, States
    <3>2. /\ sig \in [Client -> {"off", "offer", "remote", "wait", "done"}]
          /\ ice \in [Client -> {"new", "up", "down"}]
      BY ZenonT(60) DEF Init, ClientsInit
    <3>3. made \in 0..MaxClients
      BY Clients, PhoneClientsAssumption DEF Init
    <3> QED BY <2>1, <3>1, <3>2, <3>3, ZenonT(60) DEF Init, ClientsInit, PhoneTypes
  <2>3. \A k \in Client : Signalling(k)
    BY ZenonT(60) DEF Init, ClientsInit, Signalling
  <2>4. Succession
    BY Clients, ZenonT(60) DEF Init, ClientsInit, Succession
  <2> QED BY <2>2, <2>3, <2>4, ZenonT(60) DEF Init, PhoneInv, OneAtATime, StreamingHasACause
<1>2. PhoneInv /\ [Next]_vars => PhoneInv'
  <2> SUFFICES ASSUME PhoneInv, [Next]_vars PROVE PhoneInv'
    BY ZenonT(60)
  <2>1. CASE RunPosted \/ surfaceCreated \/ surfaceDestroyed
    BY <2>1, UiParts, UiKeeps, ZenonT(60) DEF PhoneInv
  <2> QED BY <2>1, ClientKeeps, CloseKeeps, PostKeeps, ZenonT(60) DEF Next
<1> QED BY <1>1, <1>2, PTL DEF Spec

\* However clicks, accepted calls and errors interleave, there is no client while
\* another is being disconnected (MainActivity.kt:173, 355).
THEOREM NeverTwoClients == Spec => []OneAtATime
BY PhoneAlways, PTL DEF PhoneInv

\* A set isStreaming belongs to a client, or to PLAYING that a client posted before
\* it was let go (MainActivity.kt:37, 377-379).
THEOREM StreamingIsCaused == Spec => []StreamingHasACause
BY PhoneAlways, PTL DEF PhoneInv

\* No ICE callback is ignored because it came before CONNECTED, for any number of
\* clients (WebRtcClient.kt:102, 256, 261).
THEOREM IceIsInTime == Spec => []IceFindsConnected
<1>1. PhoneInv => IceFindsConnected
  BY ZenonT(60) DEF PhoneInv, Signalling, IceFindsConnected
<1> QED BY <1>1, PhoneAlways, PTL

\* The types of what only the UI thread uses.
UiTypes ==
    /\ surfaceReady \in BOOLEAN /\ pendingAutoConnect \in BOOLEAN
    /\ decoder \in {"none", "idle", "running"}

\* The UI thread keeps them.
LEMMA UiTypesStep ==
    ASSUME UiTypes, [Next]_vars
    PROVE  UiTypes'
<1> USE DEF UiTypes
<1>1. ASSUME UNCHANGED <<surfaceReady, decoder, pendingAutoConnect>> PROVE UiTypes'
  BY <1>1, ZenonT(60)
<1>2. /\ disconnectAll => decoder' \in {decoder, "none"}
      /\ onConnectClick => decoder' \in {decoder, "none", "idle"}
  BY ZenonT(60) DEF disconnectAll, onConnectClick, Connect, ConnectFails
<1>3. /\ handleAutoConnect => /\ decoder' \in {decoder, "none", "idle"}
                              /\ pendingAutoConnect' \in {pendingAutoConnect, TRUE}
      /\ onError => decoder' \in {decoder, "none"}
  BY <1>2, ZenonT(60) DEF handleAutoConnect, onError
<1>4. \A k, v : onStateChanged(k, v) => decoder' \in {decoder, "running", "idle"}
  BY ZenonT(60) DEF onStateChanged
<1>5. CASE RunPosted
  <2>1. surfaceReady' = surfaceReady
    BY <1>5, ZenonT(60) DEF RunPosted
  <2>2. /\ decoder' \in {decoder, "none", "idle", "running"}
        /\ pendingAutoConnect' \in {pendingAutoConnect, TRUE}
    BY <1>2, <1>3, <1>4, <1>5, ZenonT(60) DEF RunPosted
  <2> QED BY <2>1, <2>2, ZenonT(60)
<1>6. CASE surfaceCreated
  <2>1. surfaceReady' = TRUE /\ pendingAutoConnect' = FALSE
    BY <1>6, ZenonT(60) DEF surfaceCreated
  <2>2. decoder' \in {decoder, "none", "idle", "running"}
    BY <1>2, <1>6, ZenonT(60) DEF surfaceCreated
  <2> QED BY <2>1, <2>2, ZenonT(60)
<1>7. CASE surfaceDestroyed
  BY <1>7, ZenonT(60) DEF surfaceDestroyed
<1>8. CASE CloseClient \/ Click \/ onAccept
  BY <1>1, <1>8, ZenonT(60) DEF CloseClient, Click, onAccept, uiVars
<1>9. CASE \/ DoorbellStep \/ UNCHANGED vars
           \/ \E k \in Client : ClientStep(k) \/ \E t \in Worker : OnErrorStep(k, t)
  BY <1>1, <1>9, ZenonT(60) DEF DoorbellStep, ClientStep, OnErrorStep, vars, phoneVars, uiVars
<1> QED BY <1>5, <1>6, <1>7, <1>8, <1>9, ZenonT(60) DEF Next

\* All parts keep their types, and no DISCONNECTED is posted: a client is heard of
\* no more when it is let go (MainActivity.kt:377-379).
THEOREM AppTypes == Spec => []TypeOK
<1>1. Init => UiTypes
  BY ZenonT(60) DEF Init, ClientsInit, UiTypes
<1>2. UiTypes /\ [Next]_vars => UiTypes'
  BY UiTypesStep, ZenonT(60)
<1>3. BellInv /\ PhoneInv /\ UiTypes => TypeOK
  <2>1. RtspStates(1)!State = States
    BY ZenonT(60) DEF RtspStates!State, States
  <2> QED BY <2>1, ZenonT(60) DEF BellInv, PhoneInv, PhoneTypes, UiTypes, TypeOK, Message
<1> QED BY <1>1, <1>2, <1>3, BellAlways, PhoneAlways, PTL DEF Spec
----------------------------------------------------------------------------
(* What the UI thread has seen of its client.                              *)

\* The messages that set isStreaming, and those that start or stop the decoder.
Changes == {"CONNECTED", "PLAYING", "RECONNECTING", "ERROR"}
Decodes == {"CONNECTED", "RECONNECTING"}

\* The last of the messages W in the queue says v; there is none.
Ends(W, v) ==
    \E i \in DOMAIN posted : /\ posted[i][2] = v
                             /\ \A j \in DOMAIN posted : i < j => posted[j][2] \notin W
Lacks(W) == \A i \in DOMAIN posted : posted[i][2] \notin W

\* The UI thread either has heard the client's last state, or finds it in its
\* queue after every other.
Shown ==
    /\ \A k \in Client : listener[k] <=> k = client
    /\ client # NoClient /\ state[client] = "PLAYING"
       => Ends(Changes, "PLAYING") \/ (Lacks(Changes) /\ isStreaming)
    /\ ~webrtc /\ client # NoClient /\ state[client] \in {"CONNECTED", "PLAYING"}
       => \/ Ends(Decodes, "CONNECTED")
          \/ Lacks(Decodes) /\ (~missed /\ surfaceReady => decoder = "running")
    /\ ~webrtc /\ client # NoClient /\ ~missed /\ surfaceReady => decoder # "none"

\* A message at the end of the queue.
LEMMA Posting ==
    ASSUME posted \in Seq(Message), NEW m \in Message, posted' = Append(posted, m), NEW W, NEW v
    PROVE  /\ m[2] = v => Ends(W, v)'
           /\ m[2] \notin W => (Ends(W, v) => Ends(W, v)') /\ (Lacks(W) => Lacks(W)')
<1>1. /\ Len(posted) \in Nat /\ DOMAIN posted = 1..Len(posted)
      /\ DOMAIN posted' = 1..(Len(posted) + 1)
      /\ posted'[Len(posted) + 1] = m
      /\ \A i \in 1..Len(posted) : posted'[i] = posted[i]
  BY AppendProperties, LenProperties
<1>2. ASSUME m[2] = v PROVE Ends(W, v)'
  <2>1. Len(posted) + 1 \in DOMAIN posted' /\ \A j \in DOMAIN posted' : ~(Len(posted) + 1 < j)
    BY <1>1
  <2> QED BY <1>1, <1>2, <2>1, ZenonT(60) DEF Ends
<1>3. ASSUME m[2] \notin W, Ends(W, v) PROVE Ends(W, v)'
  <2>1. PICK i \in DOMAIN posted : /\ posted[i][2] = v
                                   /\ \A j \in DOMAIN posted : i < j => posted[j][2] \notin W
    BY <1>3, ZenonT(60) DEF Ends
  <2>2. i \in DOMAIN posted' /\ posted'[i][2] = v
    BY <1>1, <2>1
  <2>3. \A j \in DOMAIN posted' : i < j => posted'[j][2] \notin W
    BY <1>1, <1>3, <2>1
  <2> QED BY <2>2, <2>3, ZenonT(60) DEF Ends
<1>4. ASSUME m[2] \notin W, Lacks(W) PROVE Lacks(W)'
  <2>1. \A j \in DOMAIN posted' : j \in DOMAIN posted \/ j = Len(posted) + 1
    BY <1>1
  <2> QED BY <1>1, <1>4, <2>1, ZenonT(60) DEF Lacks
<1> QED BY <1>2, <1>3, <1>4, ZenonT(60)

\* The message at the head of the queue is taken.
LEMMA Taking ==
    ASSUME posted \in Seq(Message), posted # <<>>, posted' = Tail(posted), NEW W, NEW v
    PROVE  /\ Lacks(W) => Lacks(W)' /\ Head(posted)[2] \notin W
           /\ Ends(W, v) => Ends(W, v)' \/ (Lacks(W)' /\ Head(posted)[2] = v)
<1>1. /\ Len(posted) \in Nat /\ DOMAIN posted = 1..Len(posted) /\ Len(posted) # 0
      /\ DOMAIN posted' = 1..(Len(posted) - 1)
      /\ Head(posted) = posted[1]
      /\ \A i \in 1..(Len(posted) - 1) : posted'[i] = posted[i + 1]
  BY HeadTailProperties, LenProperties, EmptySeq
<1>2. ASSUME Lacks(W) PROVE Lacks(W)' /\ Head(posted)[2] \notin W
  <2>1. 1 \in DOMAIN posted /\ \A j \in DOMAIN posted' : j + 1 \in DOMAIN posted
    BY <1>1
  <2> QED BY <1>1, <1>2, <2>1, ZenonT(60) DEF Lacks
<1>3. ASSUME Ends(W, v) PROVE Ends(W, v)' \/ (Lacks(W)' /\ Head(posted)[2] = v)
  <2>1. PICK i \in DOMAIN posted : /\ posted[i][2] = v
                                   /\ \A j \in DOMAIN posted : i < j => posted[j][2] \notin W
    BY <1>3, ZenonT(60) DEF Ends
  <2>2. CASE i = 1
    <3>1. \A j \in DOMAIN posted' : j + 1 \in DOMAIN posted /\ i < j + 1
      BY <1>1, <2>2
    <3>2. Lacks(W)'
      BY <1>1, <2>1, <3>1, ZenonT(60) DEF Lacks
    <3> QED BY <1>1, <2>1, <2>2, <3>2, ZenonT(60)
  <2>3. CASE i # 1
    <3>1. i - 1 \in DOMAIN posted' /\ posted'[i - 1] = posted[i]
      BY <1>1, <2>3
    <3>2. \A j \in DOMAIN posted' : i - 1 < j => j + 1 \in DOMAIN posted /\ i < j + 1
      BY <1>1
    <3>3. \A j \in DOMAIN posted' : i - 1 < j => posted'[j][2] \notin W
      BY <1>1, <2>1, <3>2, ZenonT(60)
    <3> QED BY <2>1, <3>1, <3>3, ZenonT(60) DEF Ends
  <2> QED BY <2>2, <2>3, ZenonT(60)
<1> QED BY <1>2, <1>3, ZenonT(60)

\* A step that posts a message which says no state, or none, and leaves the rest.
LEMMA ShownPosts ==
    ASSUME Shown, posted \in Seq(Message),
           \/ posted' = posted
           \/ \E m \in Message : m[2] \notin Changes /\ posted' = Append(posted, m),
           UNCHANGED <<client, state, listener, webrtc, isStreaming, missed, surfaceReady, decoder>>
    PROVE  Shown'
<1>1. ASSUME NEW W \in {Changes, Decodes}, NEW v
      PROVE  (Ends(W, v) => Ends(W, v)') /\ (Lacks(W) => Lacks(W)')
  <2>1. CASE posted' = posted
    BY <2>1, ZenonT(60) DEF Ends, Lacks
  <2>2. CASE \E m \in Message : m[2] \notin Changes /\ posted' = Append(posted, m)
    <3>1. PICK m \in Message : m[2] \notin Changes /\ posted' = Append(posted, m)
      BY <2>2, ZenonT(60)
    <3>2. m[2] \notin W
      BY <3>1, ZenonT(60) DEF Changes, Decodes
    <3> QED BY <3>1, <3>2, Posting, ZenonT(60)
  <2> QED BY <2>1, <2>2, ZenonT(60)
<1>2. /\ Ends(Changes, "PLAYING") => Ends(Changes, "PLAYING")'
      /\ Ends(Decodes, "CONNECTED") => Ends(Decodes, "CONNECTED")'
      /\ Lacks(Changes) => Lacks(Changes)'
      /\ Lacks(Decodes) => Lacks(Decodes)'
  BY <1>1, ZenonT(60)
<1> QED BY <1>2, ZenonT(60) DEF Shown, Client

\* A client's thread writes the state v: it tells the UI thread if it is the
\* thread of the current client.
LEMMA ShownTells ==
    ASSUME Shown, PhoneTypes, NEW k \in Client, NEW v \in Told \ {"onError"},
           state' = [state EXCEPT ![k] = v], Tell(k, v),
           ~webrtc /\ v = "PLAYING" => state[k] = "CONNECTED",
           UNCHANGED <<client, listener, webrtc, isStreaming, missed, surfaceReady, decoder>>
    PROVE  Shown'
<1> USE DEF PhoneTypes
<1>0. state'[k] = v /\ \A j \in Client : j # k => state'[j] = state[j]
  BY ZenonT(60)
<1>1. CASE k # client
  <2>1. posted' = posted
    BY <1>1, ZenonT(60) DEF Tell, Shown
  <2>2. \A W, u : (Ends(W, u)' <=> Ends(W, u)) /\ (Lacks(W)' <=> Lacks(W))
    BY <2>1, ZenonT(60) DEF Ends, Lacks
  <2>3. client # NoClient => state'[client] = state[client]
    BY <1>0, <1>1, ZenonT(60)
  <2> QED BY <2>2, <2>3, ZenonT(60) DEF Shown, Client
<1>2. CASE k = client
  <2>1. posted' = Append(posted, <<k, v>>) /\ <<k, v>> \in Message
    BY <1>2, ZenonT(60) DEF Tell, Shown, Message
  <2>2. v \notin Decodes => /\ Ends(Decodes, "CONNECTED") => Ends(Decodes, "CONNECTED")'
                            /\ Lacks(Decodes) => Lacks(Decodes)'
    BY <2>1, Posting, ZenonT(60)
  <2>3. /\ v = "PLAYING" => Ends(Changes, "PLAYING")'
        /\ v = "CONNECTED" => Ends(Decodes, "CONNECTED")'
    BY <2>1, Posting, ZenonT(60)
  <2>4. "PLAYING" \notin Decodes
    BY ZenonT(60) DEF Decodes
  <2>5. ~webrtc' /\ client' # NoClient /\ state'[client'] \in {"CONNECTED", "PLAYING"}
        => \/ Ends(Decodes, "CONNECTED")'
           \/ Lacks(Decodes)' /\ (~missed' /\ surfaceReady' => decoder' = "running")
    BY <1>0, <1>2, <2>2, <2>3, <2>4, ZenonT(60) DEF Shown
  <2>6. client' # NoClient /\ state'[client'] = "PLAYING" => Ends(Changes, "PLAYING")'
    BY <1>0, <1>2, <2>3, ZenonT(60)
  <2> QED BY <2>5, <2>6, ZenonT(60) DEF Shown, Client
<1> QED BY <1>1, <1>2, ZenonT(60)

\* Whatever a click does, there is no client after it, or a new one.
LEMMA ShownClick ==
    ASSUME Shown, PhoneInv, onConnectClick \/ disconnectAll, webrtc' = webrtc
    PROVE  Shown'
<1> USE DEF PhoneInv, PhoneTypes
<1>1. ASSUME client' = NoClient, \A k \in Client : ~listener'[k] PROVE Shown'
  BY <1>1, Clients, ZenonT(60) DEF Shown, Client
<1>2. ASSUME client = NoClient, UNCHANGED <<client, listener>> PROVE Shown'
  BY <1>1, <1>2, Clients, ZenonT(60) DEF Shown
<1>3. CASE disconnectAll
  <2>1. CASE disconnecting
    BY <1>2, <1>3, <2>1, ZenonT(60) DEF disconnectAll, connVars, OneAtATime
  <2>2. CASE ~disconnecting
    <3>1. client' = NoClient /\ listener' = [k \in Client |-> listener[k] /\ k # client]
      BY <1>3, <2>2, ZenonT(60) DEF disconnectAll
    <3>2. \A k \in Client : ~listener'[k]
      BY <3>1, ZenonT(60) DEF Shown
    <3> QED BY <1>1, <3>1, <3>2, ZenonT(60)
  <2> QED BY <2>1, <2>2, ZenonT(60)
<1>4. CASE client = NoClient /\ Connect
  <2>1. made + 1 \in Client
    BY <1>4, Clients DEF Connect
  <2>2. client' = made + 1 /\ listener' = [listener EXCEPT ![made + 1] = TRUE]
    BY <1>4, ZenonT(60) DEF Connect
  <2>3. \A k \in Client : listener'[k] <=> k = client'
    BY <1>4, <2>1, <2>2, Clients, ZenonT(60) DEF Shown
  <2>4. state'[client'] = "CONNECTING"
    BY <1>4, <2>1, <2>2 DEF Connect
  <2>5. ~webrtc' => decoder' # "none"
    BY <1>4, ZenonT(60) DEF Connect
  <2> QED BY <2>3, <2>4, <2>5, ZenonT(60) DEF Shown, Client
<1>5. CASE client = NoClient /\ UNCHANGED <<client, listener>>
  BY <1>2, <1>5, ZenonT(60)
<1> QED BY <1>3, <1>4, <1>5, ZenonT(60) DEF onConnectClick, ConnectFails, connVars, OneAtATime

\* The UI thread takes a message from its queue.
LEMMA ShownRun ==
    ASSUME Shown, PhoneInv, RunPosted
    PROVE  Shown'
<1> DEFINE k == Head(posted)[1]
           v == Head(posted)[2]
<1>0. posted \in Seq(Message) /\ posted # <<>> /\ posted' = Tail(posted)
      /\ UNCHANGED <<surfaceReady, webrtc>>
  BY ZenonT(60) DEF PhoneInv, PhoneTypes, RunPosted, UNCHANGEDByUi
<1>1. \/ v = "click" /\ onConnectClick
      \/ v = "auto" /\ handleAutoConnect
      \/ v = "onError" /\ onError
      \/ v \notin {"click", "auto", "onError"} /\ onStateChanged(k, v)
  BY ZenonT(60) DEF RunPosted
<1>2. v \in Told \cup {"click", "auto"}
  BY <1>0, HeadType, ZenonT(60)
<1>3. \A W : Lacks(W) => Lacks(W)' /\ v \notin W
  BY <1>0, Taking, ZenonT(60)
<1>4. /\ Ends(Changes, "PLAYING")
         => Ends(Changes, "PLAYING")' \/ (Lacks(Changes)' /\ v = "PLAYING")
      /\ Ends(Decodes, "CONNECTED")
         => Ends(Decodes, "CONNECTED")' \/ (Lacks(Decodes)' /\ v = "CONNECTED")
  BY <1>0, Taking, ZenonT(60)
<1> HIDE DEF k, v
<1>5. ASSUME v \in {"click", "auto", "onError"}, UNCHANGED <<connVars, decoder>> PROVE Shown'
  <2>1. UNCHANGED <<client, listener, state, isStreaming, missed, decoder>>
    BY <1>5, ZenonT(60) DEF connVars
  <2> QED BY <1>0, <1>3, <1>4, <1>5, <2>1, ZenonT(60) DEF Shown, Client
<1>6. CASE v = "click" /\ onConnectClick
  BY <1>0, <1>6, ShownClick, ZenonT(60)
<1>7. CASE v = "auto" /\ handleAutoConnect
  BY <1>0, <1>5, <1>7, ShownClick, ZenonT(60) DEF handleAutoConnect
<1>8. CASE v = "onError" /\ onError
  BY <1>0, <1>5, <1>8, ShownClick, ZenonT(60) DEF onError
<1>9. CASE v \notin {"click", "auto", "onError"} /\ onStateChanged(k, v)
  <2>1. /\ UNCHANGED <<client, listener, state, missed>>
        /\ v = "PLAYING" => isStreaming'
        /\ v = "CONNECTED" /\ surfaceReady /\ decoder # "none" => decoder' = "running"
        /\ decoder = "none" <=> decoder' = "none"
        /\ v \notin Decodes => decoder' = decoder
    BY <1>9, ZenonT(60) DEF onStateChanged, Decodes
  <2>2. v \in Changes
    BY <1>2, <1>9, ZenonT(60) DEF Told, Changes
  <2>3. client # NoClient /\ state[client] = "PLAYING"
        => Ends(Changes, "PLAYING")' \/ (Lacks(Changes)' /\ isStreaming')
    BY <1>3, <1>4, <2>1, <2>2, ZenonT(60) DEF Shown
  <2>4. ~webrtc /\ client # NoClient /\ state[client] \in {"CONNECTED", "PLAYING"}
        => \/ Ends(Decodes, "CONNECTED")'
           \/ Lacks(Decodes)' /\ (~missed /\ surfaceReady => decoder' = "running")
    BY <1>3, <1>4, <2>1, ZenonT(60) DEF Shown
  <2> QED BY <1>0, <2>1, <2>3, <2>4, ZenonT(60) DEF Shown, Client
<1> QED BY <1>1, <1>6, <1>7, <1>8, <1>9, ZenonT(60)

\* The surface comes or goes.
LEMMA ShownSurface ==
    ASSUME Shown, PhoneInv, surfaceCreated \/ surfaceDestroyed
    PROVE  Shown'
<1>1. UNCHANGED <<posted, webrtc>>
  BY ZenonT(60) DEF surfaceCreated, surfaceDestroyed, UNCHANGEDByUi
<1>2. \A W, v : (Ends(W, v)' <=> Ends(W, v)) /\ (Lacks(W)' <=> Lacks(W))
  BY <1>1, ZenonT(60) DEF Ends, Lacks
<1>3. CASE surfaceDestroyed
  BY <1>1, <1>2, <1>3, ZenonT(60) DEF surfaceDestroyed, connVars, Shown, Client
<1>4. CASE surfaceCreated /\ pendingAutoConnect
  BY <1>1, <1>4, ShownClick, ZenonT(60) DEF surfaceCreated
<1>5. CASE surfaceCreated /\ ~pendingAutoConnect
  <2>1. /\ UNCHANGED <<client, isStreaming, state, listener>>
        /\ client # NoClient /\ ~missed' => decoder' = "running"
    BY <1>5, ZenonT(60) DEF surfaceCreated
  <2> QED BY <1>1, <1>2, <2>1, ZenonT(60) DEF Shown, Client
<1> QED BY <1>3, <1>4, <1>5, ZenonT(60)

\* Every step keeps it.
LEMMA NextShown ==
    ASSUME Shown, PhoneInv, [Next]_vars
    PROVE  Shown'
<1>0. PhoneTypes /\ posted \in Seq(Message)
  BY ZenonT(60) DEF PhoneInv, PhoneTypes
<1>1. CASE CloseClient
  <2>1. client = NoClient \/ ~disconnecting
    BY ZenonT(60) DEF PhoneInv, OneAtATime
  <2>2. client = NoClient /\ UNCHANGED <<client, listener>>
    BY <1>1, <2>1, ZenonT(60) DEF CloseClient
  <2> QED BY <2>2, Clients, ZenonT(60) DEF Shown, Client
<1>2. CASE onAccept \/ Click \/ DoorbellStep \/ UNCHANGED vars
  <2>1. UNCHANGED <<client, state, listener, webrtc, isStreaming, missed, surfaceReady, decoder>>
    BY <1>2, ZenonT(60) DEF onAccept, Click, DoorbellStep, vars, phoneVars, clientVars, uiVars, historyVars
  <2>2. posted' = posted \/ \E w \in {"click", "auto"} : posted' = Append(posted, <<NoClient, w>>)
    BY <1>2, ZenonT(60) DEF onAccept, Click, DoorbellStep, vars, phoneVars, clientVars
  <2>3. \A w \in {"click", "auto"} :
          <<NoClient, w>> \in Message /\ <<NoClient, w>>[2] \notin Changes
    BY ZenonT(60) DEF Message, Changes
  <2> QED BY <1>0, <2>1, <2>2, <2>3, ShownPosts, ZenonT(60)
<1>3. ASSUME NEW k \in Client, NEW t \in Worker, OnErrorStep(k, t) PROVE Shown'
  <2>1. UNCHANGED <<client, state, listener, webrtc, isStreaming, missed, surfaceReady, decoder>>
    BY <1>3, ZenonT(60) DEF OnErrorStep, CallOnError, uiVars, historyVars
  <2>2. posted' = posted \/ posted' = Append(posted, <<k, "onError">>)
    BY <1>3, ZenonT(60) DEF OnErrorStep, CallOnError, Tell
  <2>3. <<k, "onError">> \in Message /\ <<k, "onError">>[2] \notin Changes
    BY ZenonT(60) DEF Message, Changes, Told
  <2> QED BY <1>0, <2>1, <2>2, <2>3, ShownPosts, ZenonT(60)
<1>4. ASSUME NEW k \in Client, ClientStep(k) PROVE Shown'
  <2>1. UNCHANGED <<client, listener, webrtc, isStreaming, missed, surfaceReady, decoder>>
    BY <1>4, ZenonT(60) DEF ClientStep, uiVars, historyVars, RtspStep, exchangeSdp, Signal, SetRemote,
                RemoteSet, onIceConnectionChange, IceConnected, IceLost
  <2>2. CASE UNCHANGED <<state, posted>>
    BY <1>0, <2>1, <2>2, ShownPosts, ZenonT(60)
  <2>3. CASE \E v \in Told \ {"onError"} : /\ state' = [state EXCEPT ![k] = v] /\ Tell(k, v)
                                           /\ v = "PLAYING" => state[k] = "CONNECTED"
    BY <1>0, <2>1, <2>3, ShownTells, ZenonT(60)
  <2>4. CASE RtspStep(k)
    <3>1. PICK s \in RtspStates(k)!Steps :
            /\ s[1] = state[k]
            /\ IF s[2] = "ERROR" THEN Fail(k, "S") ELSE SetState(k, s[2])
      BY <2>4, ZenonT(60) DEF RtspStep
    <3>2. state' = [state EXCEPT ![k] = s[2]] /\ Tell(k, s[2])
      BY <3>1, ZenonT(60) DEF Fail, SetState
    <3>3. s[2] \in Told \ {"onError"} /\ (s[2] = "PLAYING" => s[1] = "CONNECTED")
      BY <3>1 DEF RtspStates!Steps, Told
    <3> QED BY <2>3, <3>1, <3>2, <3>3, ZenonT(60)
  <2>5. CASE exchangeSdp(k) \/ onIceConnectionChange(k)
    <3>1. \/ UNCHANGED <<state, posted>>
          \/ \E v \in {"CONNECTED", "PLAYING", "ERROR"} :
               /\ state' = [state EXCEPT ![k] = v] /\ Tell(k, v)
               /\ v = "PLAYING" => state[k] = "CONNECTED"
      BY <2>5, ZenonT(60) DEF exchangeSdp, Signal, SetRemote, RemoteSet, onIceConnectionChange, IceConnected,
                  IceLost, SetState, Fail
    <3> QED BY <2>2, <2>3, <3>1, ZenonT(60) DEF Told
  <2> QED BY <1>4, <2>4, <2>5, ZenonT(60) DEF ClientStep
<1> QED BY <1>1, <1>2, <1>3, <1>4, ShownRun, ShownSurface, ZenonT(60) DEF Next

\* Once the queue is empty, a client that plays is shown: isStreaming is set, and
\* the decoder runs unless the surface came too early (MainActivity.kt:377-406, 431-440).
THEOREM PlayingIsShown == Spec => []PlayingIsSeen
<1>1. Init => Shown
  BY Clients DEF Init, ClientsInit, Shown
<1>2. PhoneInv /\ Shown => PlayingIsSeen
  <2> SUFFICES ASSUME PhoneInv, Shown, posted = <<>>, client # NoClient, state[client] = "PLAYING"
               PROVE  isStreaming /\ (~missed /\ ~webrtc /\ surfaceReady => decoder = "running")
    BY ZenonT(60) DEF PlayingIsSeen
  <2>1. DOMAIN posted = {}
    BY EmptySeq
  <2>2. ~Ends(Changes, "PLAYING") /\ ~Ends(Decodes, "CONNECTED")
    BY <2>1, ZenonT(60) DEF Ends
  <2> QED BY <2>2, ZenonT(60) DEF Shown
<1>3. PhoneInv /\ Shown /\ [Next]_vars => Shown'
  BY NextShown, ZenonT(60)
<1> QED BY <1>1, <1>2, <1>3, PhoneAlways, PTL DEF Spec
=============================================================================
