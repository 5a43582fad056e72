------------------------------ MODULE RtspAuth ------------------------------
(***************************************************************************)
(* Digest authentication between the device's RTSP server                  *)
(* (intercom_test/src/rtsp_auth.c, called from dispatch_rtsp) and Android  *)
(* clients that set a stream up (RtspClient.kt, doConnect).  The server    *)
(* has one nonce for all connections and replaces it after each accepted   *)
(* request; a client repeats a request once when it is challenged.         *)
(*                                                                         *)
(* A digest is valid when user and password are right and it was made for  *)
(* the nonce it carries.  Nonces are numbered in the order the server      *)
(* draws them: draws of 32 random digits are taken to be distinct.         *)
(***************************************************************************)
EXTENDS Naturals, Sequences

CONSTANTS
    User,
    Valid,        \* the clients that have the right user name and password
    REQUESTS,     \* authenticated requests of a doConnect: DESCRIBE to PLAY
    MAX_ATTEMPTS  \* bound on connections a client makes

ASSUME RtspAuthAssumption ==
    /\ Valid \subseteq User
    /\ REQUESTS \in Nat \ {0}
    /\ MAX_ATTEMPTS \in Nat

VARIABLES
    nonce,     \* g_auth.nonce
    accepts,   \* the nonces of the accepted requests, in their order
    known,     \* per client: authNonce, 0 for null
    request,   \* per client: the nonce in its request on the way, 0 for none
    reply,     \* per client: the reply on the way, 0 for 200 and otherwise
               \* the nonce of the challenge
    pc,        \* per client: where doConnect is
    done,      \* per client: authenticated requests answered with 200
    attempts   \* per client: connections made

authVars == <<nonce, accepts, known, request, reply, pc, done, attempts>>

\* "first" and "retry": a request is on its way to the server; "answer" and
\* "retry_answer": its reply is on its way back.
Places == {"off", "next", "first", "answer", "retry", "retry_answer", "playing",
           "failed"}

AuthInit ==
    /\ nonce = 1
    /\ accepts = <<>>
    /\ known = [c \in User |-> 0]
    /\ request = [c \in User |-> 0]
    /\ reply = [c \in User |-> 0]
    /\ pc = [c \in User |-> "off"]
    /\ done = [c \in User |-> 0]
    /\ attempts = [c \in User |-> 0]

\* A connection, or the next one after internalCleanup forgot the challenge.
doConnect(c) ==
    /\ pc[c] \in {"off", "failed"}
    /\ attempts[c] < MAX_ATTEMPTS
    /\ attempts' = [attempts EXCEPT ![c] = @ + 1]
    /\ known' = [known EXCEPT ![c] = 0]
    /\ done' = [done EXCEPT ![c] = 0]
    /\ pc' = [pc EXCEPT ![c] = "next"]
    /\ UNCHANGED <<nonce, accepts, request, reply>>

\* sendRequest: the digest is made for the nonce known last.
sendRequest(c, place) ==
    /\ request' = [request EXCEPT ![c] = known[c]]
    /\ pc' = [pc EXCEPT ![c] = place]

sendAuthRequest(c) ==
    /\ pc[c] = "next"
    /\ done[c] < REQUESTS
    /\ sendRequest(c, "first")
    /\ UNCHANGED <<nonce, accepts, known, reply, done, attempts>>

\* Mutant of NonceAfter: the nonce is also replaced when a request is refused.
NonceAfterAny(ok) == nonce + 1

\* The nonce after a request: generate_nonce after an accepted one.
NonceAfter(ok) == IF ok THEN nonce + 1 ELSE nonce

\* Mutant of rtsp_auth_check: a nonce of earlier challenges will do too.
CheckAnyNonce(c) == c \in Valid /\ request[c] \in 1..nonce

\* rtsp_auth_check: right user and digest, and the nonce of now.
rtsp_auth_check(c) == c \in Valid /\ request[c] = nonce

\* dispatch_rtsp: the request is executed, or answered with a challenge.
dispatch_rtsp(c) ==
    LET ok == rtsp_auth_check(c)
    IN  /\ pc[c] \in {"first", "retry"}
        /\ nonce' = NonceAfter(ok)
        /\ accepts' = IF ok THEN Append(accepts, request[c]) ELSE accepts
        /\ reply' = [reply EXCEPT ![c] = IF ok THEN 0 ELSE nonce']
        /\ pc' = [pc EXCEPT ![c] = IF @ = "first" THEN "answer" ELSE "retry_answer"]
        /\ UNCHANGED <<known, request, done, attempts>>

\* readResponse of a 200, to the first or to the repeated request.
ReadOk(c) ==
    /\ pc[c] \in {"answer", "retry_answer"}
    /\ reply[c] = 0
    /\ done' = [done EXCEPT ![c] = @ + 1]
    /\ pc' = [pc EXCEPT ![c] = IF done'[c] = REQUESTS THEN "playing" ELSE "next"]
    /\ UNCHANGED <<nonce, accepts, known, request, reply, attempts>>

\* readResponse of the first 401: the request is repeated with its nonce.
ReadChallenge(c) ==
    /\ pc[c] = "answer"
    /\ reply[c] # 0
    /\ known' = [known EXCEPT ![c] = reply[c]]
    /\ request' = [request EXCEPT ![c] = reply[c]]
    /\ pc' = [pc EXCEPT ![c] = "retry"]
    /\ UNCHANGED <<nonce, accepts, reply, done, attempts>>

\* The second 401: "Authentication failed", the connection is given up.
ReadRefusal(c) ==
    /\ pc[c] = "retry_answer"
    /\ reply[c] # 0
    /\ known' = [known EXCEPT ![c] = reply[c]]
    /\ pc' = [pc EXCEPT ![c] = "failed"]
    /\ UNCHANGED <<nonce, accepts, request, reply, done, attempts>>

\* The connection breaks or times out, at any point; the request on its way
\* may or may not have been executed.
ConnectionBreaks(c) ==
    /\ pc[c] \notin {"off", "failed"}
    /\ pc' = [pc EXCEPT ![c] = "off"]
    /\ UNCHANGED <<nonce, accepts, known, request, reply, done, attempts>>

AuthStep(c) ==
    \/ doConnect(c) \/ sendAuthRequest(c) \/ dispatch_rtsp(c)
    \/ ReadOk(c) \/ ReadChallenge(c) \/ ReadRefusal(c) \/ ConnectionBreaks(c)

AuthNext == \E c \in User : AuthStep(c)

AuthSpec == AuthInit /\ [][AuthNext]_authVars
----------------------------------------------------------------------------
\* Type invariant; nobody holds a nonce that was not drawn yet, and
\* doConnect ends with its last request.
AuthTypeOK ==
    /\ nonce \in Nat \ {0}
    /\ accepts \in Seq(Nat)
    /\ known \in [User -> 0..nonce]
    /\ request \in [User -> 0..nonce]
    /\ reply \in [User -> 0..nonce]
    /\ pc \in [User -> Places]
    /\ done \in [User -> 0..REQUESTS]
    /\ attempts \in [User -> 0..MAX_ATTEMPTS]
    /\ \A c \in User :
          pc[c] \notin {"off", "failed", "playing"} => done[c] < REQUESTS

\* No nonce lets two requests pass, of one client or of two ("Rotate nonce
\* after successful authentication for replay protection", rtsp_auth.c:164).
NonceAcceptedOnce ==
    \A i, j \in DOMAIN accepts : accepts[i] = accepts[j] => i = j

\* A client with the right credentials that answers a challenge is accepted
\* ("This ensures the client can compute a valid response using the nonce
\* received in the 401 challenge", rtsp_auth.c:173-176).
ChallengeCanBeAnswered == \A c \in Valid : pc[c] # "failed"

\* A client with the right credentials is refused after a challenge only if
\* another request has passed with that challenge's nonce: refused requests and
\* broken connections never spoil a challenge (rtsp_auth.c:164, 173).
RefusedOnlyIfUsed ==
    \A c \in Valid :
        pc[c] = "retry_answer" /\ reply[c] # 0 =>
            \E i \in DOMAIN accepts : accepts[i] = request[c]
=============================================================================
