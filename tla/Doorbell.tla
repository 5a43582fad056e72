------------------------------ MODULE Doorbell ------------------------------
(***************************************************************************)
(* The doorbell: the device's flag (intercom_test/src/http_server.c), the  *)
(* phone's polling service (DoorbellService.kt) and its call screen        *)
(* (IncomingCallActivity.kt).  The phone asks over a network that loses    *)
(* and delays; another phone may ask as well.                              *)
(*                                                                         *)
(* A press of the button within five seconds of the last is answered 429   *)
(* and changes nothing: only the accepted presses are modelled, which may  *)
(* be any time apart.  Each has a number, so that a ring can be followed;  *)
(* the code only has a flag.                                               *)
(***************************************************************************)
EXTENDS Integers

CONSTANT MaxRings  \* bound on the accepted presses

ASSUME DoorbellAssumption == MaxRings \in Nat

Ring == 1..MaxRings
NoRing == 0

VARIABLES
    pending,      \* g_doorbell.pending: the ring that waits, or NoRing
    fate,         \* history: what became of each ring
    poller,       \* where the polling thread is
    answer,       \* the ring in the answer under way to it, or NoRing
    screen        \* the ring the call screen is shown for, or NoRing

bellVars == <<pending, fate>>
serviceVars == <<poller, answer>>
doorbellVars == <<bellVars, serviceVars, screen>>

\* The service has been started by an earlier connection.
DoorbellInit ==
    /\ pending = NoRing
    /\ fate = [r \in Ring |-> "none"]
    /\ poller = "ask" /\ answer = NoRing
    /\ screen = NoRing

\* The fates after ring r, if there is one, met with f.
Meets(r, f) == IF r = NoRing THEN fate ELSE [fate EXCEPT ![r] = f]
----------------------------------------------------------------------------
(* The device.                                                             *)

\* Somebody presses the button.  A ring that still waits is joined by the new.
handle_doorbell_trigger ==
    /\ \E r \in Ring :
         /\ fate[r] = "none" /\ \A q \in 1..(r - 1) : fate[q] # "none"
         /\ pending' = r
         /\ fate' = [Meets(pending, "joined") EXCEPT ![r] = "waits"]
    /\ UNCHANGED <<serviceVars, screen>>

\* Mutant of handle_doorbell_status: the ring is not consumed.
StatusKeeps(f) ==
    /\ fate' = Meets(pending, f)
    /\ UNCHANGED pending

\* The status request consumes the ring before the answer is on its way; f is
\* what that makes of the ring.
handle_doorbell_status(f) ==
    /\ fate' = Meets(pending, f)
    /\ pending' = NoRing

\* Another phone asks, or a request of this one arrives that it has given up.
OtherRequest ==
    /\ pending # NoRing
    /\ handle_doorbell_status("over")
    /\ UNCHANGED <<serviceVars, screen>>
----------------------------------------------------------------------------
(* The polling thread; it runs until the service is destroyed.  A request  *)
(* that finds no ring changes nothing, and neither does the pause before   *)
(* each request: a thread at "ask" pauses or has asked.                    *)

\* The device serves the request.
Served ==
    /\ poller = "ask" /\ pending # NoRing
    /\ handle_doorbell_status("answered")
    /\ answer' = pending
    /\ poller' = "served"
    /\ UNCHANGED screen

\* Mutant of RequestFails: the exception ends the thread.
RequestEndsThread ==
    /\ poller = "ask"
    /\ poller' = "done"
    /\ UNCHANGED <<bellVars, answer, screen>>

\* No answer in time, or none at all: after a longer pause there is another request.
RequestFails ==
    /\ poller = "ask"
    /\ UNCHANGED doorbellVars

\* The ring is consumed, but the answer does not arrive.
AnswerFails ==
    /\ poller = "served"
    /\ fate' = Meets(answer, "over")
    /\ answer' = NoRing
    /\ poller' = "ask"
    /\ UNCHANGED <<pending, screen>>

\* The answer arrives; onDoorbellRing looks whether the app is streaming.
onDoorbellRing(streaming) ==
    /\ poller = "served"
    /\ \/ /\ streaming
          /\ fate' = Meets(answer, "over")
          /\ answer' = NoRing /\ poller' = "ask"
       \/ ~streaming /\ poller' = "launch" /\ UNCHANGED <<fate, answer>>
    /\ UNCHANGED <<pending, screen>>

\* The call screen comes up, in the place of an earlier one.
startActivity ==
    /\ poller = "launch"
    /\ screen' = answer
    /\ fate' = Meets(answer, "over")
    /\ answer' = NoRing
    /\ poller' = "ask"
    /\ UNCHANGED pending

pollLoop(streaming) ==
    \/ Served \/ RequestFails \/ AnswerFails
    \/ onDoorbellRing(streaming) \/ startActivity

\* onReject, onTimeout and, before it starts MainActivity, onAccept.
CloseScreen ==
    /\ screen # NoRing
    /\ screen' = NoRing
    /\ UNCHANGED <<bellVars, serviceVars>>
----------------------------------------------------------------------------
\* A ring that is over was shown, kept from the user or lost on the way.
Fate == {"none", "waits", "joined", "answered", "over"}

\* Type invariant of the doorbell.
DoorbellTypeOK ==
    /\ pending \in Ring \cup {NoRing}
    /\ fate \in [Ring -> Fate]
    /\ poller \in {"ask", "served", "launch", "done"}
    /\ answer \in Ring \cup {NoRing}
    /\ screen \in Ring \cup {NoRing}

\* A ring is in one place at a time, and the last one that was accepted is never
\* the one another ring was joined to: the device forgets nothing by itself
\* (http_server.c:271-272, 289).
RingInOnePlace ==
    \A r \in Ring :
      /\ (fate[r] = "waits") <=> (pending = r)
      /\ (fate[r] = "answered") <=> (answer = r)
      /\ fate[r] = "joined" => r < MaxRings /\ fate[r + 1] # "none"

\* A ring does not wait for ever: failed requests do not end the polling
\* (DoorbellService.kt:105-110).
RingIsFetched == \A r \in Ring : (fate[r] = "waits") ~> (fate[r] # "waits")
=============================================================================
