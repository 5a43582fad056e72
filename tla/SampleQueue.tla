---------------------------- MODULE SampleQueue ----------------------------
(***************************************************************************)
(* What the microphone's ring buffer promises (intercom_test/src/          *)
(* audio_in.h): samples come out in the order they were recorded, each at  *)
(* most once, and one is lost only when the queue is full, the oldest      *)
(* first.                                                                  *)
(***************************************************************************)
EXTENDS Integers, Sequences

CONSTANTS
    Sample,    \* 16-bit samples
    Capacity   \* how many the queue holds

VARIABLES
    q,     \* the samples, oldest first
    last   \* the sample read last

Init == q = <<>> /\ last = 0

Put == /\ Len(q) < Capacity
       /\ \E s \in Sample : q' = Append(q, s)
       /\ UNCHANGED last

DropOldest == /\ Len(q) = Capacity
              /\ q' = Tail(q)
              /\ UNCHANGED last

Get == /\ q # <<>>
       /\ last' = Head(q)
       /\ q' = Tail(q)

\* The device is opened or closed.
Clear == q' = <<>> /\ UNCHANGED last

Next == Put \/ DropOldest \/ Get \/ Clear

Spec == Init /\ [][Next]_<<q, last>>
=============================================================================
