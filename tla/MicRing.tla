------------------------------ MODULE MicRing ------------------------------
(***************************************************************************)
(* The microphone's ring buffer (intercom_test/src/audio_in_win.c) between *)
(* the waveIn callback's thread, which fills it, and the event loop, where *)
(* audio_send_timer and handle_play of rtsp_server.c read it.  Both sides  *)
(* work under a critical section, one access to the indices per step.      *)
(***************************************************************************)
EXTENDS Integers, Sequences

CONSTANTS
    RING_SIZE,
    AUDIO_SAMPLES,  \* samples of a packet and of a waveIn buffer
    MIC_GAIN,
    PCM_MAX,        \* 32767
    Raw             \* recorded samples

Pcm == (-PCM_MAX - 1)..PCM_MAX

ASSUME MicRingAssumption ==
    /\ RING_SIZE \in Nat /\ RING_SIZE >= 2
    /\ AUDIO_SAMPLES \in Nat \ {0}
    /\ MIC_GAIN \in Nat
    /\ PCM_MAX \in Nat
    /\ Raw \subseteq Pcm

VARIABLES
    opened,
    ring, rd, wr,
    cs,       \* who is in the critical section: "free", "callback" or "reader"
    todo,     \* samples the callback has still to enqueue
    room,     \* the callback has made room for the next sample
    pc,       \* where the event loop is
    skip,     \* samples audio_send_timer still wants to discard
    want,     \* samples the running audio_in_read may still return
    got,      \* whether it has returned any
    copied,   \* it has copied a sample and not yet moved rd
    tmp,      \* the sample it is copying
    last,     \* the sample it returned last
    arrived   \* samples enqueued since audio_in_available, up to RING_SIZE

ringVars == <<ring, rd, wr>>
readVars == <<pc, skip, want, got, copied, tmp, last>>
vars == <<opened, ringVars, cs, todo, room, readVars, arrived>>

Index == 0..(RING_SIZE - 1)

Init ==
    /\ opened = FALSE
    /\ ring = [i \in Index |-> 0]
    /\ rd = 0
    /\ wr = 0
    /\ cs = "free"
    /\ todo = 0
    /\ room = FALSE
    /\ pc = "idle"
    /\ skip = 0
    /\ want = 0
    /\ got = FALSE
    /\ copied = FALSE
    /\ tmp = 0
    /\ last = 0
    /\ arrived = 0

\* (i + 1) % RING_SIZE for an index i.
After(i) == IF i + 1 = RING_SIZE THEN 0 ELSE i + 1

\* audio_in_available, (wr - rd + RING_SIZE) % RING_SIZE for indices.
Available == IF wr >= rd THEN wr - rd ELSE wr - rd + RING_SIZE

Least(a, b) == IF a < b THEN a ELSE b
----------------------------------------------------------------------------
(* Opening and closing, by the event loop between two reads.               *)

Quiet == pc \in {"idle", "sent"}

\* waveInStart succeeds; a failure leaves the device closed.
audio_in_open ==
    /\ ~opened /\ Quiet
    /\ opened' = TRUE
    /\ ring' = [i \in Index |-> 0] /\ rd' = 0 /\ wr' = 0
    /\ UNCHANGED <<cs, todo, room, readVars, arrived>>

\* waveInReset and waveInClose return when no callback runs.
audio_in_close ==
    /\ opened /\ Quiet /\ cs = "free"
    /\ opened' = FALSE
    /\ ring' = [i \in Index |-> 0] /\ rd' = 0 /\ wr' = 0
    /\ UNCHANGED <<cs, todo, room, readVars, arrived>>
----------------------------------------------------------------------------
(* The waveIn callback.                                                    *)

\* Mutant of wave_in_proc: the critical section is not entered.
CallbackUnlocked ==
    /\ opened /\ todo = 0 /\ cs # "callback"
    /\ todo' \in 1..AUDIO_SAMPLES
    /\ cs' = "callback"
    /\ UNCHANGED <<opened, ringVars, room, readVars, arrived>>

\* A buffer is recorded; enqueue_to_ring enters the critical section.
wave_in_proc ==
    /\ opened /\ cs = "free"
    /\ todo' \in 1..AUDIO_SAMPLES
    /\ cs' = "callback"
    /\ UNCHANGED <<opened, ringVars, room, readVars, arrived>>

\* The oldest sample is dropped when the ring is full.
MakeRoom ==
    /\ cs = "callback" /\ todo > 0 /\ ~room
    /\ room' = TRUE
    /\ rd' = IF After(wr) = rd THEN After(rd) ELSE rd
    /\ UNCHANGED <<opened, ring, wr, cs, todo, readVars, arrived>>

\* Software gain with clipping.
Gain(s) ==
    LET g == s * MIC_GAIN
    IN  IF g > PCM_MAX THEN PCM_MAX ELSE IF g < -PCM_MAX - 1 THEN -PCM_MAX - 1 ELSE g

\* The next sample is written.
enqueue_to_ring ==
    /\ cs = "callback" /\ todo > 0 /\ room
    /\ \E s \in Raw : ring' = [ring EXCEPT ![wr] = Gain(s)]
    /\ wr' = After(wr)
    /\ todo' = todo - 1
    /\ room' = FALSE
    /\ arrived' = Least(arrived + 1, RING_SIZE)
    /\ UNCHANGED <<opened, rd, cs, readVars>>

CallbackLeaves ==
    /\ cs = "callback" /\ todo = 0
    /\ cs' = "free"
    /\ UNCHANGED <<opened, ringVars, todo, room, readVars, arrived>>
----------------------------------------------------------------------------
(* The event loop.                                                         *)

\* Mutant of Excess: two packets are kept instead of one.
ExcessKeepsTwo(n) == IF n > 2 * AUDIO_SAMPLES + 1 THEN n - 2 * AUDIO_SAMPLES ELSE 0

\* How much audio_send_timer discards of n samples.
Excess(n) == IF n > 2 * AUDIO_SAMPLES THEN n - AUDIO_SAMPLES ELSE 0

\* The timer measures the ring and decides what to discard.
audio_send_timer ==
    /\ opened /\ Quiet /\ cs = "free"
    /\ arrived' = 0
    /\ skip' = Excess(Available)
    /\ pc' = IF skip' > 0 THEN "drain" ELSE "read"
    /\ UNCHANGED <<opened, ringVars, cs, todo, room, want, got, copied, tmp, last>>

\* handle_play reads a packet without discarding anything.
handle_play ==
    /\ opened /\ Quiet
    /\ pc' = "play"
    /\ UNCHANGED <<opened, ringVars, cs, todo, room, skip, want, got, copied, tmp, last,
                   arrived>>

Inside == [drain |-> "draining", read |-> "reading", play |-> "playing"]

\* audio_in_read enters the critical section.
audio_in_read ==
    /\ pc \in {"drain", "read", "play"}
    /\ cs = "free"
    /\ cs' = "reader"
    /\ want' = IF pc = "drain" THEN Least(skip, AUDIO_SAMPLES) ELSE AUDIO_SAMPLES
    /\ got' = FALSE
    /\ pc' = Inside[pc]
    /\ UNCHANGED <<opened, ringVars, todo, room, skip, copied, tmp, last, arrived>>

More == want > 0 /\ rd # wr
Reading == pc \in {"draining", "reading", "playing"}

\* pcm[n++] = ring[rd]
CopySample ==
    /\ Reading /\ More /\ ~copied
    /\ tmp' = ring[rd]
    /\ copied' = TRUE
    /\ UNCHANGED <<opened, ringVars, cs, todo, room, pc, skip, want, got, last,
                   arrived>>

\* Mutant of Discarded: what was read is not taken off.
NothingDiscarded == skip

\* skip -= n, sample by sample.
Discarded == IF pc = "draining" THEN skip - 1 ELSE skip

\* rd = (rd + 1) % RING_SIZE; the copy is done, and tmp is cleared.
Advance ==
    /\ Reading /\ copied
    /\ last' = tmp
    /\ tmp' = 0
    /\ copied' = FALSE
    /\ rd' = After(rd)
    /\ want' = want - 1
    /\ got' = TRUE
    /\ skip' = Discarded
    /\ UNCHANGED <<opened, ring, wr, cs, todo, room, pc, arrived>>

\* audio_in_read returns: the draining loop goes on unless it got nothing or is
\* done, and the packet is sent after a read.  Its locals end with it.
ReadReturns ==
    /\ Reading /\ ~More /\ ~copied
    /\ cs' = "free"
    /\ \/ pc = "draining" /\ pc' = IF got /\ skip > 0 THEN "drain" ELSE "read"
       \/ pc = "reading" /\ pc' = "sent"
       \/ pc = "playing" /\ pc' = "idle"
    /\ want' = 0 /\ got' = FALSE
    /\ UNCHANGED <<opened, ringVars, todo, room, skip, copied, tmp, last, arrived>>

Next ==
    \/ audio_in_open \/ audio_in_close
    \/ wave_in_proc \/ MakeRoom \/ enqueue_to_ring \/ CallbackLeaves
    \/ audio_send_timer \/ handle_play
    \/ audio_in_read \/ CopySample \/ Advance \/ ReadReturns

Spec == Init /\ [][Next]_vars

\* Both threads are scheduled, and the critical section is handed on.
FairSpec ==
    /\ Spec
    /\ WF_vars(MakeRoom \/ enqueue_to_ring \/ CallbackLeaves)
    /\ SF_vars(audio_in_read)
    /\ WF_vars(CopySample \/ Advance \/ ReadReturns)
----------------------------------------------------------------------------
\* Type invariant; all samples fit 16 bits after the gain.
TypeOK ==
    /\ opened \in BOOLEAN
    /\ ring \in [Index -> Pcm]
    /\ rd \in Index /\ wr \in Index
    /\ cs \in {"free", "callback", "reader"}
    /\ todo \in 0..AUDIO_SAMPLES
    /\ room \in BOOLEAN
    /\ pc \in {"idle", "sent", "drain", "read", "play", "draining", "reading", "playing"}
    /\ skip \in Nat /\ want \in 0..AUDIO_SAMPLES /\ got \in BOOLEAN
    /\ copied \in BOOLEAN /\ tmp \in Pcm /\ last \in Pcm
    /\ arrived \in 0..RING_SIZE

\* The samples in the ring, oldest first.
Content == [i \in 1..Available |->
              ring[IF rd + i - 1 < RING_SIZE THEN rd + i - 1 ELSE rd + i - 1 - RING_SIZE]]

Queue == INSTANCE SampleQueue
           WITH q <- Content, Sample <- Pcm, Capacity <- RING_SIZE - 1

\* The ring behaves as a queue that loses its oldest sample when it is full
\* (audio_in_win.c:52-82, 187-213): nothing is lost, repeated or reordered
\* otherwise, whatever the callback does between and during the reads.
IsQueue == Queue!Spec

\* After audio_send_timer at most one packet is left, but for samples that
\* arrived meanwhile ("Keep at most 1 frame ahead", rtsp_server.c:1159).
LatencyBounded == pc = "sent" => Available <= AUDIO_SAMPLES + arrived

\* A read that has begun ends although the callback keeps filling the ring.
ReadEnds == pc \in {"drain", "read", "play"} ~> Quiet
=============================================================================
