----------------------------- MODULE CaptureRing -----------------------------
(***************************************************************************)
(* Camera in crates/face-auth-core/src/capture.rs: a ring of mmap'd V4L2   *)
(* buffers that the program and the driver hand to each other, and the     *)
(* pairs of frames the program takes from it.  The driver fills buffers at *)
(* the sensor's pace between any two ioctls of the program.                *)
(*                                                                         *)
(* A frame is its number in the order the sensor took them; what is in it  *)
(* is left out.  Finished buffers come back oldest first.                  *)
(***************************************************************************)
EXTENDS Integers, FiniteSets

CONSTANTS
  Buffers,   \* the buffers the driver granted
  NoBuffer,  \* the program holds none
  LastFrame  \* bound: how many frames the sensor takes

ASSUME RingAssumption ==
  /\ IsFiniteSet(Buffers) /\ Buffers # {}
  /\ NoBuffer \notin Buffers
  /\ LastFrame \in Nat

VARIABLES
  owner,    \* who has each buffer
  num,      \* the frame last written into it, 0 for none
  frame,    \* the number of the sensor's next frame
  streaming,\* stream_on
  pc,
  at,       \* the buffer the program took out
  left,     \* rounds left of discard_queued
  first,    \* the frames of the pair under way, 0 for not yet
  second,
  lost,     \* history: buffers that could not be handed back
  stale,    \* history: the newest frame finished when this pair began
  dropped,  \* history: the sensor found no buffer since then
  cutShort  \* history: discard_queued broke off since then

ring    == <<owner, num>>
pair    == <<first, second>>
history == <<stale, dropped, cutShort>>
vars == <<owner, num, frame, streaming, pc, at, left, first, second, lost,
          stale, dropped, cutShort>>

Busy == {"discard", "return", "poll", "read", "requeue"}

TypeOK ==
  /\ owner \in [Buffers -> {"program", "queued", "filling", "done"}]
  /\ num \in [Buffers -> Nat]
  /\ frame \in Nat \ {0}
  /\ streaming \in BOOLEAN
  /\ pc \in {"idle", "closed"} \cup Busy
  /\ at \in Buffers \cup {NoBuffer}
  /\ left \in 0..Cardinality(Buffers)
  /\ first \in Nat /\ second \in Nat
  /\ lost \subseteq Buffers
  /\ stale \in Nat
  /\ dropped \in BOOLEAN
  /\ cutShort \in BOOLEAN

\* Camera::open: the buffers are mapped and none is queued yet.
Init ==
  /\ owner = [b \in Buffers |-> "program"]
  /\ num = [b \in Buffers |-> 0]
  /\ frame = 1
  /\ streaming = FALSE
  /\ pc = "idle"
  /\ at = NoBuffer
  /\ left = 0
  /\ first = 0 /\ second = 0
  /\ lost = {}
  /\ stale = 0
  /\ dropped = FALSE /\ cutShort = FALSE

Has(who) == {b \in Buffers : owner[b] = who}
Give(b, whom) == owner' = [owner EXCEPT ![b] = whom]

\* The buffer the driver hands out next.
IsOldest(b) == b \in Has("done") /\ \A c \in Has("done") : num[b] <= num[c]

-----------------------------------------------------------------------------
(* start_stream. *)

\* The scan starts the stream as soon as the camera is open.
StartStream ==
  /\ pc = "idle" /\ ~streaming
  /\ owner' = [b \in Buffers |-> "queued"]
  /\ streaming' = TRUE
  /\ UNCHANGED <<num, frame, pc, at, left, pair, lost, history>>

\* A QBUF or STREAMON that fails ends the scan or the enrolment.
StartFails ==
  /\ pc = "idle" /\ ~streaming
  /\ pc' = "closed"
  /\ UNCHANGED <<ring, frame, streaming, at, left, pair, lost, history>>

-----------------------------------------------------------------------------
(* capture_illuminated_frame. *)

NewestDone(n) ==
  /\ \A b \in Has("done") : num[b] <= n
  /\ n = 0 \/ \E b \in Has("done") : num[b] = n

NewPair ==
  /\ first' = 0 /\ second' = 0
  /\ dropped' = FALSE /\ cutShort' = FALSE

\* Mutants of BeginPair: a round of discard_queued too few, and one too many.
BeginPairOneLess ==
  /\ pc = "idle" /\ streaming
  /\ pc' = "discard"
  /\ left' = Cardinality(Buffers) - 1
  /\ NewPair
  /\ \E n \in 0..frame : NewestDone(n) /\ stale' = n
  /\ UNCHANGED <<ring, frame, streaming, at, lost>>

BeginPair ==
  /\ pc = "idle" /\ streaming
  /\ pc' = "discard"
  /\ left' = Cardinality(Buffers)
  /\ NewPair
  /\ \E n \in 0..frame : NewestDone(n) /\ stale' = n
  /\ UNCHANGED <<ring, frame, streaming, at, lost>>

\* An enrolment's first pair starts the stream itself; nothing to discard.
BeginCold ==
  /\ pc = "idle" /\ ~streaming
  /\ owner' = [b \in Buffers |-> "queued"]
  /\ streaming' = TRUE
  /\ pc' = "poll"
  /\ NewPair
  /\ stale' = 0
  /\ UNCHANGED <<num, frame, at, left, lost>>

\* A finished frame is dequeued without a look at it ...
Discard(b) ==
  /\ pc = "discard" /\ left > 0
  /\ IsOldest(b)
  /\ Give(b, "program") /\ at' = b
  /\ pc' = "return"
  /\ UNCHANGED <<num, frame, streaming, left, pair, lost, history>>

\* ... and queued again.
Return ==
  /\ pc = "return"
  /\ Give(at, "queued") /\ at' = NoBuffer
  /\ left' = left - 1
  /\ pc' = "discard"
  /\ UNCHANGED <<num, frame, streaming, pair, lost, history>>

ReturnFails ==
  /\ pc = "return"
  /\ lost' = lost \cup {at} /\ at' = NoBuffer
  /\ cutShort' = TRUE
  /\ pc' = "poll"
  /\ UNCHANGED <<ring, frame, streaming, left, pair, stale, dropped>>

DiscardEnds ==
  /\ pc = "discard"
  /\ left = 0 \/ Has("done") = {}
  /\ pc' = "poll"
  /\ UNCHANGED <<ring, frame, streaming, at, left, pair, lost, history>>

\* poll() or DQBUF fails with frames still there.
DiscardFails ==
  /\ pc = "discard" /\ left > 0
  /\ Has("done") # {}
  /\ cutShort' = TRUE
  /\ pc' = "poll"
  /\ UNCHANGED <<ring, frame, streaming, at, left, pair, lost, stale, dropped>>

-----------------------------------------------------------------------------
(* capture_frame, for the first frame of the pair and then the second. *)

\* Mutant of Dequeue: the buffer is handed back before it is read.
DequeueAndRequeue(b) ==
  /\ pc = "poll"
  /\ IsOldest(b)
  /\ Give(b, "queued") /\ at' = b
  /\ pc' = "read"
  /\ UNCHANGED <<num, frame, streaming, left, pair, lost, history>>

Dequeue(b) ==
  /\ pc = "poll"
  /\ IsOldest(b)
  /\ Give(b, "program") /\ at' = b
  /\ pc' = "read"
  /\ UNCHANGED <<num, frame, streaming, left, pair, lost, history>>

\* Mutant of NoFrame: poll() without a timeout.
NoFrameEver == pc = "poll" /\ at # NoBuffer /\ UNCHANGED vars

\* poll() times out or is interrupted, or DQBUF fails.  The first frame is
\* still a usable answer when the second fails.
NoFrame ==
  /\ pc = "poll"
  /\ pc' = "idle"
  /\ UNCHANGED <<ring, frame, streaming, at, left, pair, lost, history>>

Read ==
  /\ pc = "read"
  /\ IF first = 0 THEN first' = num[at] /\ UNCHANGED second
                  ELSE second' = num[at] /\ UNCHANGED first
  /\ pc' = "requeue"
  /\ UNCHANGED <<ring, frame, streaming, at, left, lost, history>>

\* Mutant of AfterFrame: every frame is preceded by discard_queued.
AfterFrameDiscards == pc' \in {"idle"} \cup (IF second = 0 THEN {"discard"} ELSE {})

\* A short frame ends the pair, as does the second one.
AfterFrame == pc' \in {"idle"} \cup (IF second = 0 THEN {"poll"} ELSE {})

\* Mutant of Requeue: the call returns before the buffer is queued again.
RequeueUnlessShort ==
  /\ pc = "requeue"
  /\ AfterFrame
  /\ IF pc' = "idle" THEN UNCHANGED owner ELSE Give(at, "queued")
  /\ at' = NoBuffer
  /\ UNCHANGED <<num, frame, streaming, left, pair, lost, history>>

Requeue ==
  /\ pc = "requeue"
  /\ AfterFrame
  /\ Give(at, "queued") /\ at' = NoBuffer
  /\ UNCHANGED <<num, frame, streaming, left, pair, lost, history>>

\* The error is ignored: the frame is good, the buffer is gone.
RequeueFails ==
  /\ pc = "requeue"
  /\ AfterFrame
  /\ lost' = lost \cup {at} /\ at' = NoBuffer
  /\ UNCHANGED <<ring, frame, streaming, left, pair, history>>

\* Drop: STREAMOFF, and the mappings go.
Close ==
  /\ pc = "idle"
  /\ pc' = "closed"
  /\ streaming' = FALSE
  /\ owner' = [b \in Buffers |-> "program"]
  /\ UNCHANGED <<num, frame, at, left, pair, lost, history>>

-----------------------------------------------------------------------------
(* The driver. *)

FrameStarts(b) ==
  /\ streaming /\ frame <= LastFrame
  /\ Has("filling") = {}
  /\ b \in Has("queued")
  /\ Give(b, "filling")
  /\ num' = [num EXCEPT ![b] = frame]
  /\ frame' = frame + 1
  /\ UNCHANGED <<streaming, pc, at, left, pair, lost, history>>

FrameEnds(b) ==
  /\ b \in Has("filling")
  /\ Give(b, "done")
  /\ UNCHANGED <<num, frame, streaming, pc, at, left, pair, lost, history>>

\* No buffer to write to: the frame is dropped.
FrameDropped ==
  /\ streaming /\ frame <= LastFrame
  /\ Has("filling") = {} /\ Has("queued") = {}
  /\ frame' = frame + 1
  /\ dropped' = TRUE
  /\ UNCHANGED <<ring, streaming, pc, at, left, pair, lost, stale, cutShort>>

-----------------------------------------------------------------------------
\* What a call of the program is bound to do next.
Program ==
  \/ \E b \in Buffers : Discard(b) \/ Dequeue(b)
  \/ Return \/ ReturnFails \/ DiscardEnds \/ DiscardFails
  \/ NoFrame \/ Read \/ Requeue \/ RequeueFails

Calls == StartStream \/ StartFails \/ BeginPair \/ BeginCold \/ Close

Driver == FrameDropped \/ \E b \in Buffers : FrameStarts(b) \/ FrameEnds(b)

Next == Program \/ Calls \/ Driver

Spec == Init /\ [][Next]_vars

\* One thread; its one wait, poll(), has a timeout.
FairSpec == Spec /\ WF_vars(Program)

-----------------------------------------------------------------------------
(* Properties. *)

\* A frame is copied out of a buffer the driver does not write to meanwhile
\* (capture.rs:366-375 reads between DQBUF and QBUF).
ReadsOwnBuffer == pc = "read" => owner[at] = "program"

\* "Hand the buffer straight back so the ring stays full" (capture.rs:377):
\* between two calls every buffer is with the driver, whatever failed, unless
\* the driver itself refused it.
RingStaysFull ==
  pc = "idle" /\ streaming => \A b \in Buffers : owner[b] = "program" => b \in lost

\* No frame of a pair was already finished when the pair was asked for, however
\* the driver fills the ring while discard_queued empties it ("so the next read
\* is a fresh one", capture.rs:292-295).
Fresh == first # 0 /\ ~cutShort => first > stale

\* The two frames are consecutive, one lit and one dark under a strobing
\* illuminator (capture.rs:395-405), unless the sensor ran out of buffers
\* while the pair was being taken.
Consecutive ==
  second # 0 /\ ~cutShort /\ ~dropped => second = first + 1

\* Every call returns, even when the sensor stops or the driver fails.
CallsReturn == pc \in Busy ~> pc \notin Busy
=============================================================================
