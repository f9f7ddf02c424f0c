-------------------------- MODULE CaptureRing_proofs --------------------------
(***************************************************************************)
(* What holds of the capture ring for any number of buffers and of frames, *)
(* and however the driver's steps fall between the program's.              *)
(***************************************************************************)
EXTENDS CaptureRing, FiniteSetTheorems, TLAPS

-----------------------------------------------------------------------------
(* The invariant. *)

\* A buffer that holds a frame for the program to come.
Live(b) == owner[b] \in {"done", "filling"}

\* The finished frames a new pair must not begin with.
OldDone == {b \in Buffers : owner[b] = "done" /\ num[b] <= stale}

\* Frame k is in the ring.
InRing(k) == \E d \in Buffers : Live(d) /\ num[d] = k

\* Who has a buffer, by where the program is.
Shape ==
  /\ at \in Buffers <=> pc \in {"return", "read", "requeue"}
  /\ at \in Buffers => owner[at] = "program"
  /\ pc \in Busy => streaming
  /\ streaming => \A b \in Buffers : owner[b] = "program" => b \in lost \/ b = at
  /\ ~streaming => \A b \in Buffers : owner[b] = "program"
  /\ pc = "return" => left > 0

\* The frames in the ring are different ones, and the newest is being filled.
Order ==
  /\ \A b \in Buffers : Live(b) => 0 < num[b] /\ num[b] < frame
  /\ \A b, c \in Buffers : Live(b) /\ Live(c) /\ num[b] = num[c] => b = c
  /\ \A b \in Buffers : owner[b] = "filling" => num[b] = frame - 1
  /\ stale < frame
  /\ \A b \in Buffers : owner[b] = "filling" => num[b] > stale

\* How much of the pair there is.
Progress ==
  /\ first < frame
  /\ pc \in {"discard", "return"} => first = 0
  /\ pc \in {"discard", "return", "poll", "read"} => second = 0
  /\ pc = "requeue" => first # 0
  /\ pc = "read" =>
       /\ 0 < num[at]
       /\ num[at] < frame
       /\ \A d \in Buffers : Live(d) => num[d] > num[at]
  /\ pc \in {"poll", "requeue"} /\ first # 0 /\ second = 0 =>
       \A d \in Buffers : Live(d) => num[d] > first

\* As many old frames are left as discard_queued has rounds left.
Emptied ==
  ~cutShort =>
    /\ pc = "discard" => Cardinality(OldDone) <= left
    /\ pc = "return" => Cardinality(OldDone) <= left - 1
    /\ pc \in {"poll", "read", "requeue"} => OldDone = {}
    /\ pc = "read" => num[at] > stale

\* After a frame of the pair come all the frames since, until one is dropped.
Gapless ==
  ~dropped =>
    /\ \A b \in Buffers : Live(b) /\ num[b] > stale =>
         \A k \in num[b]..(frame - 1) : InRing(k)
    /\ ~cutShort =>
         /\ pc = "read" => \A k \in (num[at] + 1)..(frame - 1) : InRing(k)
         /\ pc \in {"poll", "requeue"} /\ first # 0 /\ second = 0 =>
              \A k \in (first + 1)..(frame - 1) : InRing(k)
         /\ pc = "read" /\ first # 0 => num[at] = first + 1

IInv == TypeOK /\ Shape /\ Order /\ Progress /\ Emptied /\ Gapless /\ Fresh /\ Consecutive

-----------------------------------------------------------------------------
(* The steps. *)

LEMMA BufferCount == Cardinality(Buffers) \in Nat
  BY RingAssumption, FS_CardinalityType

(* Old frames are finitely many, and none are only when there is none. *)
LEMMA OldDoneFinite ==
  /\ IsFiniteSet(OldDone)
  /\ Cardinality(OldDone) \in Nat
  /\ Cardinality(OldDone) <= Cardinality(Buffers)
  /\ Cardinality(OldDone) = 0 => OldDone = {}
<1>1. OldDone \in SUBSET Buffers
  BY DEF OldDone
<1> QED
  BY <1>1, RingAssumption, FS_Subset, FS_CardinalityType, FS_EmptySet

(* Every step keeps the variables within their types. *)
LEMMA TypeStep == TypeOK /\ Shape /\ [Next]_vars => TypeOK'
<1> SUFFICES ASSUME TypeOK, Shape, [Next]_vars PROVE TypeOK'
  OBVIOUS
<1> USE RingAssumption, BufferCount
<1> USE DEF TypeOK, Shape, NewPair, AfterFrame, ring, pair, history, Busy, Give, Has
<1>1. CASE StartStream
  BY <1>1 DEF StartStream
<1>2. CASE StartFails
  BY <1>2 DEF StartFails
<1>3. CASE BeginPair
  <2>1. stale' \in Nat
    BY <1>3 DEF BeginPair
  <2>2. left' \in 0..Cardinality(Buffers)
    BY <1>3 DEF BeginPair
  <2> QED
    BY <2>1, <2>2, <1>3 DEF BeginPair
<1>4. CASE BeginCold
  BY <1>4 DEF BeginCold
<1>5. CASE Close
  BY <1>5 DEF Close
<1>6. ASSUME NEW b \in Buffers, Discard(b) PROVE TypeOK'
  BY <1>6 DEF Discard
<1>7. ASSUME NEW b \in Buffers, Dequeue(b) PROVE TypeOK'
  BY <1>7 DEF Dequeue
<1>8. CASE Return
  BY <1>8 DEF Return
<1>9. CASE ReturnFails
  BY <1>9 DEF ReturnFails
<1>10. CASE DiscardEnds
  BY <1>10 DEF DiscardEnds
<1>11. CASE DiscardFails
  BY <1>11 DEF DiscardFails
<1>12. CASE NoFrame
  BY <1>12 DEF NoFrame
<1>13. CASE Read
  BY <1>13 DEF Read
<1>14. CASE Requeue
  BY <1>14 DEF Requeue
<1>15. CASE RequeueFails
  BY <1>15 DEF RequeueFails
<1>16. CASE FrameDropped
  BY <1>16 DEF FrameDropped
<1>17. ASSUME NEW b \in Buffers, FrameStarts(b) PROVE TypeOK'
  BY <1>17 DEF FrameStarts
<1>18. ASSUME NEW b \in Buffers, FrameEnds(b) PROVE TypeOK'
  BY <1>18 DEF FrameEnds
<1>90. CASE UNCHANGED vars
  BY <1>90 DEF vars
<1> QED
  BY <1>1, <1>2, <1>3, <1>4, <1>5, <1>6, <1>7, <1>8, <1>9, <1>10, <1>11, <1>12, <1>13, <1>14, <1>15, <1>16, <1>17, <1>18, <1>90 DEF Next, Program, Calls, Driver

(* A buffer is out only while the program works on it. *)
LEMMA ShapeStep == TypeOK /\ Shape /\ [Next]_vars => Shape'
<1> SUFFICES ASSUME TypeOK, Shape, [Next]_vars PROVE Shape'
  OBVIOUS
<1> USE RingAssumption, BufferCount
<1> USE DEF TypeOK, Shape, NewPair, AfterFrame, ring, pair, history, Busy, Give, Has
<1>1. CASE StartStream
  BY <1>1 DEF StartStream
<1>2. CASE StartFails
  BY <1>2 DEF StartFails
<1>3. CASE BeginPair
  BY <1>3 DEF BeginPair
<1>4. CASE BeginCold
  BY <1>4 DEF BeginCold
<1>5. CASE Close
  BY <1>5 DEF Close
<1>6. ASSUME NEW b \in Buffers, Discard(b) PROVE Shape'
  BY <1>6 DEF Discard, IsOldest
<1>7. ASSUME NEW b \in Buffers, Dequeue(b) PROVE Shape'
  BY <1>7 DEF Dequeue, IsOldest
<1>8. CASE Return
  BY <1>8 DEF Return
<1>9. CASE ReturnFails
  BY <1>9 DEF ReturnFails
<1>10. CASE DiscardEnds
  BY <1>10 DEF DiscardEnds
<1>11. CASE DiscardFails
  BY <1>11 DEF DiscardFails
<1>12. CASE NoFrame
  BY <1>12 DEF NoFrame
<1>13. CASE Read
  BY <1>13 DEF Read
<1>14. CASE Requeue
  BY <1>14 DEF Requeue
<1>15. CASE RequeueFails
  BY <1>15 DEF RequeueFails
<1>16. CASE FrameDropped
  BY <1>16 DEF FrameDropped
<1>17. ASSUME NEW b \in Buffers, FrameStarts(b) PROVE Shape'
  BY <1>17 DEF FrameStarts
<1>18. ASSUME NEW b \in Buffers, FrameEnds(b) PROVE Shape'
  BY <1>18 DEF FrameEnds
<1>90. CASE UNCHANGED vars
  BY <1>90 DEF vars
<1> QED
  BY <1>1, <1>2, <1>3, <1>4, <1>5, <1>6, <1>7, <1>8, <1>9, <1>10, <1>11, <1>12, <1>13, <1>14, <1>15, <1>16, <1>17, <1>18, <1>90 DEF Next, Program, Calls, Driver

(* Frames are numbered as they come. *)
LEMMA OrderStep == TypeOK /\ Shape /\ Order /\ [Next]_vars => Order'
<1> SUFFICES ASSUME TypeOK, Shape, Order, [Next]_vars PROVE Order'
  OBVIOUS
<1> USE RingAssumption, BufferCount
<1> USE DEF TypeOK, Shape, Order, NewPair, AfterFrame, Live, ring, pair, history, Busy, Give, Has
<1>1. CASE StartStream
  BY <1>1 DEF StartStream
<1>2. CASE StartFails
  BY <1>2 DEF StartFails
<1>3. CASE BeginPair
  BY <1>3 DEF BeginPair, NewestDone
<1>4. CASE BeginCold
  BY <1>4 DEF BeginCold
<1>5. CASE Close
  BY <1>5 DEF Close
<1>6. ASSUME NEW b \in Buffers, Discard(b) PROVE Order'
  BY <1>6 DEF Discard, IsOldest
<1>7. ASSUME NEW b \in Buffers, Dequeue(b) PROVE Order'
  BY <1>7 DEF Dequeue, IsOldest
<1>8. CASE Return
  BY <1>8 DEF Return
<1>9. CASE ReturnFails
  BY <1>9 DEF ReturnFails
<1>10. CASE DiscardEnds
  BY <1>10 DEF DiscardEnds
<1>11. CASE DiscardFails
  BY <1>11 DEF DiscardFails
<1>12. CASE NoFrame
  BY <1>12 DEF NoFrame
<1>13. CASE Read
  BY <1>13 DEF Read
<1>14. CASE Requeue
  BY <1>14 DEF Requeue
<1>15. CASE RequeueFails
  BY <1>15 DEF RequeueFails
<1>16. CASE FrameDropped
  BY <1>16 DEF FrameDropped
<1>17. ASSUME NEW b \in Buffers, FrameStarts(b) PROVE Order'
  BY <1>17 DEF FrameStarts
<1>18. ASSUME NEW b \in Buffers, FrameEnds(b) PROVE Order'
  BY <1>18 DEF FrameEnds
<1>90. CASE UNCHANGED vars
  BY <1>90 DEF vars
<1> QED
  BY <1>1, <1>2, <1>3, <1>4, <1>5, <1>6, <1>7, <1>8, <1>9, <1>10, <1>11, <1>12, <1>13, <1>14, <1>15, <1>16, <1>17, <1>18, <1>90 DEF Next, Program, Calls, Driver

(* A pair's first frame comes before its second, and both before those in the ring. *)
LEMMA ProgressStep == TypeOK /\ Shape /\ Order /\ Progress /\ [Next]_vars => Progress'
<1> SUFFICES ASSUME TypeOK, Shape, Order, Progress, [Next]_vars PROVE Progress'
  OBVIOUS
<1> USE RingAssumption, BufferCount
<1> USE DEF TypeOK, Shape, Order, Progress, NewPair, AfterFrame, Live, ring, pair, history, Busy, Give, Has
<1>1. CASE StartStream
  BY <1>1 DEF StartStream
<1>2. CASE StartFails
  BY <1>2 DEF StartFails
<1>3. CASE BeginPair
  BY <1>3 DEF BeginPair
<1>4. CASE BeginCold
  BY <1>4 DEF BeginCold
<1>5. CASE Close
  BY <1>5 DEF Close
<1>6. ASSUME NEW b \in Buffers, Discard(b) PROVE Progress'
  BY <1>6 DEF Discard, IsOldest
<1>7. ASSUME NEW b \in Buffers, Dequeue(b) PROVE Progress'
  BY <1>7 DEF Dequeue, IsOldest
<1>8. CASE Return
  BY <1>8 DEF Return
<1>9. CASE ReturnFails
  BY <1>9 DEF ReturnFails
<1>10. CASE DiscardEnds
  BY <1>10 DEF DiscardEnds
<1>11. CASE DiscardFails
  BY <1>11 DEF DiscardFails
<1>12. CASE NoFrame
  BY <1>12 DEF NoFrame
<1>13. CASE Read
  BY <1>13 DEF Read
<1>14. CASE Requeue
  BY <1>14 DEF Requeue
<1>15. CASE RequeueFails
  BY <1>15 DEF RequeueFails
<1>16. CASE FrameDropped
  BY <1>16 DEF FrameDropped
<1>17. ASSUME NEW b \in Buffers, FrameStarts(b) PROVE Progress'
  BY <1>17 DEF FrameStarts
<1>18. ASSUME NEW b \in Buffers, FrameEnds(b) PROVE Progress'
  BY <1>18 DEF FrameEnds
<1>90. CASE UNCHANGED vars
  BY <1>90 DEF vars
<1> QED
  BY <1>1, <1>2, <1>3, <1>4, <1>5, <1>6, <1>7, <1>8, <1>9, <1>10, <1>11, <1>12, <1>13, <1>14, <1>15, <1>16, <1>17, <1>18, <1>90 DEF Next, Program, Calls, Driver

(* Each round of discard_queued takes an old frame out, while there is one. *)
LEMMA EmptiedStep == TypeOK /\ Shape /\ Order /\ Emptied /\ [Next]_vars => Emptied'
<1> SUFFICES ASSUME TypeOK, Shape, Order, Emptied, [Next]_vars PROVE Emptied'
  OBVIOUS
<1> USE RingAssumption, BufferCount
<1>0. Order
  OBVIOUS
<1> USE DEF TypeOK, Shape, Emptied, NewPair, AfterFrame, ring, pair, history, Busy, Give, Has
<1>1. CASE StartStream
  BY <1>1 DEF StartStream
<1>2. CASE StartFails
  BY <1>2 DEF StartFails
<1>3. CASE BeginPair
  <2>1. OldDone' \subseteq Buffers
    BY DEF OldDone
  <2>2. Cardinality(OldDone') <= Cardinality(Buffers)
    BY <2>1, RingAssumption, FS_Subset
  <2> QED
    BY <2>2, <1>3 DEF BeginPair
<1>4. CASE BeginCold
  <2>1. OldDone' = {}
    BY <1>4 DEF BeginCold, OldDone
  <2> QED
    BY <2>1, <1>4 DEF BeginCold
<1>5. CASE Close
  BY <1>5 DEF Close
<1>6. ASSUME NEW b \in Buffers, Discard(b) PROVE Emptied'
  <2>1. OldDone' = OldDone \ {b}
    BY <1>6 DEF Discard, IsOldest, OldDone
  <2>2. CASE b \in OldDone
    <3>1. Cardinality(OldDone') = Cardinality(OldDone) - 1
      BY <2>1, <2>2, OldDoneFinite, FS_RemoveElement
    <3> QED
      BY <3>1, OldDoneFinite, <1>6 DEF Discard
  <2>3. CASE b \notin OldDone
    <3>1. OldDone = {}
      BY <2>3, <1>6 DEF Discard, IsOldest, OldDone
    <3>2. Cardinality(OldDone') = 0
      BY <3>1, <2>1, FS_EmptySet
    <3> QED
      BY <3>2, <1>6 DEF Discard
  <2> QED
    BY <2>2, <2>3
<1>7. ASSUME NEW b \in Buffers, Dequeue(b) PROVE Emptied'
  <2>1. ~cutShort => OldDone = {}
    BY <1>7 DEF Dequeue
  <2>2. OldDone' \subseteq OldDone
    BY <1>7 DEF Dequeue, IsOldest, OldDone
  <2>3. ~cutShort => num[b] > stale
    BY <2>1, <1>7 DEF Dequeue, IsOldest, OldDone
  <2> QED
    BY <2>1, <2>2, <2>3, <1>7 DEF Dequeue
<1>8. CASE Return
  <2>1. OldDone' = OldDone
    BY <1>8 DEF Return, OldDone
  <2> QED
    BY <2>1, <1>8 DEF Return
<1>9. CASE ReturnFails
  BY <1>9 DEF ReturnFails
<1>10. CASE DiscardEnds
  <2>1. ~cutShort => OldDone = {}
    BY OldDoneFinite, <1>10 DEF DiscardEnds, OldDone
  <2>2. OldDone' = OldDone
    BY <1>10 DEF DiscardEnds, OldDone
  <2> QED
    BY <2>1, <2>2, <1>10 DEF DiscardEnds
<1>11. CASE DiscardFails
  BY <1>11 DEF DiscardFails
<1>12. CASE NoFrame
  BY <1>12 DEF NoFrame
<1>13. CASE Read
  <2>1. OldDone' = OldDone
    BY <1>13 DEF Read, OldDone
  <2> QED
    BY <2>1, <1>13 DEF Read
<1>14. CASE Requeue
  <2>1. OldDone' = OldDone
    BY <1>14 DEF Requeue, OldDone
  <2> QED
    BY <2>1, <1>14 DEF Requeue
<1>15. CASE RequeueFails
  <2>1. OldDone' = OldDone
    BY <1>15 DEF RequeueFails, OldDone
  <2> QED
    BY <2>1, <1>15 DEF RequeueFails
<1>16. CASE FrameDropped
  <2>1. OldDone' = OldDone
    BY <1>16 DEF FrameDropped, OldDone
  <2> QED
    BY <2>1, <1>16 DEF FrameDropped
<1>17. ASSUME NEW b \in Buffers, FrameStarts(b) PROVE Emptied'
  <2>1. OldDone' = OldDone
    BY <1>17 DEF FrameStarts, OldDone
  <2> QED
    BY <2>1, <1>17 DEF FrameStarts
<1>18. ASSUME NEW b \in Buffers, FrameEnds(b) PROVE Emptied'
  <2>1. OldDone' = OldDone
    BY <1>18 DEF FrameEnds, OldDone, Order
  <2> QED
    BY <2>1, <1>18 DEF FrameEnds
<1>90. CASE UNCHANGED vars
  <2>1. OldDone' = OldDone
    BY <1>90 DEF vars, OldDone
  <2> QED
    BY <2>1, <1>90 DEF vars
<1> QED
  BY <1>1, <1>2, <1>3, <1>4, <1>5, <1>6, <1>7, <1>8, <1>9, <1>10, <1>11, <1>12, <1>13, <1>14, <1>15, <1>16, <1>17, <1>18, <1>90 DEF Next, Program, Calls, Driver

(* No frame is missing between the pair and the ring. *)
LEMMA GaplessStep == TypeOK /\ Shape /\ Order /\ Progress /\ Emptied /\ Gapless /\ [Next]_vars => Gapless'
<1> SUFFICES ASSUME TypeOK, Shape, Order, Progress, Emptied, Gapless, [Next]_vars PROVE Gapless'
  OBVIOUS
<1> USE RingAssumption
<1>0. Progress /\ Emptied
  OBVIOUS
<1> USE DEF TypeOK, Shape, Order, Gapless, NewPair, AfterFrame, Live, ring, pair, history, Busy, Give, Has
<1>1. CASE StartStream
  BY <1>1 DEF StartStream
<1>2. CASE StartFails
  <2>1. \A k : InRing(k)' <=> InRing(k)
    BY <1>2 DEF StartFails, InRing
  <2> QED
    BY <2>1, <1>0, <1>2 DEF StartFails, Progress
<1>3. CASE BeginPair
  <2>1. ASSUME NEW c \in Buffers, Live(c), num[c] > stale'
        PROVE  num[c] = frame - 1
    BY <2>1, <1>3 DEF BeginPair, NewestDone
  <2>2. ASSUME NEW c \in Buffers, Live(c), num[c] > stale'
        PROVE  \A k \in num[c]..(frame - 1) : InRing(k)'
    BY <2>1, <2>2, <1>3 DEF BeginPair, InRing
  <2> QED
    BY <2>2, <1>3 DEF BeginPair
<1>4. CASE BeginCold
  BY <1>4 DEF BeginCold
<1>5. CASE Close
  BY <1>5 DEF Close
<1>6. ASSUME NEW b \in Buffers, Discard(b) PROVE Gapless'
  <2>1. ASSUME NEW k \in Int, InRing(k), k > num[b]
        PROVE  InRing(k)'
    BY <2>1, <1>6 DEF Discard, InRing
  <2>2. ASSUME NEW c \in Buffers, Live(c)', num[c] > stale, ~dropped
        PROVE  \A k \in num[c]..(frame - 1) : InRing(k)'
    <3>1. Live(c) /\ num[b] < num[c]
      BY <2>2, <1>6 DEF Discard, IsOldest
    <3> QED
      BY <3>1, <2>1, <2>2
  <2> QED
    BY <2>2, <1>6 DEF Discard
<1>7. ASSUME NEW b \in Buffers, Dequeue(b) PROVE Gapless'
  <2>1. ASSUME NEW k \in Int, InRing(k), k > num[b]
        PROVE  InRing(k)'
    BY <2>1, <1>7 DEF Dequeue, InRing
  <2>2. ASSUME NEW c \in Buffers, Live(c)', num[c] > stale, ~dropped
        PROVE  \A k \in num[c]..(frame - 1) : InRing(k)'
    <3>1. Live(c) /\ num[b] < num[c]
      BY <2>2, <1>7 DEF Dequeue, IsOldest
    <3> QED
      BY <3>1, <2>1, <2>2
  <2>3. ~cutShort => num[b] > stale
    BY <1>0, <1>7 DEF Dequeue, IsOldest, Emptied, OldDone
  <2>4. ASSUME ~cutShort, ~dropped
        PROVE  \A k \in (num[b] + 1)..(frame - 1) : InRing(k)'
    BY <2>1, <2>3, <2>4, <1>7 DEF Dequeue, IsOldest
  <2>5. ASSUME ~cutShort, ~dropped, first # 0
        PROVE  num[b] = first + 1
    <3>1. num[b] > first /\ num[b] < frame
      BY <2>5, <1>0, <1>7 DEF Dequeue, IsOldest, Progress
    <3>2. InRing(first + 1)
      BY <3>1, <2>5, <1>0, <1>7 DEF Dequeue, Progress
    <3>3. PICK d \in Buffers : Live(d) /\ num[d] = first + 1
      BY <3>2 DEF InRing
    <3> QED
      BY <3>1, <3>3, <1>7 DEF Dequeue, IsOldest
  <2> QED
    BY <2>2, <2>4, <2>5, <1>7 DEF Dequeue
<1>8. CASE Return
  <2>1. \A k : InRing(k)' <=> InRing(k)
    BY <1>8 DEF Return, InRing
  <2> QED
    BY <2>1, <1>0, <1>8 DEF Return, Progress
<1>9. CASE ReturnFails
  <2>1. \A k : InRing(k)' <=> InRing(k)
    BY <1>9 DEF ReturnFails, InRing
  <2> QED
    BY <2>1, <1>0, <1>9 DEF ReturnFails, Progress
<1>10. CASE DiscardEnds
  <2>1. \A k : InRing(k)' <=> InRing(k)
    BY <1>10 DEF DiscardEnds, InRing
  <2> QED
    BY <2>1, <1>0, <1>10 DEF DiscardEnds, Progress
<1>11. CASE DiscardFails
  <2>1. \A k : InRing(k)' <=> InRing(k)
    BY <1>11 DEF DiscardFails, InRing
  <2> QED
    BY <2>1, <1>0, <1>11 DEF DiscardFails, Progress
<1>12. CASE NoFrame
  <2>1. \A k : InRing(k)' <=> InRing(k)
    BY <1>12 DEF NoFrame, InRing
  <2> QED
    BY <2>1, <1>0, <1>12 DEF NoFrame, Progress
<1>13. CASE Read
  <2>1. \A k : InRing(k)' <=> InRing(k)
    BY <1>13 DEF Read, InRing
  <2> QED
    BY <2>1, <1>0, <1>13 DEF Read, Progress, Emptied
<1>14. CASE Requeue
  <2>1. \A k : InRing(k)' <=> InRing(k)
    BY <1>14 DEF Requeue, InRing
  <2> QED
    BY <2>1, <1>0, <1>14 DEF Requeue, Progress
<1>15. CASE RequeueFails
  <2>1. \A k : InRing(k)' <=> InRing(k)
    BY <1>15 DEF RequeueFails, InRing
  <2> QED
    BY <2>1, <1>0, <1>15 DEF RequeueFails, Progress
<1>16. CASE FrameDropped
  BY <1>16 DEF FrameDropped
<1>17. ASSUME NEW b \in Buffers, FrameStarts(b) PROVE Gapless'
  <2>1. ASSUME NEW k \in Int, InRing(k)
        PROVE  InRing(k)'
    BY <2>1, <1>17 DEF FrameStarts, InRing
  <2>2. ASSUME NEW k \in Int, k = frame
        PROVE  InRing(k)'
    BY <2>2, <1>17 DEF FrameStarts, InRing
  <2>3. ASSUME NEW c \in Buffers, Live(c)', num'[c] > stale, ~dropped
        PROVE  \A k \in num'[c]..frame : InRing(k)'
    BY <2>1, <2>2, <2>3, <1>17 DEF FrameStarts
  <2>4. at \in Buffers => num'[at] = num[at]
    BY <1>17 DEF FrameStarts
  <2> QED
    BY <2>1, <2>2, <2>3, <2>4, <1>0, <1>17 DEF FrameStarts, Progress
<1>18. ASSUME NEW b \in Buffers, FrameEnds(b) PROVE Gapless'
  <2>1. \A k : InRing(k)' <=> InRing(k)
    BY <1>18 DEF FrameEnds, InRing
  <2> QED
    BY <2>1, <1>0, <1>18 DEF FrameEnds, Progress
<1>90. CASE UNCHANGED vars
  <2>1. \A k : InRing(k)' <=> InRing(k)
    BY <1>90 DEF vars, InRing
  <2> QED
    BY <2>1, <1>90 DEF vars
<1> QED
  BY <1>1, <1>2, <1>3, <1>4, <1>5, <1>6, <1>7, <1>8, <1>9, <1>10, <1>11, <1>12, <1>13, <1>14, <1>15, <1>16, <1>17, <1>18, <1>90 DEF Next, Program, Calls, Driver

(* The first frame of a pair is a fresh one. *)
LEMMA FreshStep == TypeOK /\ Shape /\ Progress /\ Emptied /\ Gapless /\ Fresh /\ [Next]_vars => Fresh'
<1> SUFFICES ASSUME TypeOK, Shape, Progress, Emptied, Gapless, Fresh, [Next]_vars PROVE Fresh'
  OBVIOUS
<1> USE RingAssumption
<1> USE DEF TypeOK, Shape, Progress, Emptied, Gapless, Fresh, NewPair, AfterFrame, ring, pair, history, Busy, Give, Has
<1>1. CASE StartStream
  BY <1>1 DEF StartStream
<1>2. CASE StartFails
  BY <1>2 DEF StartFails
<1>3. CASE BeginPair
  BY <1>3 DEF BeginPair
<1>4. CASE BeginCold
  BY <1>4 DEF BeginCold
<1>5. CASE Close
  BY <1>5 DEF Close
<1>6. ASSUME NEW b \in Buffers, Discard(b) PROVE Fresh'
  BY <1>6 DEF Discard
<1>7. ASSUME NEW b \in Buffers, Dequeue(b) PROVE Fresh'
  BY <1>7 DEF Dequeue
<1>8. CASE Return
  BY <1>8 DEF Return
<1>9. CASE ReturnFails
  BY <1>9 DEF ReturnFails
<1>10. CASE DiscardEnds
  BY <1>10 DEF DiscardEnds
<1>11. CASE DiscardFails
  BY <1>11 DEF DiscardFails
<1>12. CASE NoFrame
  BY <1>12 DEF NoFrame
<1>13. CASE Read
  BY <1>13 DEF Read
<1>14. CASE Requeue
  BY <1>14 DEF Requeue
<1>15. CASE RequeueFails
  BY <1>15 DEF RequeueFails
<1>16. CASE FrameDropped
  BY <1>16 DEF FrameDropped
<1>17. ASSUME NEW b \in Buffers, FrameStarts(b) PROVE Fresh'
  BY <1>17 DEF FrameStarts
<1>18. ASSUME NEW b \in Buffers, FrameEnds(b) PROVE Fresh'
  BY <1>18 DEF FrameEnds
<1>90. CASE UNCHANGED vars
  BY <1>90 DEF vars
<1> QED
  BY <1>1, <1>2, <1>3, <1>4, <1>5, <1>6, <1>7, <1>8, <1>9, <1>10, <1>11, <1>12, <1>13, <1>14, <1>15, <1>16, <1>17, <1>18, <1>90 DEF Next, Program, Calls, Driver

(* The second frame of a pair is the next. *)
LEMMA ConsecutiveStep == TypeOK /\ Shape /\ Progress /\ Emptied /\ Gapless /\ Consecutive /\ [Next]_vars => Consecutive'
<1> SUFFICES ASSUME TypeOK, Shape, Progress, Emptied, Gapless, Consecutive, [Next]_vars PROVE Consecutive'
  OBVIOUS
<1> USE RingAssumption
<1> USE DEF TypeOK, Shape, Progress, Emptied, Gapless, Consecutive, NewPair, AfterFrame, ring, pair, history, Busy, Give, Has
<1>1. CASE StartStream
  BY <1>1 DEF StartStream
<1>2. CASE StartFails
  BY <1>2 DEF StartFails
<1>3. CASE BeginPair
  BY <1>3 DEF BeginPair
<1>4. CASE BeginCold
  BY <1>4 DEF BeginCold
<1>5. CASE Close
  BY <1>5 DEF Close
<1>6. ASSUME NEW b \in Buffers, Discard(b) PROVE Consecutive'
  BY <1>6 DEF Discard
<1>7. ASSUME NEW b \in Buffers, Dequeue(b) PROVE Consecutive'
  BY <1>7 DEF Dequeue
<1>8. CASE Return
  BY <1>8 DEF Return
<1>9. CASE ReturnFails
  BY <1>9 DEF ReturnFails
<1>10. CASE DiscardEnds
  BY <1>10 DEF DiscardEnds
<1>11. CASE DiscardFails
  BY <1>11 DEF DiscardFails
<1>12. CASE NoFrame
  BY <1>12 DEF NoFrame
<1>13. CASE Read
  BY <1>13 DEF Read
<1>14. CASE Requeue
  BY <1>14 DEF Requeue
<1>15. CASE RequeueFails
  BY <1>15 DEF RequeueFails
<1>16. CASE FrameDropped
  BY <1>16 DEF FrameDropped
<1>17. ASSUME NEW b \in Buffers, FrameStarts(b) PROVE Consecutive'
  BY <1>17 DEF FrameStarts
<1>18. ASSUME NEW b \in Buffers, FrameEnds(b) PROVE Consecutive'
  BY <1>18 DEF FrameEnds
<1>90. CASE UNCHANGED vars
  BY <1>90 DEF vars
<1> QED
  BY <1>1, <1>2, <1>3, <1>4, <1>5, <1>6, <1>7, <1>8, <1>9, <1>10, <1>11, <1>12, <1>13, <1>14, <1>15, <1>16, <1>17, <1>18, <1>90 DEF Next, Program, Calls, Driver

(* Nothing is queued and no pair is under way at first. *)
LEMMA InitInv == Init => IInv
<1> SUFFICES ASSUME Init PROVE IInv
  OBVIOUS
<1> USE RingAssumption, BufferCount DEF Init, Busy
<1>1. TypeOK
  <2>1. left \in 0..Cardinality(Buffers)
    OBVIOUS
  <2>2. owner \in [Buffers -> {"program", "queued", "filling", "done"}]
        /\ num \in [Buffers -> Nat]
    OBVIOUS
  <2>3. at \in Buffers \cup {NoBuffer} /\ lost \subseteq Buffers
        /\ first \in Nat /\ second \in Nat /\ stale \in Nat
    OBVIOUS
  <2>4. streaming \in BOOLEAN /\ dropped \in BOOLEAN /\ cutShort \in BOOLEAN
    OBVIOUS
  <2>5. pc \in {"idle", "closed"} \cup Busy /\ frame \in Nat \ {0}
    OBVIOUS
  <2> QED
    BY <2>1, <2>2, <2>3, <2>4, <2>5 DEF TypeOK
<1>2. Shape /\ Order /\ Progress
  BY DEF Shape, Order, Progress, Live
<1>3. Emptied /\ Gapless
  BY DEF Emptied, Gapless, Live
<1>4. Fresh /\ Consecutive
  BY DEF Fresh, Consecutive
<1> QED
  BY <1>1, <1>2, <1>3, <1>4 DEF IInv

LEMMA NextInv == IInv /\ [Next]_vars => IInv'
  BY TypeStep, ShapeStep, OrderStep, ProgressStep, EmptiedStep, GaplessStep,
     FreshStep, ConsecutiveStep DEF IInv

LEMMA Invariance == Spec => []IInv
  BY InitInv, NextInv, PTL DEF Spec

-----------------------------------------------------------------------------
(* The theorems. *)

(* Every variable keeps its type, whatever the driver refuses.
   capture.rs:296-319: discard_queued never runs out of rounds below zero. *)
THEOREM TypeCorrect == Spec => []TypeOK
<1>1. IInv => TypeOK
  BY DEF IInv
<1> QED
  BY <1>1, Invariance, PTL

(* A frame is only ever read out of a buffer the program has dequeued and
   not yet handed back (capture.rs:337-378). *)
THEOREM OwnBuffer == Spec => []ReadsOwnBuffer
<1>1. IInv => ReadsOwnBuffer
  BY DEF IInv, Shape, TypeOK, ReadsOwnBuffer
<1> QED
  BY <1>1, Invariance, PTL

(* Between two captures every buffer is with the driver, save those it
   refused to take back (capture.rs:377-378). *)
THEOREM RingFull == Spec => []RingStaysFull
<1>1. IInv => RingStaysFull
  BY DEF IInv, Shape, TypeOK, RingStaysFull, Busy
<1> QED
  BY <1>1, Invariance, PTL

(* Unless discard_queued breaks off, no frame of a pair was finished before
   the pair was asked for (capture.rs:292-319). *)
THEOREM FreshPair == Spec => []Fresh
<1>1. IInv => Fresh
  BY DEF IInv
<1> QED
  BY <1>1, Invariance, PTL

(* Unless it breaks off, or the sensor finds no buffer, the frames of a pair
   are consecutive: under a strobing illuminator one of them is lit
   (capture.rs:404-422). *)
THEOREM ConsecutivePair == Spec => []Consecutive
<1>1. IInv => Consecutive
  BY DEF IInv
<1> QED
  BY <1>1, Invariance, PTL

=============================================================================
