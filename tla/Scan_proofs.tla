----------------------------- MODULE Scan_proofs -----------------------------
(***************************************************************************)
(* Theorems about Scan, for every window, grace period, interval, cap and  *)
(* timing.                                                                 *)
(***************************************************************************)
EXTENDS Scan, WellFoundedInduction, SequenceTheorems, TLAPS

(* Every set of naturals that has an element has a least one. *)
LEMMA MinNat ==
  ASSUME NEW T \in SUBSET Nat, T # {}
  PROVE  Min(T) \in T
<1>1. IsWellFoundedOn(OpToRel(<, Nat), Nat)
  BY NatLessThanWellFounded
<1>2. \E x \in T : \A y \in T : ~ (<<y, x>> \in OpToRel(<, Nat))
  BY <1>1, WFMin
<1>3. \E x \in T : \A y \in T : ~ (y < x)
  BY <1>2 DEF OpToRel
<1>4. \E x \in T : \A y \in T : x <= y
  BY <1>3
<1> QED
  BY <1>4 DEF Min

(* What holds between the steps.  A scan still in its loop has errors to    *)
(* spare, its lockout calls follow from what it has counted and returned,   *)
(* and it judges only a second face frame; a kept frame is from the past,   *)
(* and evidence is what set motionSeen.                                     *)
Shape ==
  /\ result = "none" <=> pc # "done"
  /\ pc # "done" => errors < MaxErrors
  /\ calls = IF ~counted THEN << >>
             ELSE IF result = "match" THEN <<"count", "clear">> ELSE <<"count">>
  /\ pc \in {"face", "encode"} \/ faces # << >> => counted
  /\ pc = "encode" \/ result = "match" => Len(faces) >= 2
  /\ motionSeen => LivenessOff \/ evidence.seen
  /\ result = "match" => motionSeen
  /\ \A i \in 1..Len(faces) : faces[i] <= now

(* What one iteration may have overrun the deadline by, at each place. *)
Overshoot ==
  IF pc = "captured" THEN MaxCapture
  ELSE IF pc = "due" THEN MaxCapture + MaxUpdate + MaxLag
  ELSE IF pc = "done" THEN Overrun ELSE MaxCapture + MaxUpdate

(* A match still without motion after the first look, with the window over *)
(* at the second: either it has its grace or the window closed in between.  *)
Looked == pc = "due" /\ now >= deadline /\ pending /\ Grace # 0 => extended \/ slipped

Timing ==
  /\ now <= deadline + Overshoot
  /\ deadline = Duration + (IF extended THEN Grace ELSE 0)
  /\ extended => pending

IInv ==
  /\ TypeOK
  /\ Shape
  /\ Timing
  /\ Looked
  /\ GraceIsGiven
  /\ EvidenceIsRecent
  /\ FramesBounded

(* What is left of a sequence when its front is dropped. *)
LEMMA SuffixType ==
  ASSUME NEW s \in Seq(Nat), NEW f \in 1..Len(s)
  PROVE  LET k == SubSeq(s, f, Len(s)) IN
         /\ k \in Seq(Nat)
         /\ Len(k) = Len(s) - f + 1
         /\ k # << >>
         /\ Head(k) = s[f]
         /\ \A i \in 1..Len(k) : k[i] = s[f + i - 1]
<1> DEFINE k == SubSeq(s, f, Len(s))
<1>1. Len(s) \in Nat /\ f \in Int /\ f <= Len(s)
  OBVIOUS
<1>2. \A i \in f..Len(s) : s[i] \in Nat
  OBVIOUS
<1>3. /\ k \in Seq(Nat)
      /\ Len(k) = IF f <= Len(s) THEN Len(s) - f + 1 ELSE 0
      /\ \A i \in 1..(Len(s) - f + 1) : k[i] = s[f + i - 1]
  BY <1>1, <1>2, SubSeqProperties
<1> HIDE DEF k
<1>4. Len(k) = Len(s) - f + 1
  BY <1>1, <1>3
<1>5. Head(k) = s[f]
  <2>1. f \in 1..Len(s) /\ Len(s) \in f..Len(s)
    OBVIOUS
  <2> QED
    BY <2>1, HeadTailOfSubSeq, Zenon DEF k
<1>6. k # << >>
  <2>1. Len(k) # 0
    BY <1>1, <1>4
  <2> QED
    BY <2>1, EmptySeq, Zenon
<1> QED
  BY <1>3, <1>4, <1>5, <1>6, Zenon DEF k

(* A second element makes a pair. *)
LEMMA AppendToOne ==
  ASSUME NEW S, NEW a \in S, NEW b \in S
  PROVE  Append(<<a>>, b) = <<a, b>>
<1> DEFINE x == <<a>>
<1>1. x \in Seq(S) /\ Len(x) = 1 /\ x[1] = a
  OBVIOUS
<1> HIDE DEF x
<1> DEFINE y == Append(x, b)
<1>2. y \in Seq(S)
  BY <1>1, AppendProperties
<1>3. Len(y) = Len(x) + 1
  BY <1>1, AppendProperties
<1>4. y[Len(x) + 1] = b
  BY <1>1, AppendProperties
<1>5. y[1] = a
  <2>1. 1 \in 1..Len(x)
    BY <1>1
  <2> QED
    BY <1>1, <2>1, SMTT(30)
<1> HIDE DEF y
<1>6. y \in Seq(S) /\ Len(y) = 2 /\ y[1] = a /\ y[2] = b
  BY <1>1, <1>2, <1>3, <1>4, <1>5
<1>7. y = <<a, b>>
  BY <1>6
<1> QED
  BY <1>7 DEF x, y

(* Dropping old face frames keeps the newest one, and of the others no more *)
(* than the cap and none from outside the window.                           *)
LEMMA KeptType ==
  ASSUME TypeOK, \A i \in 1..Len(faces) : faces[i] <= now
  PROVE  /\ Kept \in Seq(Nat)
         /\ Len(Kept) \in 0..MaxFrames
         /\ faces = << >> <=> Kept = << >>
         /\ \A i \in 1..Len(Kept) : Kept[i] <= now
         /\ Kept # << >> => /\ Len(Kept) # 0
                            /\ Head(Kept) \in Nat
                            /\ Head(Kept) <= now
                            /\ Len(Kept) = 1 \/ now - Head(Kept) <= Window
<1>1. CASE faces = << >>
  <2>1. Kept = << >>
    BY <1>1 DEF Kept
  <2>2. Kept \in Seq(Nat) /\ Len(Kept) = 0
    BY <2>1
  <2> QED
    BY <1>1, <2>1, <2>2, ScanAssumption
<1>2. CASE faces # << >>
  <2> DEFINE T == {i \in 1..Len(faces) : ~Drops(Len(faces) - i + 1, now - faces[i])}
             n == Len(faces)
  <2>1. faces \in Seq(Nat) /\ n \in Nat \ {0} /\ \A i \in 1..n : faces[i] \in Nat
    BY <1>2 DEF TypeOK
  <2>2. n \in T
    BY <2>1 DEF Drops
  <2>3. T \in SUBSET Nat
    BY <2>1
  <2>4. PICK f \in T : f = FirstKept
    BY <2>2, <2>3, MinNat DEF FirstKept
  <2>5. f \in 1..n /\ ~Drops(n - f + 1, now - faces[f])
    BY <2>4
  <2>6. Kept = SubSeq(faces, f, n)
    BY <1>2, <2>4 DEF Kept
  <2>7. /\ Kept \in Seq(Nat)
        /\ Len(Kept) = n - f + 1
        /\ Kept # << >>
        /\ Head(Kept) = faces[f]
        /\ \A i \in 1..Len(Kept) : Kept[i] = faces[f + i - 1]
    <3>1. faces \in Seq(Nat) /\ f \in 1..Len(faces)
      BY <2>1, <2>5
    <3>2. Kept = SubSeq(faces, f, Len(faces))
      BY <2>6
    <3> QED
      BY <3>1, <3>2, SuffixType, Zenon
  <2> HIDE DEF n, T
  <2>8. \A i \in 1..Len(Kept) : f + i - 1 \in 1..n
    BY <2>1, <2>5, <2>7
  <2>9. \A i \in 1..Len(Kept) : Kept[i] <= now
    BY <2>7, <2>8, Zenon DEF n
  <2>10. Len(Kept) \in 0..MaxFrames /\ (Len(Kept) = 1 \/ now - Head(Kept) <= Window)
    <3>1. n - f + 1 \in Nat \ {0} /\ now \in Nat /\ faces[f] \in Nat
      BY <2>1, <2>5 DEF TypeOK
    <3> QED
      BY <2>5, <2>7, <3>1, ScanAssumption DEF Drops
  <2>11. Head(Kept) \in Nat /\ Head(Kept) <= now
    BY <2>1, <2>5, <2>7, Zenon DEF n
  <2>12. Len(Kept) # 0
    BY <2>1, <2>5, <2>7
  <2> QED
    BY <1>2, <2>7, <2>9, <2>10, <2>11, <2>12, Zenon
<1> QED
  BY <1>1, <1>2

(* The nap goes forward, and never past both its own time and the deadline. *)
LEMMA NapType ==
  ASSUME TypeOK, NEW t \in Nat, NapUntil(t)
  PROVE  now' \in Nat /\ t <= now' /\ (now' <= t \/ now' <= deadline)
  BY ScanAssumption DEF NapUntil, TypeOK

(* Going on to the next frame keeps the invariant, whatever it does to the  *)
(* error count and however the match stands.                                *)
LEMMA NextFrameStep ==
  ASSUME IInv, NEW t \in Nat, pc \in {"due", "captured", "encode"},
         now <= t, t <= deadline + MaxCapture + MaxUpdate, NextFrame(t),
         errors' \in 0..MaxErrors, errors' < MaxErrors,
         pending' \in BOOLEAN, pending => pending',
         UNCHANGED <<deadline, extended, counted, faces, motionSeen, calls, evidence, slipped>>
  PROVE  IInv'
<1>1. now' \in Nat /\ now <= now' /\ now' <= deadline + MaxCapture + MaxUpdate
  BY NapType, ScanAssumption, SMTT(30) DEF IInv, TypeOK, NextFrame
<1>2. pc' = "top" /\ result' = "none" /\ result = "none"
  BY DEF NextFrame, IInv, Shape
<1>3. TypeOK'
  BY <1>1, <1>2 DEF IInv, TypeOK, Verdicts
<1>4. (\A i \in 1..Len(faces) : faces[i] <= now)'
  <2>1. Len(faces) \in Nat /\ \A i \in 1..Len(faces) : faces[i] \in Nat
    BY DEF IInv, TypeOK
  <2> QED
    BY <1>1, <2>1, SMTT(30) DEF IInv, Shape, TypeOK
<1>5. Shape'
  <2>1. (result = "none" <=> pc # "done")' /\ (result # "match")' /\ (pc # "encode")'
    BY <1>2
  <2>2. (calls = IF ~counted THEN << >>
                 ELSE IF result = "match" THEN <<"count", "clear">> ELSE <<"count">>)'
    BY <1>2 DEF IInv, Shape
  <2>3. (faces # << >> => counted)' /\ (motionSeen => LivenessOff \/ evidence.seen)'
    BY DEF IInv, Shape
  <2> QED
    BY <1>2, <1>4, <2>1, <2>2, <2>3 DEF Shape
<1>6. Timing'
  <2>1. Overshoot' = MaxCapture + MaxUpdate
    BY <1>2 DEF Overshoot
  <2>2. now' <= deadline' + Overshoot'
    BY <1>1, <2>1, ScanAssumption DEF IInv, TypeOK
  <2>3. (deadline = Duration + (IF extended THEN Grace ELSE 0))' /\ (extended => pending)'
    BY Zenon DEF IInv, Timing
  <2> QED
    BY <2>2, <2>3 DEF Timing
<1>7. Looked' /\ GraceIsGiven' /\ EvidenceIsRecent' /\ FramesBounded'
  BY <1>2 DEF IInv, Looked, GraceIsGiven, EvidenceIsRecent, FramesBounded
<1> QED
  BY <1>3, <1>5, <1>6, <1>7 DEF IInv

(* So does a step that leaves the loop's memory alone and either goes on    *)
(* with this frame or returns without a match.                              *)
LEMMA PlainStep ==
  ASSUME IInv, pc # "done", now' \in Nat, now <= now',
         now' <= deadline' + Overshoot',
         \/ pc' \in {"captured", "face", "encode"} /\ result' = "none" /\ errors' < MaxErrors
         \/ pc' = "done" /\ result' \in {"nomatch", "declined", "error"},
         errors' \in 0..MaxErrors,
         pc' \in {"face", "encode"} => counted,
         pc' = "encode" => pc = "encode",
         result' = "nomatch" /\ pending /\ Grace # 0 => extended \/ slipped,
         UNCHANGED <<deadline, extended, counted, faces, motionSeen, pending, calls, evidence,
                     slipped>>
  PROVE  IInv'
<1>1. result = "none" /\ result' # "match"
  BY DEF IInv, Shape
<1>2. TypeOK'
  BY DEF IInv, TypeOK, Verdicts
<1>3. (\A i \in 1..Len(faces) : faces[i] <= now)'
  <2>1. Len(faces) \in Nat /\ \A i \in 1..Len(faces) : faces[i] \in Nat
    BY DEF IInv, TypeOK
  <2> QED
    BY <2>1, SMTT(30) DEF IInv, Shape, TypeOK
<1>4. Shape'
  BY <1>1, <1>3 DEF IInv, Shape
<1>5. Timing'
  BY DEF IInv, Timing
<1>6. Looked' /\ GraceIsGiven' /\ EvidenceIsRecent' /\ FramesBounded'
  BY DEF IInv, Looked, GraceIsGiven, EvidenceIsRecent, FramesBounded
<1> QED
  BY <1>2, <1>4, <1>5, <1>6 DEF IInv

(* What a later time may be, when the time before it and the deadline grow. *)
LEMMA BoundGrows ==
  ASSUME NEW t \in Nat, NEW later \in Nat, NEW d \in Nat, NEW e \in Nat,
         NEW over \in Nat, NEW lag \in Nat, t <= d + over, later <= t + lag, d <= e
  PROVE  later <= e + (over + lag)
  OBVIOUS

(* Every step keeps the invariant. *)
LEMMA InvStep == IInv /\ [Next]_vars => IInv'
<1> SUFFICES ASSUME IInv, [Next]_vars PROVE IInv'
  OBVIOUS
<1>0. /\ CaptureTimes \subseteq 1..MaxCapture /\ MaxCapture \in Nat
      /\ UpdateTimes \subseteq 0..MaxUpdate /\ MaxUpdate \in Nat
      /\ LagTimes \subseteq 0..MaxLag /\ MaxLag \in Nat
      /\ Duration \in Nat /\ Grace \in Nat /\ MaxErrors \in Nat
      /\ now \in Nat /\ deadline \in Nat /\ errors \in 0..MaxErrors
      /\ now <= deadline + Overshoot
      /\ pc # "done" => errors < MaxErrors
  <2>1. now \in Nat /\ deadline \in Nat /\ errors \in 0..MaxErrors
    BY DEF IInv, TypeOK
  <2>2. now <= deadline + Overshoot /\ (pc # "done" => errors < MaxErrors)
    BY DEF IInv, Timing, Shape
  <2> QED
    BY <2>1, <2>2, ScanAssumption
<1>1. ASSUME NEW lag \in LagTimes, Extend(lag) \/ Look(lag) PROVE IInv'
  <2>1. lag \in 0..MaxLag /\ MaxLag \in Nat
    BY <1>0
  <2>2. /\ pc = "top" /\ pc' = "due" /\ now' \in Nat /\ now <= now' /\ now' <= now + MaxLag
        /\ UNCHANGED <<errors, counted, faces, motionSeen, pending, result, calls, evidence>>
    BY <1>0, <1>1, <2>1 DEF Extend, Look
  <2>3. deadline' \in Nat /\ deadline <= deadline' /\ extended' \in BOOLEAN /\ slipped' \in BOOLEAN
    <3>1. extended \in BOOLEAN /\ slipped \in BOOLEAN
      BY DEF IInv, TypeOK
    <3>2. CASE Extend(lag)
      BY <1>0, <3>1, <3>2 DEF Extend
    <3>3. CASE Look(lag)
      BY <1>0, <3>1, <3>3 DEF Look
    <3> QED
      BY <1>1, <3>2, <3>3
  <2>4. now' <= deadline' + Overshoot'
    <3> DEFINE over == MaxCapture + MaxUpdate
    <3>1. Overshoot = over /\ Overshoot' = over + MaxLag /\ over \in Nat
      BY <1>0, <2>2 DEF Overshoot
    <3> HIDE DEF over
    <3>2. /\ now <= deadline + over /\ now' <= now + MaxLag /\ deadline <= deadline'
          /\ now \in Nat /\ now' \in Nat /\ deadline \in Nat /\ deadline' \in Nat
          /\ MaxLag \in Nat /\ over \in Nat
      BY <1>0, <2>2, <2>3, <3>1
    <3>3. now' <= deadline' + (over + MaxLag)
      BY <3>2, BoundGrows, Zenon
    <3> QED
      BY <3>1, <3>3
  <2>5. TypeOK'
    BY <2>2, <2>3 DEF IInv, TypeOK
  <2>6. (\A i \in 1..Len(faces) : faces[i] <= now)'
    <3>1. Len(faces) \in Nat /\ \A i \in 1..Len(faces) : faces[i] \in Nat
      BY DEF IInv, TypeOK
    <3> QED
      BY <1>0, <2>2, <3>1 DEF IInv, Shape
  <2>7. Shape'
    BY <2>2, <2>6 DEF IInv, Shape
  <2>8. Timing'
    BY <1>0, <1>1, <2>4 DEF Extend, Look, IInv, Timing, GraceExtends
  <2>9. Looked'
    <3>1. CASE Extend(lag)
      BY <3>1 DEF Extend, Looked
    <3>2. CASE Look(lag)
      <4>1. /\ now >= deadline /\ pending /\ Grace # 0 => extended
            /\ now < deadline /\ now' >= deadline => slipped'
            /\ extended' = extended /\ pending' = pending /\ deadline' = deadline
        BY <3>2 DEF Look, GraceExtends
      <4>2. now >= deadline \/ now < deadline
        BY <1>0
      <4>3. now' >= deadline' /\ pending' /\ Grace # 0 => extended' \/ slipped'
        BY <4>1, <4>2
      <4> QED
        BY <4>3 DEF Looked
    <3> QED
      BY <1>1, <3>1, <3>2
  <2>10. GraceIsGiven' /\ EvidenceIsRecent' /\ FramesBounded'
    BY <2>2 DEF IInv, Shape, GraceIsGiven, EvidenceIsRecent, FramesBounded
  <2> QED
    BY <2>5, <2>7, <2>8, <2>9, <2>10 DEF IInv
<1>2. CASE Expire
  BY <1>0, <1>2, PlainStep DEF Expire, Returns, Looked, Overshoot, Overrun, IInv
<1>3. ASSUME NEW took \in CaptureTimes, Capture(took) PROVE IInv'
  <2>1. took \in 1..MaxCapture
    BY <1>0
  <2>2. now' \in Nat /\ now <= now' /\ now' <= deadline' + Overshoot'
    BY <1>0, <1>3, <2>1 DEF Capture, Overshoot
  <2>3. result = "none" /\ 0 < MaxErrors
    BY <1>3, ScanAssumption DEF Capture, IInv, Shape
  <2> QED
    BY <1>0, <1>3, <2>2, <2>3, PlainStep DEF Capture
<1>4. ASSUME NEW took \in CaptureTimes, CaptureFails(took) PROVE IInv'
  <2>1. took \in 1..MaxCapture
    BY <1>0
  <2>2. /\ now + took \in Nat /\ now <= now + took
        /\ now + took <= deadline + MaxCapture + MaxUpdate
        /\ now + took <= deadline + Overrun
        /\ errors' \in 0..MaxErrors /\ pc = "due"
    <3>1. /\ pc = "due" /\ now < deadline /\ errors' = errors + 1 /\ errors < MaxErrors
      BY <1>0, <1>4 DEF CaptureFails
    <3>2. errors' \in 0..MaxErrors
      BY <1>0, <3>1, ScanAssumption
    <3> QED
      BY <1>0, <2>1, <3>1, <3>2 DEF Overrun
  <2>3. CASE errors + 1 >= MaxErrors
    BY <1>0, <1>4, <2>2, <2>3, PlainStep DEF CaptureFails, Returns, Overshoot
  <2>4. CASE ~(errors + 1 >= MaxErrors)
    <3>1. NextFrame(now + took) /\ errors' < MaxErrors /\ pending \in BOOLEAN
      BY <1>0, <1>4, <2>2, <2>4 DEF CaptureFails, IInv, TypeOK
    <3> QED
      BY <1>4, <2>2, <3>1, NextFrameStep DEF CaptureFails
  <2> QED
    BY <2>3, <2>4
<1>5. CASE RejectFrame \/ NoMatchHere \/ MatchPending
  <2>1. now <= deadline + MaxCapture + MaxUpdate /\ pending \in BOOLEAN
    BY <1>0, <1>5 DEF RejectFrame, NoMatchHere, MatchPending, Overshoot, IInv, TypeOK
  <2>2. CASE RejectFrame
    BY <1>0, <2>1, <2>2, NextFrameStep DEF RejectFrame
  <2>3. CASE NoMatchHere
    BY <1>0, <2>1, <2>3, NextFrameStep DEF NoMatchHere
  <2>4. CASE MatchPending
    BY <1>0, <2>1, <2>4, NextFrameStep DEF MatchPending
  <2> QED
    BY <1>5, <2>2, <2>3, <2>4
<1>6. ASSUME NEW took \in UpdateTimes, CountAttempt(took) PROVE IInv'
  <2>1. took \in 0..MaxUpdate
    BY <1>0
  <2>2. now' \in Nat /\ now <= now' /\ now' <= deadline' + Overshoot'
    BY <1>0, <1>6, <2>1 DEF CountAttempt, Returns, Overshoot, Overrun
  <2>3. calls = << >> /\ faces = << >> /\ result = "none" /\ result' \in {"none", "declined"}
    BY <1>6 DEF CountAttempt, Returns, IInv, Shape
  <2>4. calls' = <<"count">> /\ (pc \in {"face", "done"})'
    BY <1>6, <2>3 DEF CountAttempt, Returns
  <2>5. TypeOK'
    BY <1>6, <2>2, <2>3, <2>4 DEF CountAttempt, IInv, TypeOK, Verdicts
  <2>6. Shape'
    BY <1>0, <1>6, <2>2, <2>3, <2>4, EmptySeq DEF CountAttempt, Returns, IInv, Shape, TypeOK
  <2>7. Timing'
    BY <1>6, <2>2 DEF CountAttempt, IInv, Timing
  <2>8. Looked' /\ GraceIsGiven' /\ EvidenceIsRecent' /\ FramesBounded'
    BY <1>6, <2>3, <2>4 DEF CountAttempt, IInv, Looked, GraceIsGiven, EvidenceIsRecent, FramesBounded
  <2> QED
    BY <2>5, <2>6, <2>7, <2>8 DEF IInv
<1>7. ASSUME NEW took \in UpdateTimes, Match(took) PROVE IInv'
  <2>1. took \in 0..MaxUpdate
    BY <1>0
  <2>2. now' \in Nat /\ now <= now' /\ now' <= deadline' + Overshoot'
    BY <1>0, <1>7, <2>1 DEF Match, Returns, Overshoot, Overrun
  <2>3. calls = <<"count">> /\ counted /\ Len(faces) >= 2
    BY <1>7 DEF Match, IInv, Shape
  <2>4. calls' = <<"count", "clear">>
    <3>1. "count" \in {"count", "clear"} /\ "clear" \in {"count", "clear"}
      OBVIOUS
    <3>2. calls' = Append(<<"count">>, "clear")
      BY <1>7, <2>3 DEF Match
    <3> QED
      BY <3>1, <3>2, AppendToOne, Zenon
  <2>5. TypeOK'
    BY <1>7, <2>2, <2>4 DEF Match, Returns, IInv, TypeOK, Verdicts
  <2>6. (\A i \in 1..Len(faces) : faces[i] <= now)'
    <3>1. Len(faces) \in Nat /\ \A i \in 1..Len(faces) : faces[i] \in Nat
      BY DEF IInv, TypeOK
    <3> QED
      BY <1>7, <2>2, <3>1 DEF Match, IInv, Shape, TypeOK
  <2>7. Shape'
    BY <1>7, <2>3, <2>4, <2>6 DEF Match, Returns, IInv, Shape
  <2>8. Timing'
    BY <1>7, <2>2 DEF Match, IInv, Timing
  <2>9. Looked' /\ GraceIsGiven' /\ EvidenceIsRecent' /\ FramesBounded'
    BY <1>7 DEF Match, Returns, IInv, Looked, GraceIsGiven, EvidenceIsRecent, FramesBounded
  <2> QED
    BY <2>5, <2>7, <2>8, <2>9 DEF IInv
<1>8. CASE FaceAgain
  BY <1>0, <1>8, PlainStep DEF FaceAgain, Overshoot, IInv, Shape
<1>9. CASE Abort
  BY <1>0, <1>9, PlainStep DEF Abort, Returns, Overshoot, Overrun
<1>10. /\ Kept \in Seq(Nat)
       /\ Len(Kept) \in 0..MaxFrames
       /\ \A i \in 1..Len(Kept) : Kept[i] <= now /\ Kept[i] \in Nat
       /\ Kept # << >> => /\ Len(Kept) # 0
                          /\ Head(Kept) \in Nat
                          /\ Head(Kept) <= now
                          /\ Len(Kept) = 1 \/ now - Head(Kept) <= Window
  BY KeptType DEF IInv, Shape
<1>11. ASSUME pc = "face", faces' = Append(Kept, now)
       PROVE  /\ faces' \in Seq(Nat) /\ faces' # << >>
              /\ Len(faces') = Len(Kept) + 1
              /\ \A i \in 1..Len(faces') : faces'[i] <= now
  <2>1. /\ faces' \in Seq(Nat) /\ faces' # << >>
        /\ Len(faces') = Len(Kept) + 1
        /\ \A i \in 1..Len(Kept) : faces'[i] = Kept[i]
        /\ faces'[Len(Kept) + 1] = now
    BY <1>0, <1>10, <1>11, AppendProperties
  <2>2. ASSUME NEW i \in 1..Len(faces') PROVE faces'[i] <= now
    <3>1. i \in 1..Len(Kept) \/ i = Len(Kept) + 1
      BY <1>10, <2>1
    <3> QED
      BY <1>0, <1>10, <2>1, <3>1
  <2> QED
    BY <2>1, <2>2
<1>12. CASE Baseline
  <2>1. pc = "face" /\ faces' = Append(Kept, now) /\ counted /\ result = "none"
    BY <1>12 DEF Baseline, IInv, Shape
  <2>2. now' \in Nat /\ now <= now' /\ now' <= deadline + MaxCapture + MaxUpdate
    BY <1>0, <1>12, NapType DEF Baseline, NextFrame, Overshoot, IInv
  <2>3. pc' = "top" /\ result' = "none"
    BY <1>12, <2>1 DEF Baseline, NextFrame
  <2>4. TypeOK'
    BY <1>11, <1>12, <2>1, <2>2, <2>3 DEF Baseline, IInv, TypeOK, Verdicts
  <2>5. (\A i \in 1..Len(faces) : faces[i] <= now)'
    <3>1. Len(faces') \in Nat /\ \A i \in 1..Len(faces') : faces'[i] \in Nat
      BY <1>11, <2>1
    <3> QED
      BY <1>0, <1>11, <2>1, <2>2, <3>1
  <2>6. Shape'
    BY <1>0, <1>12, <2>1, <2>3, <2>5 DEF Baseline, IInv, Shape
  <2>7. Timing'
    <3>1. Overshoot' = MaxCapture + MaxUpdate
      BY <2>3 DEF Overshoot
    <3>2. now' <= deadline' + Overshoot'
      BY <1>0, <1>12, <2>2, <3>1 DEF Baseline
    <3>3. (deadline = Duration + (IF extended THEN Grace ELSE 0))' /\ (extended => pending)'
      BY <1>12, Zenon DEF Baseline, IInv, Timing
    <3> QED
      BY <3>2, <3>3 DEF Timing
  <2>8. FramesBounded'
    BY <1>10, <1>11, <2>1, ScanAssumption DEF FramesBounded
  <2>9. Looked' /\ GraceIsGiven' /\ EvidenceIsRecent'
    BY <1>12, <2>3 DEF Baseline, IInv, Looked, GraceIsGiven, EvidenceIsRecent
  <2> QED
    BY <2>4, <2>6, <2>7, <2>8, <2>9 DEF IInv
<1>13. ASSUME NEW passes \in BOOLEAN, Compare(passes) PROVE IInv'
  <2>1. /\ pc = "face" /\ faces' = Append(Kept, now) /\ counted /\ result = "none"
        /\ pc' = "encode" /\ now' = now /\ Kept # << >>
    BY <1>13 DEF Compare, IInv, Shape
  <2>2. /\ Len(Kept) \in Nat \ {0} /\ Head(Kept) \in Nat
        /\ now - Head(Kept) \in Nat
        /\ Len(Kept) = 1 \/ now - Head(Kept) <= Window
    BY <1>0, <1>10, <2>1
  <2>3. evidence' \in [seen : BOOLEAN, age : Nat, kept : Nat]
    BY <1>13, <2>2 DEF Compare, IInv, TypeOK
  <2>4. EvidenceIsRecent'
    BY <1>13, <2>2 DEF Compare, IInv, EvidenceIsRecent
  <2>5. (motionSeen => LivenessOff \/ evidence.seen)'
    BY <1>13 DEF Compare, IInv, Shape
  <2>6. TypeOK'
    BY <1>11, <1>13, <2>1, <2>3 DEF Compare, IInv, TypeOK
  <2>7. Len(faces') >= 2
    BY <1>11, <2>1, <2>2
  <2>8. Shape'
    BY <1>0, <1>11, <1>13, <2>1, <2>5, <2>7 DEF Compare, IInv, Shape
  <2>9. Timing'
    BY <1>13, <2>1 DEF Compare, IInv, Timing, Overshoot
  <2>10. FramesBounded' /\ Looked' /\ GraceIsGiven'
    BY <1>10, <1>11, <1>13, <2>1, ScanAssumption DEF Compare, FramesBounded, Looked, GraceIsGiven
  <2> QED
    BY <2>4, <2>6, <2>8, <2>9, <2>10 DEF IInv
<1>14. CASE Returned \/ UNCHANGED vars
  <2>1. UNCHANGED vars
    BY <1>14 DEF Returned
  <2>2. TypeOK' /\ Shape'
    BY <2>1 DEF vars, IInv, TypeOK, Shape
  <2>3. Timing'
    BY <2>1 DEF vars, IInv, Timing, Overshoot
  <2>4. Looked' /\ GraceIsGiven' /\ EvidenceIsRecent' /\ FramesBounded'
    BY <2>1 DEF vars, IInv, Looked, GraceIsGiven, EvidenceIsRecent, FramesBounded
  <2> QED
    BY <2>2, <2>3, <2>4 DEF IInv
<1> QED
  BY <1>1, <1>2, <1>3, <1>4, <1>5, <1>6, <1>7, <1>8, <1>9, <1>12, <1>13, <1>14
     DEF Next, Step

LEMMA InvInit == Init => IInv
<1> SUFFICES ASSUME Init PROVE IInv
  OBVIOUS
<1>1. faces = << >> /\ faces \in Seq(Nat) /\ calls \in Seq({"count", "clear"}) /\ Len(faces) = 0
  BY EmptySeq DEF Init
<1>2. errors \in 0..MaxErrors /\ errors < MaxErrors
  BY ScanAssumption DEF Init
<1>3. evidence \in [seen : BOOLEAN, age : Nat, kept : Nat] /\ ~evidence.seen
  BY DEF Init, NoEvidence
<1>4. TypeOK
  BY <1>1, <1>2, <1>3, ScanAssumption DEF Init, TypeOK, Verdicts
<1>5. Shape
  BY <1>1, <1>2, ScanAssumption DEF Init, Shape
<1>6. Timing
  BY ScanAssumption DEF Init, Timing, Overshoot
<1>7. Looked /\ GraceIsGiven /\ EvidenceIsRecent /\ FramesBounded
  BY <1>1, <1>3, ScanAssumption DEF Init, Looked, GraceIsGiven, EvidenceIsRecent, FramesBounded
<1> QED
  BY <1>4, <1>5, <1>6, <1>7 DEF IInv

-----------------------------------------------------------------------------
(* The scan's invariant holds whatever its durations, caps and timings. *)
LEMMA Invariance == Spec => []IInv
<1>1. Init => IInv
  BY InvInit
<1>2. IInv /\ [Next]_vars => IInv'
  BY InvStep
<1> QED
  BY <1>1, <1>2, PTL DEF Spec

(* Type correctness: the error count stays within its limit, and the age of *)
(* the evidence is never negative.                                          *)
THEOREM TypeCorrect == Spec => []TypeOK
<1>1. IInv => TypeOK
  BY DEF IInv
<1> QED
  BY <1>1, Invariance, PTL

(* A match takes two face frames, a counted attempt and motion, and the     *)
(* lockout is touched once for the scan's first face and once for its match.*)
THEOREM MatchIsEarned == Spec => []MatchEarned
<1>1. IInv => MatchEarned
  <2> SUFFICES ASSUME IInv PROVE MatchEarned
    OBVIOUS
  <2>1. <<"count">> # <<"count", "clear">> /\ << >> # <<"count", "clear">> /\ <<"count">> # << >>
    OBVIOUS
  <2>2. result = "match" => counted
    <3>1. result = "match" => faces # << >>
      BY EmptySeq DEF IInv, Shape
    <3> QED
      BY <3>1 DEF IInv, Shape
  <2> QED
    BY <2>1, <2>2 DEF IInv, Shape, MatchEarned
<1> QED
  BY <1>1, Invariance, PTL

(* A scan holds the password prompt up for its window, at most one grace    *)
(* period, and what its last iteration overruns.                            *)
THEOREM TimeIsBounded == Spec => []TimeBound
<1>1. IInv => TimeBound
  <2> SUFFICES ASSUME IInv PROVE TimeBound
    OBVIOUS
  <2>1. Overshoot <= Overrun
    BY ScanAssumption DEF Overshoot, Overrun
  <2>2. now <= deadline + Overshoot /\ now \in Nat /\ deadline \in Nat
    BY DEF IInv, TypeOK, Timing
  <2>3. Overshoot \in Nat /\ Overrun \in Nat
    BY ScanAssumption DEF Overshoot, Overrun
  <2>4. now <= deadline + Overrun
    BY <2>1, <2>2, <2>3
  <2> QED
    BY <2>4 DEF IInv, Timing, TimeBound
<1> QED
  BY <1>1, Invariance, PTL

(* A face that matched is refused without its grace period only when the    *)
(* window closes between the two looks at the clock.                        *)
THEOREM GraceAlwaysGiven == Spec => []GraceIsGiven
<1>1. IInv => GraceIsGiven
  BY DEF IInv
<1> QED
  BY <1>1, Invariance, PTL

(* The kept frames are the cap's and one more, and motion is seen within    *)
(* the window or against the only frame kept.                               *)
THEOREM FramesAreRecent == Spec => [](FramesBounded /\ EvidenceIsRecent)
<1>1. IInv => FramesBounded /\ EvidenceIsRecent
  BY DEF IInv
<1> QED
  BY <1>1, Invariance, PTL
=============================================================================
