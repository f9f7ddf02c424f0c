----------------------------- MODULE Guided_proofs -----------------------------
(***************************************************************************)
(* What holds of guided enrolment for any set of poses, any timing and any *)
(* number of lines typed.                                                  *)
(***************************************************************************)
EXTENDS Guided, TLAPS

\* Wanted, by the step's place.
WantedAt(i) == IF i \in {4, 5} THEN 1 ELSE 2

(* The step under way, by its name and by its place. *)
LEMMA StepNames ==
  ASSUME index \in 1..6
  PROVE  /\ step \in StepIds
         /\ (step = "straight") <=> (index = 1)
         /\ (step = "side") <=> (index = 2)
         /\ (step = "other-side") <=> (index = 3)
         /\ (step = "up") <=> (index = 4)
         /\ (step = "down") <=> (index = 5)
         /\ (step = "glasses") <=> (index = 6)
         /\ Wanted(step) = WantedAt(index)
  <1>1. index = 1 \/ index = 2 \/ index = 3 \/ index = 4 \/ index = 5 \/ index = 6
    OBVIOUS
  <1> QED
    BY <1>1 DEF step, All, StepIds, Wanted, WantedAt

LEMMA SignIsSign == ASSUME NEW v PROVE Sign(v) \in {-1, 1}
  BY DEF Sign

(* A pose that fits a turn or a tilt goes the way that is wanted, if any is. *)
LEMMA FitsWay ==
  ASSUME NEW p, Fits(step, p)
  PROVE  /\ step = "side" /\ side # 0 => Sign(Turned(p)) = side
         /\ step = "other-side" /\ -side # 0 => Sign(Turned(p)) = -side
         /\ step = "up" /\ tilt # 0 => Sign(Tilted(p)) = tilt
         /\ step = "down" /\ -tilt # 0 => Sign(Tilted(p)) = -tilt
  BY DEF Fits, RightWay

-----------------------------------------------------------------------------
(* The invariant. *)

\* What a step keeps stays within what it wants; the straight-on templates are
\* those of the first step, and no other step begins without one.
Shape ==
  /\ pc = "frame" => thisStep < WantedAt(index)
  /\ thisStep <= WantedAt(index) \/ pc = "begin"
  /\ index = 1 => straight = thisStep
  /\ index > 1 => straight > 0
  /\ pc = "begin" /\ index = 1 => thisStep = 0

\* The most templates the steps before the i-th keep.
Before(i) == IF i <= 4 THEN 2 * (i - 1) ELSE i + 2
RoomInv ==
  /\ total >= straight
  /\ total <= Before(index) + (IF pc = "begin" THEN 0 ELSE thisStep)

\* Nothing is kept by a step to come, and what is kept went the recorded way.
WaysInv ==
  /\ straight = 0 => \A s \in StepIds : ways[s] = {}
  /\ index < 3 => ways["other-side"] = {}
  /\ index < 5 => ways["down"] = {}
  /\ ways["side"] \subseteq {side} /\ (side = 0 => ways["side"] = {})
  /\ ways["up"] \subseteq {tilt} /\ (tilt = 0 => ways["up"] = {})
  /\ side # 0 => ways["other-side"] \subseteq {-side}
  /\ tilt # 0 => ways["down"] \subseteq {-tilt}

\* Only a run past its last step is saved.
SavedLast == pc = "saved" => index = 6

\* What is held fitted the step under way, and was measured last.
HeldInv ==
  pc \in {"pause", "poll", "frame"} =>
    \A q \in Poses : held = q => last = q /\ Fits(step, q)

-----------------------------------------------------------------------------
(* The steps. *)

(* Time stays a number, and what is typed a sequence of lines. *)
LEMMA SpendsTime == TypeOK /\ Spends => elapsed' \in Nat
  BY GuidedAssumption DEF TypeOK, Spends

LEMMA TypesLine == TypeOK /\ Types => inputs' \in Seq({"skip", "cancel"})
  BY DEF TypeOK, Types

(* Every step keeps the variables within their types. *)
LEMMA TypeStep == TypeOK /\ Shape /\ [Next]_vars => TypeOK'
<1> SUFFICES ASSUME TypeOK, Shape, [Next]_vars PROVE TypeOK'
  OBVIOUS
<1> USE StepNames DEF TypeOK, Shape, WantedAt, steps, base, kept, user, StepIds
<1>1. ASSUME Program PROVE TypeOK'
  <2>1. CASE Begin
    BY <2>1 DEF Begin
  <2>2. CASE Pause
    BY <2>2 DEF Pause
  <2>3. CASE PauseOver
    BY <2>3 DEF PauseOver
  <2>4. CASE Skip
    BY <2>4 DEF Skip
  <2>5. CASE Cancel
    BY <2>5 DEF Cancel
  <2>6. CASE TimeOut
    BY <2>6 DEF TimeOut
  <2>7. CASE TakeFrame
    BY <2>7 DEF TakeFrame
  <2>8. CASE StepDone
    BY <2>8 DEF StepDone
  <2>9. CASE StepEnds
    BY <2>9 DEF StepEnds
  <2>10. CASE NothingStraight
    BY <2>10 DEF NothingStraight
  <2>11. CASE FrameFails
    BY <2>11 DEF FrameFails
  <2>12. CASE NoFace
    BY <2>12, SpendsTime DEF NoFace
  <2>13. ASSUME NEW p \in Poses, NotInPose(p) PROVE TypeOK'
    BY <2>13, SpendsTime DEF NotInPose
  <2>14. ASSUME NEW p \in Poses, Hold(p) PROVE TypeOK'
    BY <2>14, SpendsTime DEF Hold
  <2>15. ASSUME NEW p \in Poses, Alike(p) PROVE TypeOK'
    BY <2>15, SpendsTime DEF Alike
  <2>16. ASSUME NEW p \in Poses, Keep(p) PROVE TypeOK'
    <3>1. Sign(Turned(p)) \in {-1, 1} /\ Sign(Tilted(p)) \in {-1, 1}
      BY SignIsSign
    <3>2. side' \in {-1, 0, 1} /\ tilt' \in {-1, 0, 1}
      BY <2>16, <3>1 DEF Keep, Record
    <3>3. straight' \in 0..2 /\ thisStep' \in 0..2 /\ total' \in Nat
      BY <2>16 DEF Keep, Record
    <3>4. yaws' \in Int /\ pitches' \in Int
      <4>1. p.yaw \in Int /\ p.pitch \in Int
        BY GuidedAssumption
      <4> QED
        BY <2>16, <4>1 DEF Keep, Record
    <3>5. Way(p) \in SUBSET {-1, 1}
      BY <3>1 DEF Way
    <3>6. ways' \in [StepIds -> SUBSET {-1, 1}]
      BY <2>16, <3>5 DEF Keep
    <3> QED
      BY <2>16, <3>2, <3>3, <3>4, <3>6, SpendsTime DEF Keep
  <2> QED
    BY <1>1, <2>1, <2>2, <2>3, <2>4, <2>5, <2>6, <2>7, <2>8, <2>9, <2>10, <2>11, <2>12, <2>13, <2>14, <2>15, <2>16 DEF Program, Frame
<1>2. CASE Types
  BY <1>2, TypesLine, GuidedAssumption DEF Types
<1>3. CASE Closes
  BY <1>3 DEF Closes
<1>4. CASE UNCHANGED vars
  BY <1>4 DEF vars
<1> QED
  BY <1>1, <1>2, <1>3, <1>4 DEF Next

(* Every step keeps the shape of the run. *)
LEMMA ShapeStep == TypeOK /\ Shape /\ [Next]_vars => Shape'
<1> SUFFICES ASSUME TypeOK, Shape, [Next]_vars PROVE Shape'
  OBVIOUS
<1> USE StepNames DEF TypeOK, Shape, WantedAt, steps, base, kept, user, StepIds
<1>1. ASSUME Program PROVE Shape'
  <2>1. CASE Begin
    BY <2>1 DEF Begin
  <2>2. CASE Pause
    BY <2>2 DEF Pause
  <2>3. CASE PauseOver
    BY <2>3 DEF PauseOver
  <2>4. CASE Skip
    BY <2>4 DEF Skip, Asks
  <2>5. CASE Cancel
    BY <2>5 DEF Cancel, Asks
  <2>6. CASE TimeOut
    BY <2>6 DEF TimeOut
  <2>7. CASE TakeFrame
    BY <2>7 DEF TakeFrame
  <2>8. CASE StepDone
    BY <2>8 DEF StepDone
  <2>9. CASE StepEnds
    BY <2>9 DEF StepEnds
  <2>10. CASE NothingStraight
    BY <2>10 DEF NothingStraight
  <2>11. CASE FrameFails
    BY <2>11 DEF FrameFails
  <2>12. CASE NoFace
    BY <2>12 DEF NoFace
  <2>13. ASSUME NEW p \in Poses, NotInPose(p) PROVE Shape'
    BY <2>13 DEF NotInPose
  <2>14. ASSUME NEW p \in Poses, Hold(p) PROVE Shape'
    BY <2>14 DEF Hold
  <2>15. ASSUME NEW p \in Poses, Alike(p) PROVE Shape'
    BY <2>15 DEF Alike
  <2>16. ASSUME NEW p \in Poses, Keep(p) PROVE Shape'
    <3>1. straight' = (IF index = 1 THEN straight + 1 ELSE straight)
      BY <2>16 DEF Keep, Record
    <3> QED
      BY <2>16, <3>1 DEF Keep
  <2> QED
    BY <1>1, <2>1, <2>2, <2>3, <2>4, <2>5, <2>6, <2>7, <2>8, <2>9, <2>10, <2>11, <2>12, <2>13, <2>14, <2>15, <2>16 DEF Program, Frame
<1>2. CASE Types
  BY <1>2 DEF Types
<1>3. CASE Closes
  BY <1>3 DEF Closes
<1>4. CASE UNCHANGED vars
  BY <1>4 DEF vars
<1> QED
  BY <1>1, <1>2, <1>3, <1>4 DEF Next

(* Every step keeps the templates within what its place allows. *)
LEMMA RoomStep == TypeOK /\ Shape /\ RoomInv /\ [Next]_vars => RoomInv'
<1> SUFFICES ASSUME TypeOK, Shape, RoomInv, [Next]_vars PROVE RoomInv'
  OBVIOUS
<1> USE StepNames DEF TypeOK, Shape, RoomInv, Before, WantedAt, steps, base, kept, user, StepIds
<1>1. ASSUME Program PROVE RoomInv'
  <2>1. CASE Begin
    BY <2>1 DEF Begin
  <2>2. CASE Pause
    BY <2>2 DEF Pause
  <2>3. CASE PauseOver
    BY <2>3 DEF PauseOver
  <2>4. CASE Skip
    BY <2>4 DEF Skip
  <2>5. CASE Cancel
    BY <2>5 DEF Cancel
  <2>6. CASE TimeOut
    BY <2>6 DEF TimeOut
  <2>7. CASE TakeFrame
    BY <2>7 DEF TakeFrame
  <2>8. CASE StepDone
    BY <2>8 DEF StepDone
  <2>9. CASE StepEnds
    BY <2>9 DEF StepEnds
  <2>10. CASE NothingStraight
    BY <2>10 DEF NothingStraight
  <2>11. CASE FrameFails
    BY <2>11 DEF FrameFails
  <2>12. CASE NoFace
    BY <2>12 DEF NoFace
  <2>13. ASSUME NEW p \in Poses, NotInPose(p) PROVE RoomInv'
    BY <2>13 DEF NotInPose
  <2>14. ASSUME NEW p \in Poses, Hold(p) PROVE RoomInv'
    BY <2>14 DEF Hold
  <2>15. ASSUME NEW p \in Poses, Alike(p) PROVE RoomInv'
    BY <2>15 DEF Alike
  <2>16. ASSUME NEW p \in Poses, Keep(p) PROVE RoomInv'
    <3>1. straight' = (IF index = 1 THEN straight + 1 ELSE straight)
      BY <2>16 DEF Keep, Record
    <3> QED
      BY <2>16, <3>1 DEF Keep
  <2> QED
    BY <1>1, <2>1, <2>2, <2>3, <2>4, <2>5, <2>6, <2>7, <2>8, <2>9, <2>10, <2>11, <2>12, <2>13, <2>14, <2>15, <2>16 DEF Program, Frame
<1>2. CASE Types
  BY <1>2 DEF Types
<1>3. CASE Closes
  BY <1>3 DEF Closes
<1>4. CASE UNCHANGED vars
  BY <1>4 DEF vars
<1> QED
  BY <1>1, <1>2, <1>3, <1>4 DEF Next

(* Every step keeps the templates of a pair of steps on their two sides. *)
LEMMA WaysStep == TypeOK /\ Shape /\ WaysInv /\ [Next]_vars => WaysInv'
<1> SUFFICES ASSUME TypeOK, Shape, WaysInv, [Next]_vars PROVE WaysInv'
  OBVIOUS
<1> USE StepNames DEF TypeOK, Shape, WaysInv, WantedAt, steps, base, kept, user, StepIds
<1>1. ASSUME Program PROVE WaysInv'
  <2>1. CASE Begin
    BY <2>1 DEF Begin
  <2>2. CASE Pause
    BY <2>2 DEF Pause
  <2>3. CASE PauseOver
    BY <2>3 DEF PauseOver
  <2>4. CASE Skip
    BY <2>4 DEF Skip
  <2>5. CASE Cancel
    BY <2>5 DEF Cancel
  <2>6. CASE TimeOut
    BY <2>6 DEF TimeOut
  <2>7. CASE TakeFrame
    BY <2>7 DEF TakeFrame
  <2>8. CASE StepDone
    BY <2>8 DEF StepDone
  <2>9. CASE StepEnds
    BY <2>9 DEF StepEnds
  <2>10. CASE NothingStraight
    BY <2>10 DEF NothingStraight
  <2>11. CASE FrameFails
    BY <2>11 DEF FrameFails
  <2>12. CASE NoFace
    BY <2>12 DEF NoFace
  <2>13. ASSUME NEW p \in Poses, NotInPose(p) PROVE WaysInv'
    BY <2>13 DEF NotInPose
  <2>14. ASSUME NEW p \in Poses, Hold(p) PROVE WaysInv'
    BY <2>14 DEF Hold
  <2>15. ASSUME NEW p \in Poses, Alike(p) PROVE WaysInv'
    BY <2>15 DEF Alike
  <2>16. ASSUME NEW p \in Poses, Keep(p) PROVE WaysInv'
    <3>1. ways' = [ways EXCEPT ![step] = @ \cup Way(p)]
      BY <2>16 DEF Keep
    <3>2. index' = index /\ (straight' = 0 => FALSE)
      BY <2>16 DEF Keep, Record
    <3>3. CASE index = 1
      <4>1. step = "straight" /\ Way(p) = {} /\ \A s \in StepIds : ways'[s] = ways[s]
        BY <3>1, <3>3 DEF Way
      <4> QED
        BY <2>16, <3>2, <4>1 DEF Keep, Record
    <3>4. CASE index = 2
      <4>1. Way(p) = {Sign(Turned(p))}
        BY <3>4 DEF Way
      <4> QED
        BY <2>16, <3>1, <3>2, <3>4, <4>1, SignIsSign, FitsWay DEF Keep, Record
    <3>5. CASE index = 3
      <4>1. Way(p) = {Sign(Turned(p))}
        BY <3>5 DEF Way
      <4> QED
        BY <2>16, <3>1, <3>2, <3>5, <4>1, SignIsSign, FitsWay DEF Keep, Record
    <3>6. CASE index = 4
      <4>1. Way(p) = {Sign(Tilted(p))}
        BY <3>6 DEF Way
      <4> QED
        BY <2>16, <3>1, <3>2, <3>6, <4>1, SignIsSign, FitsWay DEF Keep, Record
    <3>7. CASE index = 5
      <4>1. Way(p) = {Sign(Tilted(p))}
        BY <3>7 DEF Way
      <4> QED
        BY <2>16, <3>1, <3>2, <3>7, <4>1, SignIsSign, FitsWay DEF Keep, Record
    <3>8. CASE index = 6
      <4>1. Way(p) = {} /\ \A s \in StepIds : ways'[s] = ways[s]
        BY <3>1, <3>8 DEF Way
      <4> QED
        BY <2>16, <3>2, <3>8, <4>1 DEF Keep, Record
    <3> QED
      BY <3>3, <3>4, <3>5, <3>6, <3>7, <3>8
  <2> QED
    BY <1>1, <2>1, <2>2, <2>3, <2>4, <2>5, <2>6, <2>7, <2>8, <2>9, <2>10, <2>11, <2>12, <2>13, <2>14, <2>15, <2>16 DEF Program, Frame
<1>2. CASE Types
  BY <1>2 DEF Types
<1>3. CASE Closes
  BY <1>3 DEF Closes
<1>4. CASE UNCHANGED vars
  BY <1>4 DEF vars
<1> QED
  BY <1>1, <1>2, <1>3, <1>4 DEF Next

(* Whether a pose fits depends on the step and the baseline alone. *)
LEMMA FitsSame ==
  ASSUME UNCHANGED <<index, base>>, NEW q
  PROVE  Fits(step, q)' <=> Fits(step, q)
  BY DEF base, step, Fits, TooFar, Within, RightWay, Turned, Tilted, Size, Sign

(* What is held fitted, and was measured by the last frame with a face. *)
LEMMA HeldStep == TypeOK /\ Shape /\ HeldInv /\ [Next]_vars => HeldInv'
<1> SUFFICES ASSUME TypeOK, Shape, HeldInv, [Next]_vars PROVE HeldInv'
  OBVIOUS
<1> USE StepNames DEF TypeOK, HeldInv, steps, kept, user
<1>1. ASSUME Program PROVE HeldInv'
  <2>1. CASE Begin
    BY <2>1, GuidedAssumption DEF Begin
  <2>2. CASE Pause
    BY <2>2, FitsSame DEF Pause
  <2>3. CASE PauseOver
    BY <2>3, FitsSame DEF PauseOver
  <2>4. CASE Skip
    BY <2>4, FitsSame DEF Skip
  <2>5. CASE Cancel
    BY <2>5, FitsSame DEF Cancel
  <2>6. CASE TimeOut
    BY <2>6, FitsSame DEF TimeOut
  <2>7. CASE TakeFrame
    BY <2>7, FitsSame DEF TakeFrame
  <2>8. CASE StepDone
    BY <2>8, FitsSame DEF StepDone
  <2>9. CASE StepEnds
    BY <2>9 DEF StepEnds
  <2>10. CASE NothingStraight
    BY <2>10 DEF NothingStraight
  <2>11. CASE FrameFails
    BY <2>11, FitsSame DEF FrameFails
  <2>12. CASE NoFace
    BY <2>12, FitsSame DEF NoFace
  <2>13. ASSUME NEW p \in Poses, NotInPose(p) PROVE HeldInv'
    BY <2>13, GuidedAssumption DEF NotInPose
  <2>14. ASSUME NEW p \in Poses, Hold(p) PROVE HeldInv'
    <3>1. \A q \in Poses : Fits(step, q)' <=> Fits(step, q)
      BY <2>14, FitsSame DEF Hold, kept
    <3> QED
      BY <2>14, <3>1 DEF Hold
  <2>15. ASSUME NEW p \in Poses, Alike(p) PROVE HeldInv'
    BY <2>15, GuidedAssumption DEF Alike
  <2>16. ASSUME NEW p \in Poses, Keep(p) PROVE HeldInv'
    BY <2>16, GuidedAssumption DEF Keep
  <2> QED
    BY <1>1, <2>1, <2>2, <2>3, <2>4, <2>5, <2>6, <2>7, <2>8, <2>9, <2>10, <2>11, <2>12, <2>13, <2>14, <2>15, <2>16 DEF Program, Frame
<1>2. CASE Types
  BY <1>2, FitsSame DEF Types
<1>3. CASE Closes
  BY <1>3, FitsSame DEF Closes
<1>4. CASE UNCHANGED vars
  BY <1>4, FitsSame DEF vars, base
<1> QED
  BY <1>1, <1>2, <1>3, <1>4 DEF Next

(* A run is saved after its last step. *)
LEMMA SavedStep == TypeOK /\ Shape /\ SavedLast /\ [Next]_vars => SavedLast'
<1> SUFFICES ASSUME TypeOK, Shape, SavedLast, [Next]_vars PROVE SavedLast'
  OBVIOUS
<1> USE StepNames DEF TypeOK, SavedLast, steps, base, kept, user
<1>1. ASSUME Program PROVE SavedLast'
  <2>1. CASE Begin
    BY <2>1 DEF Begin
  <2>2. CASE Pause
    BY <2>2 DEF Pause
  <2>3. CASE PauseOver
    BY <2>3 DEF PauseOver
  <2>4. CASE Skip
    BY <2>4 DEF Skip
  <2>5. CASE Cancel
    BY <2>5 DEF Cancel
  <2>6. CASE TimeOut
    BY <2>6 DEF TimeOut
  <2>7. CASE TakeFrame
    BY <2>7 DEF TakeFrame
  <2>8. CASE StepDone
    BY <2>8 DEF StepDone
  <2>9. CASE StepEnds
    BY <2>9 DEF StepEnds
  <2>10. CASE NothingStraight
    BY <2>10 DEF NothingStraight
  <2>11. CASE FrameFails
    BY <2>11 DEF FrameFails
  <2>12. CASE NoFace
    BY <2>12 DEF NoFace
  <2>13. ASSUME NEW p \in Poses, NotInPose(p) PROVE SavedLast'
    BY <2>13 DEF NotInPose
  <2>14. ASSUME NEW p \in Poses, Hold(p) PROVE SavedLast'
    BY <2>14 DEF Hold
  <2>15. ASSUME NEW p \in Poses, Alike(p) PROVE SavedLast'
    BY <2>15 DEF Alike
  <2>16. ASSUME NEW p \in Poses, Keep(p) PROVE SavedLast'
    BY <2>16 DEF Keep
  <2> QED
    BY <1>1, <2>1, <2>2, <2>3, <2>4, <2>5, <2>6, <2>7, <2>8, <2>9, <2>10, <2>11, <2>12, <2>13, <2>14, <2>15, <2>16 DEF Program, Frame
<1>2. CASE Types
  BY <1>2 DEF Types
<1>3. CASE Closes
  BY <1>3 DEF Closes
<1>4. CASE UNCHANGED vars
  BY <1>4 DEF vars
<1> QED
  BY <1>1, <1>2, <1>3, <1>4 DEF Next

-----------------------------------------------------------------------------
(* What follows for every reachable state and every step. *)

LEMMA Inductive ==
  /\ Init => TypeOK /\ Shape
  /\ TypeOK /\ Shape /\ [Next]_vars => (TypeOK /\ Shape)'
<1>1. Init => TypeOK
  BY GuidedAssumption DEF Init, TypeOK, StepIds
<1>2. Init => Shape
  BY DEF Init, Shape, WantedAt
<1> QED
  BY <1>1, <1>2, TypeStep, ShapeStep

(* Type correctness: no step keeps more than two templates, and the channel
   holds lines only. *)
THEOREM TypeCorrect == Spec => []TypeOK
  BY Inductive, PTL DEF Spec

(* For every set of poses, the templates of a turn and of its opposite, and of
   a tilt and of its opposite, point opposite ways, whatever was skipped. *)
THEOREM WaysAreOpposite == Spec => []OppositeWays
<1>1. Init => WaysInv
  BY DEF Init, WaysInv, StepIds
<1>2. TypeOK /\ WaysInv => OppositeWays
  BY DEF TypeOK, WaysInv, OppositeWays
<1> QED
  BY <1>1, <1>2, Inductive, WaysStep, PTL DEF Spec

(* No turn, tilt or glasses template is kept before a straight-on one, and what
   is saved is never nothing. *)
THEOREM StraightFirst == Spec => []MeasuredFromStraight
<1>1. Init => WaysInv /\ RoomInv
  BY DEF Init, WaysInv, RoomInv, Before, StepIds
<1>2. TypeOK /\ Shape /\ WaysInv /\ RoomInv /\ SavedLast => MeasuredFromStraight
  BY DEF TypeOK, Shape, WaysInv, RoomInv, SavedLast, MeasuredFromStraight
<1>3. Init => SavedLast
  BY DEF Init, SavedLast
<1>4. TypeOK /\ Shape /\ SavedLast /\ [Next]_vars => SavedLast'
  BY SavedStep
<1> QED
  BY <1>1, <1>2, <1>3, <1>4, Inductive, WaysStep, RoomStep, PTL DEF Spec

(* A run keeps no more templates than there was room for. *)
THEOREM RoomSuffices == Spec => []RoomIsEnough
<1>1. Init => RoomInv
  BY DEF Init, RoomInv, Before
<1>2. TypeOK /\ Shape /\ RoomInv => RoomIsEnough
  BY DEF TypeOK, Shape, RoomInv, Before, WantedAt, RoomIsEnough, Most
<1> QED
  BY <1>1, <1>2, Inductive, RoomStep, PTL DEF Spec

(* Every template is kept from a pose the face frame before it had too. *)
THEOREM PosesAreHeld == Spec => HeldStill
<1>1. Init => HeldInv
  BY GuidedAssumption DEF Init, HeldInv
<1>2. TypeOK /\ HeldInv /\ [Next]_vars => [total' > total => last # NoPose /\ Fits(step, last)]_vars
  <2> SUFFICES ASSUME TypeOK, HeldInv, Next, total' > total
               PROVE  last # NoPose /\ Fits(step, last)
    BY DEF HeldStill
  <2>1. total' # total
    BY DEF TypeOK
  <2>2. PICK p \in Poses : Keep(p)
    BY <2>1 DEF Next, Program, Frame, Begin, Pause, PauseOver, Skip, Cancel, TimeOut, TakeFrame,
       StepDone, StepEnds, NothingStraight, FrameFails, NoFace, NotInPose, Hold, Alike,
       Types, Closes, kept
  <2> QED
    BY <2>2, GuidedAssumption DEF Keep, StillHeld, HeldInv, TypeOK
<1> QED
  BY <1>1, <1>2, Inductive, HeldStep, PTL DEF Spec, HeldStill
================================================================================
