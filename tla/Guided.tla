-------------------------------- MODULE Guided --------------------------------
(***************************************************************************)
(* Guided enrolment: capture_guided and guided_frame in                    *)
(* crates/face-auth-core/src/guided.rs, the shell of enroll_guided that    *)
(* saves what they return, and the thread of crates/face-enroll that turns *)
(* standard input into Skip and Cancel.  A frame is abstracted to its pose,*)
(* in hundredths, and the distance of its eyes, in pixels; whether it is   *)
(* alike to a kept one may be either.                                      *)
(***************************************************************************)
EXTENDS Integers, Sequences

CONSTANTS
  Poses,        \* the poses the camera may measure
  NoPose,       \* no pose: held is None
  StepTimeout,  \* STEP_TIMEOUT, in ticks
  GlassesPause, \* GLASSES_PAUSE
  FrameTimes,   \* how long one frame takes, the pause after it included
  MaxInputs     \* bound: the lines typed in one run

ASSUME GuidedAssumption ==
  /\ Poses \subseteq [yaw : Int, pitch : Int, eyes : Nat]
  /\ NoPose \notin Poses
  /\ StepTimeout \in Nat
  /\ GlassesPause \in Nat
  /\ FrameTimes \subseteq Nat \ {0}
  /\ MaxInputs \in Nat

All == <<"straight", "side", "other-side", "up", "down", "glasses">>
StepIds == {"straight", "side", "other-side", "up", "down", "glasses"}
Wanted(s) == IF s \in {"up", "down"} THEN 1 ELSE 2
Most == 10

MIN_EYES_PX == 30
STRAIGHT_YAW == 18
STRAIGHT_PITCH == 20..80
TURN == [start |-> 16, end |-> 40]
TILT == [start |-> 7, end |-> 25]
TILT_YAW == 12
STEADY_YAW == 8
STEADY_PITCH == 6

VARIABLES
  pc,
  index,     \* the step under way, from 1
  elapsed,   \* time since it began
  thisStep,  \* this_step: the templates kept from it
  held,      \* the pose of the frame that may be held
  total,     \* the templates kept in all
  yaws,      \* Baseline: yaw and pitch times straight,
  pitches,
  straight,  \* the straight-on templates they are the mean of,
  side,      \* and which way the first turn and tilt went, 0 for not yet
  tilt,
  inputs,    \* the channel from the stdin thread
  stdin,     \* whether it is still open
  typed,     \* lines typed, up to MaxInputs
  ways,      \* history: the directions of the templates kept by each step
  last       \* history: the pose of the last frame with a face, if it was
             \* in the pose asked for and not yet followed by a steady one

steps  == <<pc, index>>
base   == <<yaws, pitches, straight, side, tilt>>
kept   == <<thisStep, total, ways, base>>
user   == <<inputs, stdin, typed>>
vars   == <<pc, index, elapsed, thisStep, held, total, yaws, pitches, straight,
            side, tilt, inputs, stdin, typed, ways, last>>

Ended == pc \in {"saved", "cancelled", "failed"}
step == All[index]

TypeOK ==
  /\ pc \in {"begin", "pause", "poll", "frame", "ending", "saved", "cancelled", "failed"}
  /\ index \in 1..6
  /\ elapsed \in Nat
  /\ thisStep \in 0..2
  /\ held \in Poses \cup {NoPose}
  /\ total \in Nat
  /\ yaws \in Int /\ pitches \in Int
  /\ straight \in 0..2
  /\ side \in {-1, 0, 1} /\ tilt \in {-1, 0, 1}
  /\ inputs \in Seq({"skip", "cancel"})
  /\ stdin \in {"open", "closed"}
  /\ typed \in 0..MaxInputs
  /\ ways \in [StepIds -> SUBSET {-1, 1}]
  /\ last \in Poses \cup {NoPose}

Init ==
  /\ pc = "begin" /\ index = 1
  /\ elapsed = 0 /\ thisStep = 0 /\ total = 0
  /\ held = NoPose /\ last = NoPose
  /\ yaws = 0 /\ pitches = 0 /\ straight = 0 /\ side = 0 /\ tilt = 0
  /\ inputs = <<>> /\ stdin = "open" /\ typed = 0
  /\ ways = [s \in StepIds |-> {}]

-----------------------------------------------------------------------------
(* Poses.  The baseline is a mean, so both sides of a comparison with it are *)
(* multiplied by the number of templates it is the mean of.                  *)

Size(v) == IF v >= 0 THEN v ELSE -v
Sign(v) == IF v >= 0 THEN 1 ELSE -1

Turned(p) == p.yaw * straight - yaws
Tilted(p) == p.pitch * straight - pitches

Within(v, range) == range.start * straight <= Size(v) /\ Size(v) <= range.end * straight
RightWay(v, want) == want # 0 => Sign(v) = want

TooFar(p) == p.eyes < MIN_EYES_PX

Fits(s, p) ==
  /\ ~TooFar(p)
  /\ \/ /\ s \in {"straight", "glasses"}
        /\ Size(p.yaw) <= STRAIGHT_YAW
        /\ p.pitch \in STRAIGHT_PITCH
     \/ /\ s \in {"side", "other-side"}
        /\ Within(Turned(p), TURN)
        /\ RightWay(Turned(p), IF s = "side" THEN side ELSE -side)
     \/ /\ s \in {"up", "down"}
        /\ Size(Turned(p)) <= TILT_YAW * straight
        /\ Within(Tilted(p), TILT)
        /\ RightWay(Tilted(p), IF s = "up" THEN tilt ELSE -tilt)

Steady(a, b) ==
  /\ Size(a.yaw - b.yaw) < STEADY_YAW
  /\ Size(a.pitch - b.pitch) < STEADY_PITCH

StillHeld(p) == held # NoPose /\ Steady(held, p)

\* Baseline::record
RecordEverySide(p) ==
  /\ straight' = IF step = "straight" THEN straight + 1 ELSE straight
  /\ yaws' = IF step = "straight" THEN yaws + p.yaw ELSE yaws
  /\ pitches' = IF step = "straight" THEN pitches + p.pitch ELSE pitches
  /\ side' = IF step \in {"side", "other-side"} THEN Sign(Turned(p)) ELSE side
  /\ tilt' = IF step = "up" /\ tilt = 0 THEN Sign(Tilted(p)) ELSE tilt
Record(p) ==
  /\ straight' = IF step = "straight" THEN straight + 1 ELSE straight
  /\ yaws' = IF step = "straight" THEN yaws + p.yaw ELSE yaws
  /\ pitches' = IF step = "straight" THEN pitches + p.pitch ELSE pitches
  /\ side' = IF step = "side" /\ side = 0 THEN Sign(Turned(p)) ELSE side
  /\ tilt' = IF step = "up" /\ tilt = 0 THEN Sign(Tilted(p)) ELSE tilt

Way(p) ==
  IF step \in {"side", "other-side"} THEN {Sign(Turned(p))}
  ELSE IF step \in {"up", "down"} THEN {Sign(Tilted(p))}
  ELSE {}

-----------------------------------------------------------------------------
(* The loop over the steps. *)

Begin ==
  /\ pc = "begin"
  /\ pc' = IF step = "glasses" THEN "pause" ELSE "poll"
  /\ elapsed' = 0 /\ thisStep' = 0
  /\ held' = NoPose /\ last' = NoPose
  /\ UNCHANGED <<index, total, ways, base, user>>

\* Time to take glasses off or put them on.
Pause ==
  /\ pc = "pause" /\ elapsed < GlassesPause
  /\ inputs = <<>>
  /\ elapsed' = elapsed + 1
  /\ UNCHANGED <<steps, held, last, kept, user>>

PauseOver ==
  /\ pc = "pause" /\ elapsed >= GlassesPause
  /\ pc' = "poll"
  /\ UNCHANGED <<index, elapsed, held, last, kept, user>>

\* control() is asked: once between two frames, and all through the pause.
Asks == \/ pc = "pause" /\ elapsed < GlassesPause
        \/ pc = "poll" /\ thisStep < Wanted(step)

Skip ==
  /\ Asks
  /\ inputs # <<>> /\ Head(inputs) = "skip"
  /\ inputs' = Tail(inputs)
  /\ pc' = "ending"
  /\ UNCHANGED <<index, elapsed, held, last, kept, stdin, typed>>

Cancel ==
  /\ Asks
  /\ inputs # <<>> /\ Head(inputs) = "cancel"
  /\ inputs' = Tail(inputs)
  /\ pc' = "cancelled"
  /\ UNCHANGED <<index, elapsed, held, last, kept, stdin, typed>>

TimeOut ==
  /\ pc = "poll" /\ thisStep < Wanted(step)
  /\ inputs = <<>>
  /\ elapsed > StepTimeout
  /\ pc' = "ending"
  /\ UNCHANGED <<index, elapsed, held, last, kept, user>>

TakeFrameAlways ==
  /\ pc = "poll" /\ thisStep < Wanted(step)
  /\ inputs = <<>>
  /\ pc' = "frame"
  /\ elapsed' = IF elapsed > StepTimeout THEN 0 ELSE elapsed
  /\ UNCHANGED <<index, held, last, kept, user>>
TakeFrame ==
  /\ pc = "poll" /\ thisStep < Wanted(step)
  /\ inputs = <<>>
  /\ elapsed <= StepTimeout
  /\ pc' = "frame"
  /\ UNCHANGED <<index, elapsed, held, last, kept, user>>

StepDone ==
  /\ pc = "poll" /\ thisStep = Wanted(step)
  /\ pc' = "ending"
  /\ UNCHANGED <<index, elapsed, held, last, kept, user>>

\* Nothing can be measured without a straight-on frame.
StepEnds ==
  /\ pc = "ending"
  /\ thisStep # 0 \/ step # "straight"
  /\ IF index < 6 THEN pc' = "begin" /\ index' = index + 1
                  ELSE pc' = "saved" /\ UNCHANGED index
  /\ UNCHANGED <<elapsed, held, last, kept, user>>

NothingStraight ==
  /\ pc = "ending"
  /\ thisStep = 0 /\ step = "straight"
  /\ pc' = "failed"
  /\ UNCHANGED <<index, elapsed, held, last, kept, user>>

-----------------------------------------------------------------------------
(* One frame: guided_frame. *)

Spends == \E t \in FrameTimes : elapsed' = elapsed + t

\* A capture or the encoder fails, and the run with it.
FrameFails ==
  /\ pc = "frame"
  /\ pc' = "failed"
  /\ UNCHANGED <<index, elapsed, held, last, kept, user>>

\* Dark, no face, or a face too small: what is held stays held.
NoFace ==
  /\ pc = "frame"
  /\ Spends
  /\ pc' = "poll"
  /\ UNCHANGED <<index, held, last, kept, user>>

NotInPose(p) ==
  /\ pc = "frame"
  /\ ~Fits(step, p)
  /\ held' = NoPose
  /\ last' = NoPose
  /\ Spends
  /\ pc' = "poll"
  /\ UNCHANGED <<index, kept, user>>

\* The first frame in the pose only starts the count.
Hold(p) ==
  /\ pc = "frame"
  /\ Fits(step, p)
  /\ ~StillHeld(p)
  /\ held' = p /\ last' = p
  /\ Spends
  /\ pc' = "poll"
  /\ UNCHANGED <<index, kept, user>>

\* Too alike to a frame already kept, or its face cannot be cut out.
Alike(p) ==
  /\ pc = "frame"
  /\ Fits(step, p)
  /\ StillHeld(p)
  /\ held' = NoPose /\ last' = NoPose
  /\ Spends
  /\ pc' = "poll"
  /\ UNCHANGED <<index, kept, user>>

Keep(p) ==
  /\ pc = "frame"
  /\ Fits(step, p)
  /\ StillHeld(p)
  /\ held' = NoPose /\ last' = NoPose
  /\ Record(p)
  /\ thisStep' = thisStep + 1 /\ total' = total + 1
  /\ ways' = [ways EXCEPT ![step] = @ \cup Way(p)]
  /\ Spends
  /\ pc' = "poll"
  /\ UNCHANGED <<index, user>>

-----------------------------------------------------------------------------
(* The person, or the settings window, at the other end of standard input. *)

Types ==
  /\ ~Ended /\ stdin = "open" /\ typed < MaxInputs
  /\ \E c \in {"skip", "cancel"} : inputs' = Append(inputs, c)
  /\ typed' = typed + 1
  /\ UNCHANGED <<steps, elapsed, held, last, kept, stdin>>

Closes ==
  /\ ~Ended /\ stdin = "open"
  /\ stdin' = "closed"
  /\ inputs' = Append(inputs, "cancel")
  /\ UNCHANGED <<steps, elapsed, held, last, kept, typed>>

Frame ==
  \/ NoFace
  \/ \E p \in Poses : NotInPose(p) \/ Hold(p) \/ Alike(p) \/ Keep(p)

Program ==
  \/ Begin \/ Pause \/ PauseOver \/ Skip \/ Cancel \/ TimeOut \/ TakeFrame
  \/ StepDone \/ StepEnds \/ NothingStraight \/ FrameFails \/ Frame

Next == Program \/ Types \/ Closes

Spec == Init /\ [][Next]_vars
FairSpec == Spec /\ WF_vars(Program)

-----------------------------------------------------------------------------
(* Properties. *)

\* Left and right are never assumed, and still the templates of a turn and of
\* its opposite differ: whatever way the first turn went, every other template
\* of that step went the same way and every one of the next step the other way
\* (guided.rs:11-15); likewise for tilts.
OppositeWays ==
  \A pair \in {<<"side", "other-side">>, <<"up", "down">>} :
    \A w \in ways[pair[1]] :
      ways[pair[1]] = {w} /\ ways[pair[2]] \subseteq {-w}

\* Every turn and tilt is measured from a straight-on pose of the same person
\* (guided.rs:328-330), and a run that is saved has added something.
MeasuredFromStraight ==
  /\ (\E s \in StepIds : ways[s] # {}) => straight > 0
  /\ pc = "saved" => total > 0

\* No run adds more than enroll_guided found room for before the camera opened
\* (lib.rs:607-609).
RoomIsEnough == total <= Most

\* A template is kept from a pose that was held: the face frame before it was
\* in the pose the step asks for too, and no template was kept or dropped by it
\* already (guided.rs:40-41).
HeldStill ==
  [][total' > total => last # NoPose /\ Fits(step, last)]_vars

\* Every run ends, whoever sits in front of the camera.
RunEnds == <>Ended
=============================================================================
