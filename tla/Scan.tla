-------------------------------- MODULE Scan --------------------------------
(***************************************************************************)
(* FaceAuth::authenticate_prepared in crates/face-auth-core/src/lib.rs:    *)
(* one scan, from its first frame to its verdict.  Frames are abstracted   *)
(* to what the loop decides on: usable or not, a face or not, motion or    *)
(* not, a match or not.  Time is counted in ticks since the scan began.    *)
(***************************************************************************)
EXTENDS Integers, Sequences, FiniteSetsExt

CONSTANTS
  Duration,     \* scan_duration_ms
  Grace,        \* liveness_grace_ms
  Window,       \* liveness_window_ms
  Interval,     \* scan_interval_ms
  CaptureTimes, \* how long one pair of frames may take, up to its timeouts
  MaxCapture,   \* the two capture timeouts
  UpdateTimes,  \* how long one lockout update may take
  MaxUpdate,    \* LOCK_WAIT
  MaxFrames,    \* MAX_LIVENESS_FRAMES
  MaxErrors,    \* MAX_CONSECUTIVE_CAPTURE_ERRORS
  LagTimes,     \* how long one turn may lose between its two looks at the clock
  MaxLag,       \* bound on that: the process not scheduled
  LivenessOff   \* liveness_disabled(...): both motion thresholds are zero

ASSUME ScanAssumption ==
  /\ Duration \in Nat
  /\ Grace \in Nat
  /\ Window \in Nat
  /\ Interval \in Nat
  /\ MaxCapture \in Nat \ {0} /\ CaptureTimes \subseteq 1..MaxCapture
  /\ MaxUpdate \in Nat /\ UpdateTimes \subseteq 0..MaxUpdate
  /\ MaxLag \in Nat /\ LagTimes \subseteq 0..MaxLag
  /\ MaxFrames \in Nat \ {0}
  /\ MaxErrors \in Nat \ {0}
  /\ LivenessOff \in BOOLEAN

VARIABLES
  pc,          \* where the loop is
  now,         \* Instant::now()
  deadline,
  extended,
  errors,      \* consecutive_errors
  counted,
  faces,       \* recent_faces: when each kept face frame was taken
  motionSeen,  \* motion_seen
  pending,     \* liveness_pending
  result,      \* what the function returned
  calls,       \* history: the lockout updates made
  evidence,    \* history: the comparison that set motion_seen
  slipped      \* history: the window closed between the two looks at the clock

vars == <<pc, now, deadline, extended, errors, counted, faces, motionSeen,
          pending, result, calls, evidence, slipped>>

NoEvidence == [seen |-> FALSE, age |-> 0, kept |-> 0]

Verdicts == {"none", "match", "nomatch", "declined", "error"}

TypeOK ==
  /\ pc \in {"top", "due", "captured", "face", "encode", "done"}
  /\ now \in Nat
  /\ deadline \in Nat
  /\ extended \in BOOLEAN
  /\ errors \in 0..MaxErrors
  /\ counted \in BOOLEAN
  /\ faces \in Seq(Nat)
  /\ motionSeen \in BOOLEAN
  /\ pending \in BOOLEAN
  /\ result \in Verdicts
  /\ calls \in Seq({"count", "clear"})
  /\ evidence \in [seen : BOOLEAN, age : Nat, kept : Nat]
  /\ slipped \in BOOLEAN

Init ==
  /\ pc = "top"
  /\ now = 0
  /\ deadline = Duration
  /\ extended = FALSE
  /\ errors = 0
  /\ counted = FALSE
  /\ faces = << >>
  /\ motionSeen = LivenessOff
  /\ pending = FALSE
  /\ result = "none"
  /\ calls = << >>
  /\ evidence = NoEvidence
  /\ slipped = FALSE

-----------------------------------------------------------------------------
Returns(verdict) ==
  /\ pc' = "done"
  /\ result' = verdict

\* Mutant of NapUntil: the whole interval, deadline or not.
NapInterval(t) == now' = t + Interval

(* nap(deadline), then the top of the loop: never past the deadline.        *)
NapUntil(t) ==
  LET left == IF t < deadline THEN deadline - t ELSE 0
  IN  now' = t + (IF Interval < left THEN Interval ELSE left)

NextFrame(t) ==
  /\ pc' = "top"
  /\ NapUntil(t)
  /\ UNCHANGED result

\* grace_extends_scan
GraceExtends == pending /\ ~extended /\ Grace # 0

(* The top of the loop reads the clock twice: to see whether the extension  *)
(* is due, and to see whether the window is over.  Time passes in between.  *)
Extend(lag) ==
  /\ pc = "top" /\ now >= deadline /\ GraceExtends
  /\ extended' = TRUE
  /\ deadline' = deadline + Grace
  /\ now' = now + lag
  /\ pc' = "due"
  /\ UNCHANGED <<errors, counted, faces, motionSeen, pending, result, calls, evidence,
                 slipped>>

\* Mutant of Look: the extension is never looked for.
LookOnly(lag) ==
  /\ pc = "top"
  /\ now' = now + lag
  /\ slipped' = (now < deadline /\ now' >= deadline)
  /\ pc' = "due"
  /\ UNCHANGED <<deadline, extended, errors, counted, faces, motionSeen, pending, result, calls,
                 evidence>>

\* The first look finds no extension due.
Look(lag) ==
  /\ pc = "top" /\ ~(now >= deadline /\ GraceExtends)
  /\ now' = now + lag
  /\ slipped' = (now < deadline /\ now' >= deadline)
  /\ pc' = "due"
  /\ UNCHANGED <<deadline, extended, errors, counted, faces, motionSeen, pending, result, calls,
                 evidence>>

\* Mutant of Expire: a pending match is waited for, extension or not.
ExpireUnlessPending ==
  /\ pc = "due" /\ now >= deadline
  /\ IF pending THEN pc' = "top" /\ UNCHANGED result ELSE Returns("nomatch")
  /\ UNCHANGED <<now, deadline, extended, errors, counted, faces, motionSeen, pending,
                 calls, evidence, slipped>>

\* The second look: the window is over.
Expire ==
  /\ pc = "due" /\ now >= deadline
  /\ Returns("nomatch")
  /\ UNCHANGED <<now, deadline, extended, errors, counted, faces, motionSeen, pending,
                 calls, evidence, slipped>>

\* capture_illuminated_frame
Capture(took) ==
  /\ pc = "due" /\ now < deadline
  /\ now' = now + took
  /\ errors' = 0
  /\ pc' = "captured"
  /\ UNCHANGED <<deadline, extended, counted, faces, motionSeen, pending, result,
                 calls, evidence, slipped>>

CaptureFails(took) ==
  /\ pc = "due" /\ now < deadline
  /\ errors' = errors + 1
  /\ IF errors' >= MaxErrors
       THEN Returns("error") /\ now' = now + took
       ELSE NextFrame(now + took)
  /\ UNCHANGED <<deadline, extended, counted, faces, motionSeen, pending, calls, evidence,
                 slipped>>

\* A poor frame, no face in it, or a face too small.
RejectFrame ==
  /\ pc = "captured"
  /\ NextFrame(now)
  /\ UNCHANGED <<deadline, extended, errors, counted, faces, motionSeen, pending,
                 calls, evidence, slipped>>

\* record_pending_failure, before the scan's first face goes any further.
CountAttempt(took) ==
  /\ pc = "captured" /\ ~counted
  /\ counted' = TRUE
  /\ now' = now + took
  /\ calls' = Append(calls, "count")
  /\ \/ pc' = "face" /\ UNCHANGED result
     \/ Returns("declined")              \* LockBusy
  /\ UNCHANGED <<deadline, extended, errors, faces, motionSeen, pending, evidence, slipped>>

FaceAgain ==
  /\ pc = "captured" /\ counted
  /\ pc' = "face"
  /\ UNCHANGED <<now, deadline, extended, errors, counted, faces, motionSeen, pending,
                 result, calls, evidence, slipped>>

\* Mutant of Drops: only the cap.
DropsOverCap(keptFrames, age) == keptFrames > 1 /\ keptFrames > MaxFrames

(* drop_oldest_face, in a loop from the front: the first frame it keeps.    *)
Drops(keptFrames, age) == keptFrames > 1 /\ (age > Window \/ keptFrames > MaxFrames)

FirstKept ==
  Min({i \in 1..Len(faces) : ~Drops(Len(faces) - i + 1, now - faces[i])})

Kept == IF faces = << >> THEN << >> ELSE SubSeq(faces, FirstKept, Len(faces))

\* The first face frame is only a baseline and is never encoded.
Baseline ==
  /\ pc = "face" /\ Kept = << >>
  /\ faces' = Append(Kept, now)
  /\ NextFrame(now)
  /\ UNCHANGED <<deadline, extended, errors, counted, motionSeen, pending,
                 calls, evidence, slipped>>

\* motion_passes, against the oldest kept frame and the previous one.
Compare(passes) ==
  /\ pc = "face" /\ Kept # << >>
  /\ faces' = Append(Kept, now)
  /\ motionSeen' = (motionSeen \/ passes)
  /\ evidence' = IF passes /\ ~motionSeen
                   THEN [seen |-> TRUE, age |-> now - Head(Kept), kept |-> Len(Kept)]
                   ELSE evidence
  /\ pc' = "encode"
  /\ UNCHANGED <<now, deadline, extended, errors, counted, pending, result, calls, slipped>>

\* face_input refuses degenerate landmarks, or the face does not match.
NoMatchHere ==
  /\ pc = "encode"
  /\ NextFrame(now)
  /\ UNCHANGED <<deadline, extended, errors, counted, faces, motionSeen, pending,
                 calls, evidence, slipped>>

\* A match without motion yet.
MatchPending ==
  /\ pc = "encode" /\ ~motionSeen
  /\ pending' = TRUE
  /\ NextFrame(now)
  /\ UNCHANGED <<deadline, extended, errors, counted, faces, motionSeen, calls, evidence,
                 slipped>>

\* Mutant of Match: a match alone is enough.
MatchAlone(took) ==
  /\ pc = "encode"
  /\ calls' = Append(calls, "clear")
  /\ now' = now + took
  /\ Returns("match")
  /\ UNCHANGED <<deadline, extended, errors, counted, faces, motionSeen, pending, evidence,
                 slipped>>

Match(took) ==
  /\ pc = "encode" /\ motionSeen
  /\ calls' = Append(calls, "clear")
  /\ now' = now + took
  /\ Returns("match")
  /\ UNCHANGED <<deadline, extended, errors, counted, faces, motionSeen, pending, evidence,
                 slipped>>

\* The detector, the motion profile, the encoder or the comparison fails.
Abort ==
  /\ \/ pc \in {"captured", "encode"}
     \/ pc = "face" /\ Kept # << >>
  /\ Returns("error")
  /\ UNCHANGED <<now, deadline, extended, errors, counted, faces, motionSeen, pending,
                 calls, evidence, slipped>>

-----------------------------------------------------------------------------
Step ==
  \/ \E lag \in LagTimes : Extend(lag) \/ Look(lag)
  \/ Expire
  \/ \E took \in CaptureTimes : Capture(took) \/ CaptureFails(took)
  \/ RejectFrame
  \/ \E took \in UpdateTimes : CountAttempt(took) \/ Match(took)
  \/ FaceAgain \/ Baseline
  \/ \E passes \in BOOLEAN : Compare(passes)
  \/ NoMatchHere \/ MatchPending \/ Abort

Returned == pc = "done" /\ UNCHANGED vars

Next == Step \/ Returned

Spec == Init /\ [][Next]_vars

\* One thread, whose every wait has a timeout.
FairSpec == Spec /\ WF_vars(Step)

-----------------------------------------------------------------------------
(* A match is earned: it takes two face frames of this scan (the first is   *)
(* never encoded), an attempt counted before either was judged, and motion  *)
(* seen between kept face frames unless liveness is switched off.  However  *)
(* many faces come and go, one attempt is counted, before any is kept, and  *)
(* only the match clears it.                                                *)
MatchEarned ==
  /\ result = "match" =>
       /\ LivenessOff \/ evidence.seen
       /\ Len(faces) >= 2
       /\ calls = <<"count", "clear">>
  /\ calls \in {<< >>, <<"count">>, <<"count", "clear">>}
  /\ faces # << >> => calls # << >>
  /\ calls = <<"count", "clear">> => result = "match"

(* How long a scan can hold up the password prompt: its window, the one     *)
(* grace period if a match is pending, and what one iteration may overrun:  *)
(* a pair of frames, the two lockout updates and the time lost between the  *)
(* looks at the clock.                                                      *)
Overrun == MaxCapture + 2 * MaxUpdate + MaxLag

TimeBound ==
  /\ now <= deadline + Overrun
  /\ deadline = Duration + (IF extended THEN Grace ELSE 0)
  /\ extended => pending

(* A face that matched and only lacked motion is not refused before it had  *)
(* its grace period, even when the window closed during a capture: unless   *)
(* the window closed in the moment between the look for the extension and   *)
(* the look for its end, when the code does not look again.                 *)
GraceIsGiven == result = "nomatch" /\ pending /\ Grace # 0 => extended \/ slipped

(* Motion comes from the liveness window, unless only one face frame is     *)
(* kept: that one stays the baseline however old it is.                     *)
EvidenceIsRecent == evidence.seen => evidence.age <= Window \/ evidence.kept = 1

(* The frames kept for liveness are bounded: the cap, and the newest one.   *)
FramesBounded == Len(faces) <= MaxFrames + 1

(* Every scan returns. *)
Terminates == <>(pc = "done")
=============================================================================
