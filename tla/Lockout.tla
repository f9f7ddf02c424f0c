------------------------------- MODULE Lockout -------------------------------
(***************************************************************************)
(* crates/face-auth-core/src/lockout.rs and its callers in lib.rs: each    *)
(* scan is a process of its own that checks the account's state.bin, and   *)
(* later updates it by load, change, save under flock(state.lock).         *)
(*                                                                         *)
(* Steps of different scans interleave between any two system calls that   *)
(* other scans can see: the unlocked read in check(), the flock, the load, *)
(* the rename that publishes a save.  What happens before that rename (the *)
(* temporary file, its fsync) is private to the process, so a crash there  *)
(* is a crash in "changed".                                                *)
(***************************************************************************)
EXTENDS LockoutPolicy, FiniteSets

CONSTANTS
  Scans,      \* vinoauthface-auth processes
  Refused,    \* those whose flock the kernel refuses (an old SELinux policy)
  NoScan,     \* nobody holds the lock
  MayMiss,    \* those whose open or read of state.bin may fail
  Spoils,     \* whether state.bin may be deleted, corrupted or replaced
  MayStop,    \* those that a signal may stop, or that may hang
  MaxClock,   \* bound on the wall clock
  ClockSteps  \* whether the wall clock may be set back

ASSUME ScansAssumption ==
  /\ IsFiniteSet(Scans)
  /\ Refused \subseteq Scans
  /\ MayMiss \subseteq Scans
  /\ Spoils \in BOOLEAN
  /\ MayStop \subseteq Scans
  /\ NoScan \notin Scans
  /\ MaxClock \in Nat
  /\ ClockSteps \in BOOLEAN

VARIABLES
  file,      \* the state last saved in state.bin, Empty before any
  readable,  \* state.bin still holds it: it is there, whole, a plain file
  lock,      \* who holds the flock on state.lock
  pc,        \* where each scan is
  op,        \* which update it is making, or made last
  rec,       \* its private copy, changed and not yet saved
  result,    \* what each of its two updates returned
  clock,     \* SystemTime, in ticks
  stopped,   \* scans stopped by a signal or hung
  \* History.
  burst,     \* attempts counted while the account was cooling down
  unchecked, \* scans that passed a cooldown because their read failed
  blind,     \* scans whose private copy comes from a read that failed
  overtaken  \* scans whose copy is older than a save made without the lock

disk    == <<file, readable>>
history == <<burst, unchecked, blind, overtaken>>
vars    == <<disk, lock, pc, op, rec, result, clock, stopped, history>>

Active    == {"start", "scanning", "locking", "locked", "changed", "judging"}
Finished  == {"granted", "failed", "dead"}
InUpdate  == {"locking", "locked", "changed"}
Ops       == {"count", "clear"}
Results   == {"none", "saved", "failed", "busy"}

TypeOK ==
  /\ file \in LockoutState
  /\ readable \in BOOLEAN
  /\ lock \in Scans \cup {NoScan}
  /\ pc \in [Scans -> Active \cup Finished]
  /\ op \in [Scans -> Ops]
  /\ rec \in [Scans -> LockoutState]
  /\ result \in [Scans -> [Ops -> Results]]
  /\ clock \in Nat
  /\ stopped \subseteq Scans
  /\ burst \in Nat
  /\ unchecked \subseteq Scans
  /\ blind \subseteq Scans
  /\ overtaken \subseteq Scans

Fresh == [o \in Ops |-> "none"]

Init ==
  /\ file = Empty
  /\ readable = FALSE
  /\ lock = NoScan
  /\ pc = [s \in Scans |-> "start"]
  /\ op = [s \in Scans |-> "count"]
  /\ rec = [s \in Scans |-> Empty]
  /\ result = [s \in Scans |-> Fresh]
  /\ clock = 0
  /\ stopped = {}
  /\ burst = 0
  /\ unchecked = {}
  /\ blind = {}
  /\ overtaken = {}

-----------------------------------------------------------------------------
(* LockoutState::load.  A file that is missing, a link or not a plain file, *)
(* longer than MAX_STATE_FILE_LEN, too short or of another version gives    *)
(* the default, and so does an open or a read that fails.                   *)
Load == IF readable THEN file ELSE Empty

Loads(s) == {Load} \cup (IF s \in MayMiss THEN {Empty} ELSE {})

Goto(s, there) == pc' = [pc EXCEPT ![s] = there]

\* The change each update makes: record_failure's or record_success's.
Change(o, state) == IF o = "count" THEN Counted(state, clock) ELSE Empty

\* update() is over: the flock goes with the dropped file.
Release(s) == lock' = IF lock = s THEN NoScan ELSE lock

\* Its private copy goes with it.
Drops(s) == rec' = [rec EXCEPT ![s] = Empty] /\ blind' = blind \ {s}

Returns(s, res) == result' = [result EXCEPT ![s][op[s]] = res]

\* Mutant of After: a busy lock is one more error that lets the scan go on.
AfterAnyError(s, res) == IF op[s] = "clear" THEN "granted" ELSE "judging"

(* What the caller does with the result.  record_pending_failure stops the *)
(* scan only on LockBusy; record_success ignores every error.              *)
After(s, res) ==
  IF op[s] = "clear" THEN "granted"
  ELSE IF res = "busy" THEN "failed"
  ELSE "judging"

BeginUpdate(s, o) ==
  /\ Goto(s, "locking")
  /\ op' = [op EXCEPT ![s] = o]
  /\ UNCHANGED <<disk, lock, rec, result, clock, stopped, history>>

-----------------------------------------------------------------------------
\* Mutant of Check: the cooldown is slept through and the scan goes on.
CheckOnlySleeps(s) ==
  /\ pc[s] = "start"
  /\ Goto(s, "scanning")
  /\ UNCHANGED <<disk, lock, op, rec, result, clock, stopped, history>>

(* scan_prelude: check() reads the state without the lock; a cooling       *)
(* account ends the scan after the tarpit, without a second look.  A read   *)
(* that fails says the account is not cooling.                              *)
Check(s) ==
  /\ pc[s] = "start"
  /\ \E state \in Loads(s) :
       /\ Goto(s, IF CoolingDown(state, clock) THEN "failed" ELSE "scanning")
       /\ unchecked' = IF CoolingDown(Load, clock) /\ ~CoolingDown(state, clock)
                         THEN unchecked \cup {s} ELSE unchecked
  /\ UNCHANGED <<disk, lock, op, rec, result, clock, stopped, burst, blind, overtaken>>

\* The scan ends, by deadline or error, before any face was seen.
EndUnseen(s) ==
  /\ pc[s] = "scanning"
  /\ Goto(s, "failed")
  /\ UNCHANGED <<disk, lock, op, rec, result, clock, stopped, history>>

\* The first face: record_pending_failure, before anything can match.
SeeFace(s) ==
  /\ pc[s] = "scanning"
  /\ BeginUpdate(s, "count")

\* Mutant of Acquire: a shared lock instead of an exclusive one.
AcquireShared(s) ==
  /\ pc[s] = "locking"
  /\ s \notin Refused
  /\ lock' = s
  /\ Goto(s, "locked")
  /\ UNCHANGED <<disk, op, rec, result, clock, stopped, history>>

\* flock succeeds.
Acquire(s) ==
  /\ pc[s] = "locking"
  /\ s \notin Refused
  /\ lock = NoScan
  /\ lock' = s
  /\ Goto(s, "locked")
  /\ UNCHANGED <<disk, op, rec, result, clock, stopped, history>>

\* flock fails with anything but EWOULDBLOCK: the update goes on unlocked.
ProceedUnlocked(s) ==
  /\ pc[s] = "locking"
  /\ s \in Refused
  /\ Goto(s, "locked")
  /\ UNCHANGED <<disk, lock, op, rec, result, clock, stopped, history>>

\* Mutant of GiveUp: a flock that waits for ever, without LOCK_NB.
GiveUpNever(s) ==
  /\ pc[s] = "locking" /\ lock = s /\ lock # s
  /\ UNCHANGED vars

\* Mutant of GiveUp: after LOCK_WAIT the update goes on without the lock.
GiveUpUnlocked(s) ==
  /\ pc[s] = "locking"
  /\ lock \notin {NoScan, s}
  /\ Goto(s, "locked")
  /\ UNCHANGED <<disk, lock, op, rec, result, clock, stopped, history>>

\* LOCK_WAIT has passed with the lock in other hands: LockBusy.
GiveUp(s) ==
  /\ pc[s] = "locking"
  /\ s \notin Refused
  /\ lock \notin {NoScan, s}
  /\ Returns(s, "busy")
  /\ Goto(s, After(s, "busy"))
  /\ UNCHANGED <<disk, lock, op, rec, clock, stopped, history>>

\* No user directory, no permission, or a state.lock that is not a file.
LockFails(s) ==
  /\ pc[s] = "locking"
  /\ Returns(s, "failed")
  /\ Goto(s, After(s, "failed"))
  /\ UNCHANGED <<disk, lock, op, rec, clock, stopped, history>>

LoadAndChange(s) ==
  /\ pc[s] = "locked"
  /\ \E state \in Loads(s) :
       /\ rec' = [rec EXCEPT ![s] = Change(op[s], state)]
       /\ blind' = IF state = Load THEN blind \ {s} ELSE blind \cup {s}
  /\ overtaken' = overtaken \ {s}
  /\ Goto(s, "changed")
  /\ UNCHANGED <<disk, lock, op, result, clock, stopped, burst, unchecked>>

\* Those a save of s leaves with an old copy, because one of the two has no lock.
Overtakes(s) == {r \in Scans \ {s} : pc[r] = "changed" /\ {r, s} \cap Refused # {}}

(* The rename puts a whole file in place of whatever was there. *)
Save(s) ==
  /\ pc[s] = "changed"
  /\ file' = rec[s]
  /\ readable' = TRUE
  /\ burst' = IF ~(CoolingDown(Load, clock) /\ CoolingDown(rec[s], clock)) THEN 0
              ELSE IF s \in unchecked THEN burst ELSE burst + 1
  /\ overtaken' = (overtaken \ {s}) \cup Overtakes(s)
  /\ Release(s)
  /\ Drops(s)
  /\ Returns(s, "saved")
  /\ Goto(s, After(s, "saved"))
  /\ UNCHANGED <<op, clock, stopped, unchecked>>

\* Any error of save() up to the rename: state.bin is untouched.
SaveFails(s) ==
  /\ pc[s] = "changed"
  /\ overtaken' = overtaken \ {s}
  /\ Release(s)
  /\ Drops(s)
  /\ Returns(s, "failed")
  /\ Goto(s, After(s, "failed"))
  /\ UNCHANGED <<disk, op, clock, stopped, burst, unchecked>>

\* A frame matches, with motion: record_success.
Match(s) ==
  /\ pc[s] = "judging"
  /\ BeginUpdate(s, "clear")

\* The window closes, or a later step of the scan fails.
NoMatch(s) ==
  /\ pc[s] = "judging"
  /\ Goto(s, "failed")
  /\ UNCHANGED <<disk, lock, op, rec, result, clock, stopped, history>>

-----------------------------------------------------------------------------
(* The environment. *)

\* A kill closes the process's files, and with them its flock.
Kill(s) ==
  /\ pc[s] \in Active
  /\ Goto(s, "dead")
  /\ Release(s)
  /\ stopped' = stopped \ {s}
  /\ unchecked' = unchecked \ {s}
  /\ overtaken' = overtaken \ {s}
  /\ Drops(s)
  /\ UNCHANGED <<disk, op, result, clock, burst>>

Stop(s) ==
  /\ s \in MayStop
  /\ pc[s] \in Active
  /\ stopped' = stopped \cup {s}
  /\ UNCHANGED <<disk, lock, pc, op, rec, result, clock, history>>

Continue(s) ==
  /\ s \in stopped
  /\ stopped' = stopped \ {s}
  /\ UNCHANGED <<disk, lock, pc, op, rec, result, clock, history>>

\* PAM asks again: a new process, with nothing left of the last one.
Retry(s) ==
  /\ pc[s] \in Finished
  /\ Goto(s, "start")
  /\ op' = [op EXCEPT ![s] = "count"]
  /\ result' = [result EXCEPT ![s] = Fresh]
  /\ unchecked' = unchecked \ {s}
  /\ UNCHANGED <<disk, lock, rec, clock, stopped, burst, blind, overtaken>>

SetClock(now) ==
  /\ clock' = now
  /\ burst' = IF CoolingDown(Load, now) THEN burst ELSE 0
  /\ UNCHANGED <<disk, lock, pc, op, rec, result, stopped, unchecked, blind, overtaken>>

Tick == clock < MaxClock /\ SetClock(clock + 1)

TurnBack == ClockSteps /\ \E now \in 0..(clock - 1) : SetClock(now)

(* state.bin is deleted, truncated, overwritten or made a link by someone   *)
(* else, or belongs to another version of the program after an upgrade.     *)
Spoil ==
  /\ Spoils
  /\ readable
  /\ readable' = FALSE
  /\ burst' = 0
  /\ UNCHANGED <<file, lock, pc, op, rec, result, clock, stopped, unchecked, blind, overtaken>>

-----------------------------------------------------------------------------
\* The steps the code itself is bound to take, as opposed to I/O errors.
Progress(s) ==
  /\ s \notin stopped
  /\ \/ Check(s) \/ EndUnseen(s) \/ SeeFace(s)
     \/ Acquire(s) \/ ProceedUnlocked(s) \/ GiveUp(s)
     \/ LoadAndChange(s) \/ Save(s) \/ Match(s) \/ NoMatch(s)

Failure(s) == s \notin stopped /\ (LockFails(s) \/ SaveFails(s))

Environment(s) == Kill(s) \/ Stop(s) \/ Continue(s) \/ Retry(s)

Next ==
  \/ \E s \in Scans : Progress(s) \/ Failure(s) \/ Environment(s)
  \/ Tick
  \/ TurnBack
  \/ Spoil

Spec == Init /\ [][Next]_vars

FairSpec == Spec /\ \A s \in Scans : WF_vars(Progress(s))

-----------------------------------------------------------------------------
HoldsLock(s) == pc[s] \in {"locked", "changed"} /\ s \notin Refused

(* Between taking the flock and dropping it a scan is alone: two scans that *)
(* took it are never inside update() together, and no scan keeps it once it *)
(* is out, however it left (saved, failed, killed).                         *)
LockExclusive == \A s \in Scans : lock = s <=> HoldsLock(s)

(* What an update of s may be on top of: the state on disk, the default     *)
(* where s could not read it, and either once somebody spoiled the file.    *)
Bases(s) ==
  IF s \in blind THEN {Empty} ELSE {file} \cup (IF readable THEN {} ELSE {Empty})

(* No update is lost: what a scan is about to save is the change applied to *)
(* what state.bin holds now, not to what it held when the scan read it.     *)
(* This is the lock's purpose.  It fails for the two the code lets go on    *)
(* all the same: a scan whose read failed counts from the default, and a    *)
(* save by a scan that was refused the lock, or over one, takes its count.  *)
SavesOnTop ==
  \A s \in Scans :
    pc[s] = "changed" =>
      IF op[s] = "clear" THEN rec[s] = Empty
      ELSE s \notin overtaken =>
             \E base \in Bases(s) : rec[s] = Counted(base, rec[s].last)

(* A scan that lost its count to a busy lock never goes on to match: every  *)
(* scan that reaches a verdict was counted, or its write failed for another *)
(* reason (record_pending_failure's fail-open).                             *)
NoUncountedVerdict ==
  \A s \in Scans :
    pc[s] \in {"judging", "granted"} \/ op[s] = "clear"
      => result[s]["count"] \in {"saved", "failed"}

(* check() is not under the lock, so scans already past it still count when *)
(* the account starts cooling down.  They are the only ones: the attempts   *)
(* added while a cooldown lasts, and those that still can be, are fewer     *)
(* than the scans that run at once, however often they are killed and       *)
(* started again.  A scan whose read of the state failed passes the check   *)
(* in a cooldown and is left out of both.  The burst ends with its          *)
(* cooldown; what may end one before its time is CooldownOnlyGrows' matter. *)
Trying(s) == pc[s] = "scanning" \/ (pc[s] \in InUpdate /\ op[s] = "count")

InFlight == {s \in Scans \ unchecked : Trying(s)}

BurstBound ==
  CoolingDown(Load, clock) => burst + Cardinality(InFlight) < Cardinality(Scans)

\* s saves in this step, over what others may have saved since it read.
Resets(s) ==
  /\ pc[s] = "changed" /\ pc'[s] # "changed" /\ result'[s][op[s]] = "saved"
  /\ op[s] = "clear" \/ s \in blind \/ s \in overtaken

\* The file stops being readable in this step.
IsSpoilt == readable /\ ~readable'

(* The count goes down only when a scan that matched saves its reset, when  *)
(* the file is lost or could not be read ("A missing or corrupt file resets *)
(* the backoff"), or when an unlocked update overwrites another: a kill, an *)
(* error, a late save or a saturated counter never lowers it.               *)
OnlyMatchClears ==
  [][Load'.failures < Load.failures => IsSpoilt \/ \E s \in Scans : Resets(s)]_vars

(* Nobody waits for the lock for ever: even if its holder never runs again, *)
(* a waiting scan gets the lock or gives up, and ends.                      *)
ScansEnd == \A s \in Scans : pc[s] = "start" ~> (pc[s] \in Finished \/ s \in stopped)

(* Counting can only push the end of a cooldown back, however many failures *)
(* there are and whoever saves.  What brings it forward is a match, a file  *)
(* that is lost or could not be read, an update that went on without the    *)
(* lock or was overtaken by one that did, or, where the clock can be set    *)
(* back, a stamp older than the one it replaces; and nothing else.          *)
CooldownEnd == IF Load.failures < Threshold THEN 0 ELSE Load.last + Delay(Load)

StampsBack(s) == ClockSteps /\ pc[s] = "changed" /\ rec[s].last < file.last /\ file' = rec[s]

CooldownOnlyGrows ==
  [][CooldownEnd' < CooldownEnd =>
       IsSpoilt \/ \E s \in Scans : Resets(s) \/ StampsBack(s)]_vars

-----------------------------------------------------------------------------
(* The lockout implements the counter: the last state saved is the record,  *)
(* a save is the step that counts.                                          *)
Stage(s) ==
  IF pc[s] \in {"start", "failed", "dead"} THEN "out"
  ELSE IF pc[s] = "granted" THEN "granted"
  ELSE IF Trying(s) THEN "trying"
  ELSE IF result[s]["count"] = "saved" THEN "counted" ELSE "uncounted"

Counter == INSTANCE LockoutCounter
             WITH record <- file, stage <- [s \in Scans |-> Stage(s)]

ImplementsCounter == Counter!Spec
=============================================================================
