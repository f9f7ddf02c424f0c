--------------------------- MODULE Lockout_proofs ---------------------------
(***************************************************************************)
(* Theorems about Lockout, for any number of scans, any policy and any     *)
(* behaviour of the clock.                                                 *)
(***************************************************************************)
EXTENDS Lockout, FiniteSetTheorems, WellFoundedInduction, TLAPS

(* The default state is a state, and counting on top of a state gives one:  *)
(* the count saturates at FailuresMax.                                      *)
LEMMA EmptyType == Empty \in LockoutState
  BY PolicyAssumption DEF Empty, LockoutState

LEMMA CountedType ==
  ASSUME NEW state \in LockoutState, NEW now \in Nat
  PROVE  Counted(state, now) \in LockoutState
  BY PolicyAssumption DEF Counted, LockoutState

(* A load always gives a state, whatever is on disk and whether it is read. *)
LEMMA LoadType ==
  TypeOK => Load \in LockoutState /\ \A s \in Scans : Loads(s) \subseteq LockoutState
  BY EmptyType DEF TypeOK, Load, Loads

(* Every step keeps the variables within their types. *)
LEMMA TypeStep == TypeOK /\ [Next]_vars => TypeOK'
<1> SUFFICES ASSUME TypeOK, [Next]_vars PROVE TypeOK'
  OBVIOUS
<1> USE DEF TypeOK, Active, Finished, InUpdate, Ops, Results, disk, history
<1>1. ASSUME NEW s \in Scans, Progress(s) PROVE TypeOK'
  <2>1. CASE Check(s)
    BY <2>1 DEF Check, Goto
  <2>2. CASE EndUnseen(s)
    BY <2>2 DEF EndUnseen, Goto
  <2>3. CASE SeeFace(s)
    BY <2>3 DEF SeeFace, BeginUpdate, Goto
  <2>4. CASE Acquire(s)
    BY <2>4 DEF Acquire, Goto
  <2>5. CASE ProceedUnlocked(s)
    BY <2>5 DEF ProceedUnlocked, Goto
  <2>6. CASE GiveUp(s)
    BY <2>6 DEF GiveUp, Goto, Returns, After
  <2>7. CASE LoadAndChange(s)
    <3>1. \A state \in Loads(s) : Change(op[s], state) \in LockoutState
      BY LoadType, EmptyType, CountedType DEF Change
    <3> QED
      BY <2>7, <3>1 DEF LoadAndChange, Goto
  <2>8. CASE Save(s)
    BY <2>8, EmptyType DEF Save, Overtakes, Drops, Release, Returns, After, Goto
  <2>9. CASE Match(s)
    BY <2>9 DEF Match, BeginUpdate, Goto
  <2>10. CASE NoMatch(s)
    BY <2>10 DEF NoMatch, Goto
  <2> QED
    BY <1>1, <2>1, <2>2, <2>3, <2>4, <2>5, <2>6, <2>7, <2>8, <2>9, <2>10 DEF Progress
<1>2. ASSUME NEW s \in Scans, Failure(s) PROVE TypeOK'
  <2>1. CASE LockFails(s)
    BY <2>1 DEF LockFails, Returns, After, Goto
  <2>2. CASE SaveFails(s)
    BY <2>2, EmptyType DEF SaveFails, Drops, Release, Returns, After, Goto
  <2> QED
    BY <1>2, <2>1, <2>2 DEF Failure
<1>3. ASSUME NEW s \in Scans, Environment(s) PROVE TypeOK'
  <2>1. CASE Kill(s)
    BY <2>1, EmptyType DEF Kill, Drops, Release, Goto
  <2>2. CASE Stop(s)
    BY <2>2 DEF Stop
  <2>3. CASE Continue(s)
    BY <2>3 DEF Continue
  <2>4. CASE Retry(s)
    BY <2>4 DEF Retry, Goto, Fresh
  <2> QED
    BY <1>3, <2>1, <2>2, <2>3, <2>4 DEF Environment
<1>4. ASSUME NEW now \in Nat, SetClock(now) PROVE TypeOK'
  BY <1>4 DEF SetClock
<1>5. CASE Tick
  BY <1>4, <1>5 DEF Tick
<1>6. CASE TurnBack
  BY <1>4, <1>6 DEF TurnBack
<1>7. CASE Spoil
  BY <1>7 DEF Spoil
<1>8. CASE UNCHANGED vars
  BY <1>8 DEF vars
<1> QED
  BY <1>1, <1>2, <1>3, <1>5, <1>6, <1>7, <1>8 DEF Next

(* Type correctness of the lockout. *)
THEOREM TypeCorrect == Spec => []TypeOK
<1>1. Init => TypeOK
  <2> SUFFICES ASSUME Init PROVE TypeOK
    OBVIOUS
  <2>1. file \in LockoutState /\ readable \in BOOLEAN /\ rec \in [Scans -> LockoutState]
    BY EmptyType DEF Init
  <2>2. result \in [Scans -> [Ops -> Results]]
    BY DEF Init, Fresh, Results
  <2> QED
    BY <2>1, <2>2 DEF Init, TypeOK, Active, Ops
<1> QED
  BY <1>1, TypeStep, PTL DEF Spec

-----------------------------------------------------------------------------
(* The flock is held exactly by the scans inside update() that took it.     *)
LEMMA LockStep == TypeOK /\ LockExclusive /\ [Next]_vars => LockExclusive'
<1> SUFFICES ASSUME TypeOK, LockExclusive, [Next]_vars PROVE LockExclusive'
  OBVIOUS
<1> USE ScansAssumption DEF TypeOK, LockExclusive, HoldsLock, disk, history
<1>1. ASSUME NEW s \in Scans, Progress(s) PROVE LockExclusive'
  <2>1. CASE Check(s)
    BY <2>1 DEF Check, Goto
  <2>2. CASE EndUnseen(s)
    BY <2>2 DEF EndUnseen, Goto
  <2>3. CASE SeeFace(s)
    BY <2>3 DEF SeeFace, BeginUpdate, Goto
  <2>4. CASE Acquire(s)
    BY <2>4 DEF Acquire, Goto
  <2>5. CASE ProceedUnlocked(s)
    BY <2>5 DEF ProceedUnlocked, Goto
  <2>6. CASE GiveUp(s)
    BY <2>6 DEF GiveUp, Goto, After
  <2>7. CASE LoadAndChange(s)
    BY <2>7 DEF LoadAndChange, Goto
  <2>8. CASE Save(s)
    BY <2>8 DEF Save, Release, After, Goto
  <2>9. CASE Match(s)
    BY <2>9 DEF Match, BeginUpdate, Goto
  <2>10. CASE NoMatch(s)
    BY <2>10 DEF NoMatch, Goto
  <2> QED
    BY <1>1, <2>1, <2>2, <2>3, <2>4, <2>5, <2>6, <2>7, <2>8, <2>9, <2>10 DEF Progress
<1>2. ASSUME NEW s \in Scans, Failure(s) PROVE LockExclusive'
  <2>1. CASE LockFails(s)
    BY <2>1 DEF LockFails, After, Goto
  <2>2. CASE SaveFails(s)
    BY <2>2 DEF SaveFails, Release, After, Goto
  <2> QED
    BY <1>2, <2>1, <2>2 DEF Failure
<1>3. ASSUME NEW s \in Scans, Environment(s) PROVE LockExclusive'
  <2>1. CASE Kill(s)
    BY <2>1 DEF Kill, Release, Goto, Active
  <2>2. CASE Stop(s)
    BY <2>2 DEF Stop
  <2>3. CASE Continue(s)
    BY <2>3 DEF Continue
  <2>4. CASE Retry(s)
    BY <2>4 DEF Retry, Goto, Finished
  <2> QED
    BY <1>3, <2>1, <2>2, <2>3, <2>4 DEF Environment
<1>4. CASE Tick \/ TurnBack \/ Spoil
  BY <1>4 DEF Tick, TurnBack, SetClock, Spoil
<1>5. CASE UNCHANGED vars
  BY <1>5 DEF vars
<1> QED
  BY <1>1, <1>2, <1>3, <1>4, <1>5 DEF Next

(* Mutual exclusion of the updates: at any time at most one scan that took  *)
(* the lock is inside update(), and nobody keeps it on the way out.         *)
THEOREM LockIsExclusive == Spec => []LockExclusive
<1>1. Init => LockExclusive
  BY ScansAssumption DEF Init, LockExclusive, HoldsLock
<1> QED
  BY <1>1, LockStep, TypeCorrect, PTL DEF Spec

-----------------------------------------------------------------------------
(* What a scan is about to save stays on top of what is on disk: a scan     *)
(* that took the lock is alone with the others that did, and a save without *)
(* it, or over one without it, overtakes.                                   *)
LEMMA SavesStep ==
  ASSUME TypeOK, LockExclusive, SavesOnTop, [Next]_vars
  PROVE  SavesOnTop'
<1> USE ScansAssumption DEF TypeOK, SavesOnTop, Ops, disk, history
<1>1. ASSUME UNCHANGED <<file, rec, op, blind, overtaken>>, readable' => readable,
             \A r \in Scans : pc'[r] = "changed" => pc[r] = "changed"
      PROVE  SavesOnTop'
  <2>1. \A r \in Scans : Bases(r) \subseteq Bases(r)'
    BY <1>1 DEF Bases
  <2> QED
    BY <1>1, <2>1
<1>2. ASSUME NEW s \in Scans, Progress(s) PROVE SavesOnTop'
  <2>1. CASE Check(s) \/ EndUnseen(s) \/ NoMatch(s)
    BY <1>1, <2>1 DEF Check, EndUnseen, NoMatch, Goto
  <2>2. CASE SeeFace(s) \/ Match(s)
    BY <2>2 DEF SeeFace, Match, BeginUpdate, Goto, Bases
  <2>3. CASE Acquire(s) \/ ProceedUnlocked(s)
    BY <1>1, <2>3 DEF Acquire, ProceedUnlocked, Goto
  <2>4. CASE GiveUp(s)
    BY <1>1, <2>4 DEF GiveUp, Goto, After
  <2>5. CASE LoadAndChange(s)
    <3>1. PICK state \in Loads(s) :
            /\ rec' = [rec EXCEPT ![s] = Change(op[s], state)]
            /\ blind' = IF state = Load THEN blind \ {s} ELSE blind \cup {s}
      BY <2>5 DEF LoadAndChange
    <3>2. op' = op /\ pc' = [pc EXCEPT ![s] = "changed"] /\ overtaken' = overtaken \ {s}
          /\ file' = file /\ readable' = readable
      BY <2>5 DEF LoadAndChange, Goto
    <3>3. \A r \in Scans \ {s} : Bases(r)' = Bases(r)
      BY <3>1, <3>2 DEF Bases
    <3>4. CASE op[s] = "clear"
      BY <3>1, <3>2, <3>3, <3>4 DEF Change
    <3>5. CASE op[s] = "count"
      <4>1. rec'[s] = Counted(state, clock) /\ rec'[s].last = clock
        BY <3>1, <3>5 DEF Change, Counted
      <4>2. state \in Bases(s)'
        BY <3>1, <3>2 DEF Bases, Loads, Load
      <4> QED
        BY <3>1, <3>2, <3>3, <3>5, <4>1, <4>2
    <3> QED
      BY <3>4, <3>5
  <2>6. CASE Save(s)
    <3>1. SUFFICES ASSUME NEW r \in Scans, pc'[r] = "changed", op'[r] # "clear",
                          r \notin overtaken'
                   PROVE  FALSE
      BY <2>6 DEF Save, Drops, Goto, After
    <3>2. r # s /\ pc[r] = "changed" /\ pc[s] = "changed"
      BY <2>6, <3>1 DEF Save, Goto, After
    <3>3. r \notin Refused /\ s \notin Refused
      BY <2>6, <3>1, <3>2 DEF Save, Overtakes
    <3> QED
      BY <3>2, <3>3 DEF LockExclusive, HoldsLock
  <2> QED
    BY <1>2, <2>1, <2>2, <2>3, <2>4, <2>5, <2>6 DEF Progress
<1>3. ASSUME NEW s \in Scans, Failure(s) PROVE SavesOnTop'
  BY <1>3 DEF Failure, LockFails, SaveFails, Drops, After, Goto, Bases
<1>4. ASSUME NEW s \in Scans, Environment(s) PROVE SavesOnTop'
  BY <1>4 DEF Environment, Kill, Drops, Stop, Continue, Retry, Goto, Bases, Finished
<1>5. CASE Tick \/ TurnBack \/ Spoil
  BY <1>1, <1>5 DEF Tick, TurnBack, SetClock, Spoil
<1>6. CASE UNCHANGED vars
  BY <1>1, <1>6 DEF vars
<1> QED
  BY <1>2, <1>3, <1>4, <1>5, <1>6 DEF Next

(* No update is lost, but for a state that could not be read and for saves  *)
(* without the lock.                                                        *)
THEOREM NoLostUpdate == Spec => []SavesOnTop
<1>1. Init => SavesOnTop
  BY DEF Init, SavesOnTop
<1>2. TypeOK /\ LockExclusive /\ SavesOnTop /\ [Next]_vars => SavesOnTop'
  BY SavesStep
<1> QED
  BY <1>1, <1>2, TypeCorrect, LockIsExclusive, PTL DEF Spec

-----------------------------------------------------------------------------
(* What is read changes only in a save, or when the file is spoiled.        *)
LEMMA LoadChanges ==
  ASSUME TypeOK, [Next]_vars, Load' # Load
  PROVE  IsSpoilt \/ \E s \in Scans : Save(s)
<1>1. CASE Spoil
  BY <1>1 DEF Spoil, IsSpoilt
<1>2. CASE disk' = disk
  BY <1>2 DEF disk, Load
<1>3. CASE \E s \in Scans : Save(s)
  BY <1>3
<1> QED
  BY <1>1, <1>2, <1>3
     DEF Next, Progress, Failure, Environment, Check, EndUnseen, SeeFace, BeginUpdate,
         Acquire, ProceedUnlocked, GiveUp, LoadAndChange, Match, NoMatch, LockFails,
         SaveFails, Kill, Stop, Continue, Retry, Tick, TurnBack, SetClock, vars, disk

(* A save resets, or counts on top of what can be read.                     *)
LEMMA SaveCounts ==
  ASSUME TypeOK, SavesOnTop, NEW s \in Scans, Save(s)
  PROVE  /\ Load' = rec[s] /\ file' = rec[s] /\ pc[s] = "changed"
         /\ \/ Resets(s)
            \/ readable /\ rec[s] = Counted(Load, rec[s].last)
            \/ Load = Empty
<1>1. Load' = rec[s] /\ file' = rec[s] /\ pc[s] = "changed"
  BY DEF Save, Load
<1>2. pc'[s] # "changed" /\ result'[s][op[s]] = "saved"
  BY DEF TypeOK, Save, Goto, After, Returns
<1>3. SUFFICES ASSUME op[s] # "clear", s \notin blind, s \notin overtaken, readable
               PROVE  rec[s] = Counted(Load, rec[s].last)
  BY <1>1, <1>2 DEF Resets, Load, TypeOK
<1> QED
  BY <1>1, <1>3 DEF SavesOnTop, Bases, Load

(* The count only goes down in the save of a scan that matched, or for the  *)
(* reasons the code accepts.                                                *)
LEMMA ClearsStep ==
  ASSUME TypeOK, SavesOnTop, [Next]_vars, Load'.failures < Load.failures
  PROVE  IsSpoilt \/ \E s \in Scans : Resets(s)
<1>1. Load.failures \in 0..FailuresMax
  BY LoadType DEF LockoutState
<1>2. Load' # Load
  BY <1>1
<1>3. SUFFICES ASSUME NEW s \in Scans, Save(s) PROVE Resets(s)
  BY <1>2, LoadChanges
<1>4. ASSUME rec[s] = Counted(Load, rec[s].last) PROVE FALSE
  BY <1>1, <1>3, <1>4, SaveCounts, PolicyAssumption DEF Counted
<1>5. ASSUME Load = Empty PROVE FALSE
  <2>1. rec[s].failures \in Nat
    BY DEF TypeOK, LockoutState
  <2> QED
    BY <1>3, <1>5, <2>1, SaveCounts DEF Empty
<1> QED
  BY <1>3, <1>4, <1>5, SaveCounts

(* Only a match clears the count, but for a state lost or not read and for  *)
(* updates without the lock.                                                *)
THEOREM CountIsKept == Spec => OnlyMatchClears
<1>1. TypeOK /\ SavesOnTop /\ [Next]_vars
        => [Load'.failures < Load.failures => IsSpoilt \/ \E s \in Scans : Resets(s)]_vars
  BY ClearsStep
<1> QED
  BY <1>1, TypeCorrect, NoLostUpdate, PTL DEF Spec, OnlyMatchClears

-----------------------------------------------------------------------------
(* Every verdict is counted.  The count is returned before anything can     *)
(* match, only a busy lock returns without an answer about the file, and    *)
(* that ends the scan: the property is inductive, and needs no lock.        *)
LEMMA VerdictStep ==
  ASSUME TypeOK, NoUncountedVerdict, [Next]_vars
  PROVE  NoUncountedVerdict'
<1> USE DEF TypeOK, NoUncountedVerdict, Goto, Ops, Drops
<1>1. ASSUME NEW s \in Scans, Progress(s) PROVE NoUncountedVerdict'
  <2>1. CASE Check(s) \/ EndUnseen(s) \/ SeeFace(s)
    BY <2>1 DEF Check, EndUnseen, SeeFace, BeginUpdate
  <2>2. CASE Acquire(s) \/ ProceedUnlocked(s) \/ LoadAndChange(s)
    BY <2>2 DEF Acquire, ProceedUnlocked, LoadAndChange
  <2>3. CASE GiveUp(s)
    BY <2>3 DEF GiveUp, Returns, After
  <2>4. CASE Save(s)
    BY <2>4 DEF Save, Returns, After
  <2>5. CASE Match(s) \/ NoMatch(s)
    BY <2>5 DEF Match, NoMatch, BeginUpdate
  <2> QED
    BY <1>1, <2>1, <2>2, <2>3, <2>4, <2>5 DEF Progress
<1>2. ASSUME NEW s \in Scans, Failure(s) PROVE NoUncountedVerdict'
  BY <1>2 DEF Failure, LockFails, SaveFails, Returns, After
<1>3. ASSUME NEW s \in Scans, Environment(s) PROVE NoUncountedVerdict'
  BY <1>3 DEF Environment, Kill, Stop, Continue, Retry, Active, Finished
<1>4. CASE Tick \/ TurnBack \/ Spoil \/ UNCHANGED vars
  BY <1>4 DEF Tick, TurnBack, SetClock, Spoil, vars
<1> QED
  BY <1>1, <1>2, <1>3, <1>4 DEF Next

(* No scan reaches a verdict that was not counted first, unless the write   *)
(* failed: with or without the flock, whoever is stopped or killed.         *)
THEOREM VerdictsAreCounted == Spec => []NoUncountedVerdict
<1>1. Init => NoUncountedVerdict
  BY DEF Init, NoUncountedVerdict
<1>2. TypeOK /\ NoUncountedVerdict /\ [Next]_vars => NoUncountedVerdict'
  BY VerdictStep
<1> QED
  BY <1>1, <1>2, TypeCorrect, PTL DEF Spec

-----------------------------------------------------------------------------
(* Refinement.  A step of one scan leaves the others' stages alone.         *)
LEMMA StageLocal ==
  ASSUME NEW s \in Scans,
         \A r \in Scans \ {s} :
           pc'[r] = pc[r] /\ op'[r] = op[r] /\ result'[r] = result[r]
  PROVE  [r \in Scans |-> Stage(r)'] = [[r \in Scans |-> Stage(r)] EXCEPT ![s] = Stage(s)']
<1>1. ASSUME NEW r \in Scans \ {s} PROVE Stage(r)' = Stage(r)
  BY DEF Stage, Trying
<1> QED
  BY <1>1

(* A scan's move in the counter, from its stage before and after the step.  *)
LEMMA Moves ==
  ASSUME NEW s \in Scans, NEW from, Stage(s) \in from,
         \A r \in Scans \ {s} :
           pc'[r] = pc[r] /\ op'[r] = op[r] /\ result'[r] = result[r]
  PROVE  Counter!Move(s, from, Stage(s)')
  BY StageLocal DEF Counter!Move

(* Where a scan stands in the counter, by its place in the code.            *)
LEMMA StageOf ==
  ASSUME NEW s \in Scans
  PROVE  /\ pc[s] = "granted" => Stage(s) = "granted"
         /\ pc[s] \in {"start", "failed", "dead"} => Stage(s) = "out"
         /\ pc[s] = "scanning" => Stage(s) = "trying"
         /\ pc[s] \in InUpdate /\ op[s] = "count" => Stage(s) = "trying"
         /\ (pc[s] \in InUpdate /\ op[s] # "count") \/ pc[s] = "judging" =>
              Stage(s) = IF result[s]["count"] = "saved" THEN "counted" ELSE "uncounted"
         /\ Stage(s) \in {"out", "trying", "counted", "uncounted", "granted"}
  BY DEF Stage, Trying, InUpdate

\* A scan is blind only if its reads may fail, overtaken only if some flock is refused.
HistoryHolds == blind \subseteq MayMiss /\ (Refused = {} => overtaken = {})

LEMMA HistoryStep ==
  ASSUME TypeOK, HistoryHolds, [Next]_vars
  PROVE  HistoryHolds'
<1> USE DEF HistoryHolds, history, Drops
<1>1. ASSUME NEW s \in Scans, Progress(s) PROVE HistoryHolds'
  <2>1. CASE LoadAndChange(s)
    BY <2>1 DEF LoadAndChange, Loads
  <2>2. CASE Save(s)
    BY <2>2 DEF Save, Overtakes
  <2> QED
    BY <1>1, <2>1, <2>2 DEF Progress, Check, EndUnseen, SeeFace, BeginUpdate, Acquire,
                            ProceedUnlocked, GiveUp, Match, NoMatch
<1>2. ASSUME NEW s \in Scans, Failure(s) \/ Environment(s) PROVE HistoryHolds'
  BY <1>2 DEF Failure, Environment, LockFails, SaveFails, Kill, Stop, Continue, Retry
<1>3. CASE Tick \/ TurnBack \/ Spoil \/ UNCHANGED vars
  BY <1>3 DEF Tick, TurnBack, SetClock, Spoil, vars
<1> QED
  BY <1>1, <1>2, <1>3 DEF Next

(* Every step of the code is a step of the counter, or one it cannot see.   *)
LEMMA Simulation ==
  ASSUME Refused = {}, TypeOK, SavesOnTop, HistoryHolds, [Next]_vars
  PROVE  Counter!Next \/ UNCHANGED Counter!vars
<1> USE DEF TypeOK, Goto
<1> DEFINE Hidden == UNCHANGED Counter!vars
<1>1. ASSUME NEW s \in Scans, disk' = disk, clock' = clock,
             \A r \in Scans \ {s} :
               pc'[r] = pc[r] /\ op'[r] = op[r] /\ result'[r] = result[r],
             Stage(s)' \in {"out", Stage(s)}
      PROVE  Counter!Next \/ Hidden
  <2>2. CASE Stage(s)' = Stage(s)
    BY <1>1, <2>2, StageLocal DEF disk, Counter!vars
  <2>3. CASE Stage(s)' = "out"
    <3>1. Counter!Move(s, Counter!Stages, "out")
      BY <1>1, <2>3, Moves, StageOf DEF Counter!Stages
    <3> QED
      BY <1>1, <3>1 DEF disk, Counter!Leave, Counter!Next
  <2> QED
    BY <1>1, <2>2, <2>3
<1>2. ASSUME NEW s \in Scans, Progress(s) PROVE Counter!Next \/ Hidden
  <2>1. CASE Check(s)
    <3>1. PICK state \in Loads(s) :
            pc' = [pc EXCEPT ![s] = IF CoolingDown(state, clock) THEN "failed" ELSE "scanning"]
      BY <2>1 DEF Check
    <3>2. CASE CoolingDown(state, clock)
      <4>1. pc[s] = "start" /\ pc'[s] = "failed"
        BY <2>1, <3>1, <3>2 DEF Check
      <4>2. Stage(s) = "out" /\ Stage(s)' = "out"
        BY <4>1 DEF Stage, Trying
      <4> QED
        BY <1>1, <2>1, <3>1, <4>2 DEF Check
    <3>3. CASE ~CoolingDown(state, clock)
      <4>1. pc[s] = "start" /\ pc'[s] = "scanning"
        BY <2>1, <3>1, <3>3 DEF Check
      <4>2. Stage(s) = "out" /\ Stage(s)' = "trying"
        BY <4>1 DEF Stage, Trying
      <4>3. Counter!Move(s, {"out"}, "trying")
        BY <2>1, <3>1, <4>2, Moves DEF Check
      <4>4. Counter!Shifted = Shifted
        BY DEF Counter!Shifted, Shifted
      <4>5. Counter!CoolingDown(file, clock) = CoolingDown(file, clock)
        BY <4>4 DEF Counter!CoolingDown, Counter!Elapsed, Counter!Delay, Counter!Doublings,
                    CoolingDown, Elapsed, Delay, Doublings
      <4>6. state = file \/ Counter!MayReset(s)
        BY DEF Loads, Load, Counter!MayReset
      <4>7. Counter!Pass(s)
        BY <2>1, <3>3, <4>3, <4>5, <4>6 DEF Check, disk, Counter!Pass
      <4> QED
        BY <4>7 DEF Counter!Next
    <3> QED
      BY <3>2, <3>3
  <2>2. CASE EndUnseen(s) \/ NoMatch(s)
    <3>1. Stage(s)' = "out"
      BY <2>2 DEF EndUnseen, NoMatch, Stage, Trying
    <3> QED
      BY <1>1, <2>2, <3>1 DEF EndUnseen, NoMatch
  <2>3. CASE SeeFace(s) \/ Match(s) \/ Acquire(s) \/ ProceedUnlocked(s) \/ LoadAndChange(s)
    <3>1. Stage(s)' = Stage(s)
      BY <2>3 DEF SeeFace, Match, Acquire, ProceedUnlocked, LoadAndChange, BeginUpdate,
                  Stage, Trying, InUpdate
    <3> QED
      BY <1>1, <2>3, <3>1 DEF SeeFace, Match, Acquire, ProceedUnlocked, LoadAndChange, BeginUpdate
  <2>4. CASE GiveUp(s)
    <3>1. CASE op[s] = "count"
      <4>1. Stage(s)' = "out"
        BY <2>4, <3>1 DEF GiveUp, After, Stage, Trying
      <4> QED
        BY <1>1, <2>4, <4>1 DEF GiveUp, Returns
    <3>2. CASE op[s] = "clear"
      <4>1. Stage(s) \in {"counted", "uncounted"} /\ Stage(s)' = "granted"
        BY <2>4, <3>2 DEF GiveUp, After, Stage, Trying, InUpdate
      <4>2. Counter!Move(s, {"counted", "uncounted"}, "granted")
        BY <2>4, <4>1, Moves DEF GiveUp, Returns
      <4> QED
        BY <2>4, <4>2 DEF GiveUp, disk, Counter!Grant, Counter!Next
    <3> QED
      BY <3>1, <3>2 DEF Ops
  <2>5. CASE Save(s)
    <3>1. file' = rec[s] /\ readable' = TRUE /\ clock' = clock /\ pc[s] = "changed"
      BY <2>5 DEF Save
    <3>2. CASE op[s] = "count"
      <4>1. Stage(s) = "trying" /\ Stage(s)' = "counted"
        BY <2>5, <3>2 DEF Save, After, Returns, Stage, Trying, InUpdate, Ops
      <4>2. Counter!Move(s, {"trying"}, "counted")
        BY <2>5, <4>1, Moves DEF Save, Returns
      <4>3. s \notin overtaken /\ (s \in blind => s \in MayMiss)
        BY <3>1 DEF HistoryHolds
      <4>4. PICK base \in Bases(s) : rec[s] = Counted(base, rec[s].last)
        BY <3>1, <3>2, <4>3 DEF SavesOnTop
      <4>5. base = file \/ (base = Counter!Empty /\ Counter!MayReset(s))
        BY <4>3 DEF Bases, Counter!MayReset, Counter!Empty, Empty
      <4>6. \A state, now : Counter!Counted(state, now) = Counted(state, now)
        BY DEF Counter!Counted, Counted
      <4>7. Counter!Count(s)
        BY <3>1, <4>2, <4>4, <4>5, <4>6 DEF Counter!Count, LockoutState
      <4> QED
        BY <4>7 DEF Counter!Next
    <3>3. CASE op[s] = "clear"
      <4>1. Stage(s) \in {"counted", "uncounted"} /\ Stage(s)' = "granted"
        BY <2>5, <3>3 DEF Save, After, Stage, Trying, InUpdate
      <4>2. Counter!Move(s, {"counted", "uncounted"}, "granted")
        BY <2>5, <4>1, Moves DEF Save, Returns
      <4>3. file' = Empty
        BY <3>1, <3>3 DEF SavesOnTop
      <4> QED
        BY <3>1, <4>2, <4>3 DEF Counter!Grant, Counter!Next, Counter!Empty, Empty
    <3> QED
      BY <3>2, <3>3 DEF Ops
  <2> QED
    BY <1>2, <2>1, <2>2, <2>3, <2>4, <2>5 DEF Progress
<1>3. ASSUME NEW s \in Scans, Failure(s) PROVE Counter!Next \/ Hidden
  <2>1. /\ disk' = disk /\ clock' = clock /\ op' = op
        /\ pc[s] \in {"locking", "changed"}
        /\ pc' = [pc EXCEPT ![s] = After(s, "failed")]
        /\ Returns(s, "failed")
    BY <1>3 DEF Failure, LockFails, SaveFails
  <2>2. CASE op[s] = "count"
    <3>1. Stage(s) = "trying" /\ Stage(s)' = "uncounted"
      BY <2>1, <2>2 DEF After, Returns, Stage, Trying, InUpdate, Ops
    <3>2. Counter!Move(s, {"trying"}, "uncounted")
      BY <2>1, <3>1, Moves DEF Returns
    <3> QED
      BY <2>1, <3>2 DEF disk, Counter!Uncounted, Counter!Next
  <2>3. CASE op[s] = "clear"
    <3>1. Stage(s) \in {"counted", "uncounted"} /\ Stage(s)' = "granted"
      BY <2>1, <2>3 DEF After, Stage, Trying, InUpdate
    <3>2. Counter!Move(s, {"counted", "uncounted"}, "granted")
      BY <2>1, <3>1, Moves DEF Returns
    <3> QED
      BY <2>1, <3>2 DEF disk, Counter!Grant, Counter!Next
  <2> QED
    BY <2>2, <2>3 DEF Ops
<1>4. ASSUME NEW s \in Scans, Environment(s) PROVE Counter!Next \/ Hidden
  <2>1. Stage(s)' \in {"out", Stage(s)}
    BY <1>4 DEF Environment, Kill, Stop, Continue, Retry, Stage, Trying
  <2> QED
    BY <1>1, <1>4, <2>1 DEF Environment, Kill, Stop, Continue, Retry
<1>5. CASE Tick \/ TurnBack
  <2>1. clock' \in Nat /\ disk' = disk /\ UNCHANGED <<pc, op, result>>
    BY <1>5 DEF Tick, TurnBack, SetClock
  <2>2. [r \in Scans |-> Stage(r)]' = [r \in Scans |-> Stage(r)]
    BY <2>1 DEF Stage, Trying
  <2> QED
    BY <2>1, <2>2 DEF disk, Counter!SetClock, Counter!Next
<1>6. CASE Spoil
  BY <1>6 DEF Spoil, Stage, Trying, Counter!Forget, Counter!Next
<1>7. CASE UNCHANGED vars
  BY <1>7 DEF vars, disk, Stage, Trying, Counter!vars
<1> QED
  BY <1>2, <1>3, <1>4, <1>5, <1>6, <1>7 DEF Next

(* The lockout implements the counter when no scan is refused the lock.     *)
THEOREM Implementation == ASSUME Refused = {} PROVE Spec => ImplementsCounter
<1>1. Init => Counter!Init /\ HistoryHolds
  BY DEF Init, HistoryHolds, Counter!Init, Stage, Trying, Counter!Empty, Empty
<1>2. TypeOK /\ HistoryHolds /\ [Next]_vars => HistoryHolds'
  BY HistoryStep
<1>3. TypeOK /\ SavesOnTop /\ HistoryHolds /\ [Next]_vars => [Counter!Next]_(Counter!vars)
  BY Simulation
<1> QED
  BY <1>1, <1>2, <1>3, TypeCorrect, NoLostUpdate, PTL
     DEF Spec, ImplementsCounter, Counter!Spec

-----------------------------------------------------------------------------
(* The delay.  Less is well-founded on Nat, so every set of numbers that is *)
(* not empty has a least one: what fails for some n fails for a first n.    *)
Less == {p \in Nat \X Nat : p[1] < p[2]}

LEMMA LeastNumber ==
  ASSUME NEW T \in SUBSET Nat, T # {}
  PROVE  \E least \in T : \A n \in T : least <= n
<1>1. IsWellFoundedOn(Less, Nat)
  <2>1. Less = OpToRel(<, Nat)
    BY DEF Less, OpToRel
  <2> QED
    BY <2>1, NatLessThanWellFounded
<1>2. PICK least \in T : \A n \in T : ~(<<n, least>> \in Less)
  BY <1>1, WFMin
<1>3. ASSUME NEW n \in T PROVE least <= n
  <2>1. n < least => <<n, least>> \in Less
    BY DEF Less
  <2> QED
    BY <2>1, <1>2
<1> QED
  BY <1>3

\* What Shifted's definition says of it, of a function up to top.
ShiftsTo(f, top) ==
  f = [extra \in 0..top |-> IF extra = 0 THEN BaseDelay ELSE 2 * f[extra - 1]]

(* A function that doubles exists up to any number: there is no least one   *)
(* it stops at.  So Shifted does what its definition says.                  *)
LEMMA ShiftsExist == \E f : ShiftsTo(f, MaxDoublings)
<1> DEFINE Unreached == {top \in 0..MaxDoublings : ~\E f : ShiftsTo(f, top)}
<1>1. SUFFICES ASSUME Unreached # {} PROVE FALSE
  BY PolicyAssumption
<1>2. PICK top \in Unreached : \A n \in Unreached : top <= n
  <2>1. Unreached \in SUBSET Nat
    BY PolicyAssumption
  <2> HIDE DEF Unreached
  <2> QED
    BY <1>1, <2>1, LeastNumber
<1>3. CASE top = 0
  <2> DEFINE f == [extra \in 0..0 |-> BaseDelay]
  <2>1. ShiftsTo(f, 0)
    BY DEF ShiftsTo
  <2> QED
    BY <2>1, <1>2, <1>3
<1>4. CASE top # 0
  <2>1. top - 1 \in 0..MaxDoublings /\ top - 1 \notin Unreached
    BY <1>2, <1>4, PolicyAssumption
  <2>2. PICK f : ShiftsTo(f, top - 1)
    BY <2>1
  <2> DEFINE g == [extra \in 0..top |-> IF extra = top THEN 2 * f[extra - 1] ELSE f[extra]]
  <2>3. ASSUME NEW extra \in 0..top
        PROVE  g[extra] = IF extra = 0 THEN BaseDelay ELSE 2 * g[extra - 1]
    BY <2>2, <1>4, <1>2, PolicyAssumption DEF ShiftsTo
  <2>4. ShiftsTo(g, top)
    BY <2>3 DEF ShiftsTo
  <2> QED
    BY <2>4, <1>2
<1> QED
  BY <1>3, <1>4

LEMMA ShiftedIs ==
  ASSUME NEW extra \in 0..MaxDoublings
  PROVE  Shifted[extra] = IF extra = 0 THEN BaseDelay ELSE 2 * Shifted[extra - 1]
<1>1. ShiftsTo(Shifted, MaxDoublings)
  BY ShiftsExist DEF Shifted, ShiftsTo
<1> QED
  BY <1>1 DEF ShiftsTo

(* Every shift is a number: there is no first one that is not. *)
LEMMA ShiftedType == \A extra \in 0..MaxDoublings : Shifted[extra] \in Nat
<1> DEFINE Bad == {extra \in 0..MaxDoublings : Shifted[extra] \notin Nat}
<1>1. SUFFICES ASSUME Bad # {} PROVE FALSE
  OBVIOUS
<1>2. PICK extra \in Bad : \A n \in Bad : extra <= n
  <2>1. Bad \in SUBSET Nat
    BY PolicyAssumption
  <2> HIDE DEF Bad
  <2> QED
    BY <1>1, <2>1, LeastNumber
<1>3. extra # 0
  BY <1>2, ShiftedIs, PolicyAssumption
<1>4. Shifted[extra - 1] \in Nat
  BY <1>2, <1>3, PolicyAssumption
<1> QED
  BY <1>2, <1>3, <1>4, ShiftedIs

(* One more failure never takes the shift down. *)
LEMMA ShiftedGrows ==
  ASSUME NEW extra \in 1..MaxDoublings
  PROVE  Shifted[extra - 1] <= Shifted[extra]
<1>1. extra \in 0..MaxDoublings /\ extra - 1 \in 0..MaxDoublings /\ extra # 0
  BY PolicyAssumption
<1> QED
  BY <1>1, ShiftedIs, ShiftedType

LEMMA DelayType ==
  ASSUME NEW state \in LockoutState, state.failures >= Threshold
  PROVE  Delay(state) \in Nat
<1>1. Doublings(state) \in 0..MaxDoublings
  BY PolicyAssumption DEF Doublings, LockoutState
<1> QED
  BY <1>1, ShiftedType, PolicyAssumption DEF Delay

(* A count never shortens the delay: it doubles it, or one of the three     *)
(* limits (the count's, the doublings', the delay's) leaves it as it is.    *)
LEMMA DelayGrows ==
  ASSUME NEW state \in LockoutState, NEW now \in Nat, state.failures >= Threshold
  PROVE  Delay(state) <= Delay(Counted(state, now))
<1> DEFINE next == Counted(state, now)
           d == Doublings(state)
           e == Doublings(next)
<1>1. d \in 0..MaxDoublings /\ e \in 0..MaxDoublings /\ (e = d \/ e = d + 1)
  BY PolicyAssumption DEF Doublings, Counted, LockoutState
<1>2. Shifted[d] <= Shifted[e] /\ Shifted[d] \in Nat /\ Shifted[e] \in Nat
  <2>1. CASE e = d
    BY <2>1, <1>1, ShiftedType
  <2>2. CASE e = d + 1
    <3>1. e \in 1..MaxDoublings /\ e - 1 = d
      BY <1>1, <2>2, PolicyAssumption
    <3> QED
      BY <3>1, <1>1, ShiftedGrows, ShiftedType
  <2> QED
    BY <1>1, <2>1, <2>2
<1> HIDE DEF d, e
<1>3. \A x, y \in Nat : x <= y => (IF x < MaxDelay THEN x ELSE MaxDelay)
                                    <= (IF y < MaxDelay THEN y ELSE MaxDelay)
  BY PolicyAssumption
<1> QED
  BY <1>2, <1>3 DEF Delay, d, e

-----------------------------------------------------------------------------
(* Counting on top of a state with a stamp no older than the state's never  *)
(* brings the end of its cooldown forward.                                  *)
EndOf(state) == IF state.failures < Threshold THEN 0 ELSE state.last + Delay(state)

LEMMA CountPushesBack ==
  ASSUME NEW state \in LockoutState, NEW now \in Nat, state.last <= now
  PROVE  EndOf(state) <= EndOf(Counted(state, now))
<1> DEFINE next == Counted(state, now)
<1>1. next \in LockoutState /\ next.last = now /\ next.failures >= state.failures
  BY CountedType, PolicyAssumption DEF Counted, LockoutState
<1>2. CASE state.failures < Threshold
  <2>1. EndOf(next) \in Nat
    BY <1>1, DelayType, PolicyAssumption DEF EndOf, LockoutState
  <2> QED
    BY <1>2, <2>1 DEF EndOf
<1>3. CASE state.failures >= Threshold
  <2>1. Delay(state) <= Delay(next) /\ Delay(state) \in Nat /\ Delay(next) \in Nat
    BY <1>1, <1>3, DelayGrows, DelayType, PolicyAssumption DEF LockoutState
  <2>2. ~(state.failures < Threshold) /\ ~(next.failures < Threshold)
    BY <1>1, <1>3, PolicyAssumption DEF LockoutState
  <2>3. EndOf(state) = state.last + Delay(state) /\ EndOf(next) = now + Delay(next)
    BY <1>1, <2>2 DEF EndOf
  <2>4. state.last \in Nat
    BY DEF LockoutState
  <2> QED
    BY <2>1, <2>3, <2>4
<1> QED
  BY <1>2, <1>3, PolicyAssumption DEF LockoutState

(* While the clock is never set back, no stamp is ahead of it, and a count  *)
(* is stamped no earlier than the one it goes on top of.                    *)
Stamped ==
  /\ file.last <= clock
  /\ \A s \in Scans :
       pc[s] = "changed" =>
         /\ rec[s].last <= clock
         /\ op[s] = "count" /\ s \notin overtaken => file.last <= rec[s].last

LEMMA StampedStep ==
  ASSUME ~ClockSteps, TypeOK, LockExclusive, SavesOnTop, Stamped, [Next]_vars
  PROVE  Stamped'
<1> USE DEF TypeOK, LockoutState, Stamped, Goto, disk, history
<1>1. ASSUME UNCHANGED <<file, rec, op, clock, overtaken>>,
             \A r \in Scans : pc'[r] = "changed" => pc[r] = "changed"
      PROVE  Stamped'
  BY <1>1
<1>2. ASSUME NEW s \in Scans, Progress(s) PROVE Stamped'
  <2>1. CASE Check(s) \/ EndUnseen(s) \/ NoMatch(s) \/ Acquire(s) \/ ProceedUnlocked(s)
    BY <1>1, <2>1 DEF Check, EndUnseen, NoMatch, Acquire, ProceedUnlocked
  <2>2. CASE SeeFace(s) \/ Match(s)
    BY <2>2 DEF SeeFace, Match, BeginUpdate
  <2>3. CASE GiveUp(s)
    BY <1>1, <2>3 DEF GiveUp, After
  <2>4. CASE LoadAndChange(s)
    <3>1. PICK state \in Loads(s) : rec' = [rec EXCEPT ![s] = Change(op[s], state)]
      BY <2>4 DEF LoadAndChange
    <3>2. /\ rec'[s].last <= clock
          /\ op[s] = "count" => rec'[s].last = clock
      BY <3>1 DEF Change, Counted, Empty
    <3> QED
      BY <2>4, <3>1, <3>2 DEF LoadAndChange
  <2>5. CASE Save(s)
    <3>1. file' = rec[s] /\ clock' = clock /\ op' = op /\ rec[s].last <= clock
      BY <2>5 DEF Save
    <3>2. ASSUME NEW r \in Scans, pc'[r] = "changed"
          PROVE  /\ rec'[r].last <= clock'
                 /\ op'[r] = "count" /\ r \notin overtaken' => FALSE
      <4>1. r # s /\ pc[r] = "changed" /\ pc[s] = "changed"
        BY <2>5, <3>2 DEF Save, After
      <4>2. rec'[r] = rec[r]
        BY <2>5, <4>1 DEF Save, Drops
      <4>3. r \notin overtaken' => r \notin Refused /\ s \notin Refused
        BY <2>5, <4>1 DEF Save, Overtakes
      <4> QED
        BY <3>1, <4>1, <4>2, <4>3 DEF LockExclusive, HoldsLock
    <3> QED
      BY <3>1, <3>2
  <2> QED
    BY <1>2, <2>1, <2>2, <2>3, <2>4, <2>5 DEF Progress
<1>3. ASSUME NEW s \in Scans, Failure(s) PROVE Stamped'
  BY <1>3 DEF Failure, LockFails, SaveFails, Drops, After
<1>4. ASSUME NEW s \in Scans, Environment(s) PROVE Stamped'
  BY <1>4 DEF Environment, Kill, Drops, Stop, Continue, Retry
<1>5. CASE Tick
  BY <1>5 DEF Tick, SetClock
<1>6. CASE TurnBack
  BY <1>6 DEF TurnBack
<1>7. CASE Spoil \/ UNCHANGED vars
  BY <1>1, <1>7 DEF Spoil, vars
<1> QED
  BY <1>2, <1>3, <1>4, <1>5, <1>6, <1>7 DEF Next

(* Only a save changes what is read, if the file is not spoiled, and the    *)
(* save of a count pushes the end of the cooldown back.                     *)
LEMMA CooldownStep ==
  ASSUME TypeOK, SavesOnTop, ~ClockSteps => Stamped, [Next]_vars, CooldownEnd' < CooldownEnd
  PROVE  IsSpoilt \/ \E s \in Scans : Resets(s) \/ StampsBack(s)
<1>1. CooldownEnd = EndOf(Load) /\ CooldownEnd' = EndOf(Load')
  BY DEF CooldownEnd, EndOf
<1>2. EndOf(Load) \in Nat
  BY LoadType, DelayType, PolicyAssumption DEF EndOf, LockoutState
<1>3. Load' # Load
  BY <1>1, <1>2
<1>4. SUFFICES ASSUME NEW s \in Scans, Save(s) PROVE Resets(s) \/ StampsBack(s)
  BY <1>3, LoadChanges
<1>5. Load' = rec[s] /\ file' = rec[s] /\ pc[s] = "changed" /\ rec[s] \in LockoutState
  BY <1>4, SaveCounts DEF TypeOK
<1>6. EndOf(Load') \in Nat
  BY <1>5, DelayType, PolicyAssumption DEF EndOf, LockoutState
<1>7. ASSUME Load = Empty PROVE FALSE
  <2>1. EndOf(Load) = 0
    BY <1>7, PolicyAssumption DEF EndOf, Empty
  <2> QED
    BY <1>1, <1>6, <2>1
<1>8. ASSUME ~Resets(s), readable, rec[s] = Counted(Load, rec[s].last) PROVE StampsBack(s)
  <2>1. Load = file /\ Load \in LockoutState /\ rec[s].last \in Nat /\ file.last \in Nat
    BY <1>5, <1>8, LoadType DEF Load, LockoutState
  <2>2. rec[s].last < file.last
    BY <1>1, <1>2, <1>5, <1>6, <1>8, <2>1, CountPushesBack
  <2>3. op[s] = "count" /\ s \notin overtaken
    <3>1. pc'[s] # "changed" /\ result'[s][op[s]] = "saved"
      BY <1>4 DEF TypeOK, Save, Goto, After, Returns
    <3> QED
      BY <1>5, <1>8, <3>1 DEF Resets, TypeOK, Ops
  <2>4. ClockSteps
    BY <1>5, <2>1, <2>2, <2>3 DEF Stamped
  <2> QED
    BY <1>5, <2>2, <2>4 DEF StampsBack
<1> QED
  BY <1>4, <1>7, <1>8, SaveCounts

(* Nothing brings the end of a cooldown forward but a match, a state lost   *)
(* or not read, an update without the lock or overtaken by one, and a stamp *)
(* from a clock that was set back.                                          *)
THEOREM CooldownIsKept == Spec => CooldownOnlyGrows
<1> DEFINE InTime == ~ClockSteps => Stamped
<1>1. Init => InTime
  BY DEF Init, Stamped, Empty
<1>2. TypeOK /\ LockExclusive /\ SavesOnTop /\ InTime /\ [Next]_vars => InTime'
  BY StampedStep
<1>3. TypeOK /\ SavesOnTop /\ InTime /\ [Next]_vars
        => [CooldownEnd' < CooldownEnd =>
              IsSpoilt \/ \E s \in Scans : Resets(s) \/ StampsBack(s)]_vars
  BY CooldownStep
<1> QED
  BY <1>1, <1>2, <1>3, TypeCorrect, LockIsExclusive, NoLostUpdate, PTL
     DEF Spec, CooldownOnlyGrows

-----------------------------------------------------------------------------
(* The bound on a burst: time can only end a cooldown.                      *)
LEMMA CoolingEnds ==
  ASSUME NEW state \in LockoutState, NEW now \in Nat, NEW later \in Nat,
         now <= later, CoolingDown(state, later)
  PROVE  CoolingDown(state, now)
<1>1. Delay(state) \in Int
  BY DelayType DEF CoolingDown
<1>2. Elapsed(state, now) <= Elapsed(state, later)
      /\ Elapsed(state, now) \in Nat /\ Elapsed(state, later) \in Nat
  BY DEF Elapsed, LockoutState
<1> QED
  BY <1>1, <1>2 DEF CoolingDown

LEMMA EmptyIsWarm == ASSUME NEW now PROVE ~CoolingDown(Empty, now)
  BY PolicyAssumption DEF CoolingDown, Empty

LEMMA InFlightFinite ==
  /\ IsFiniteSet(InFlight) /\ Cardinality(InFlight) \in Nat
  /\ Cardinality(Scans) \in Nat
<1>1. InFlight \subseteq Scans
  BY DEF InFlight
<1> QED
  BY <1>1, ScansAssumption, FS_Subset, FS_CardinalityType

\* The part of SavesOnTop that does not need the lock.
ClearsSaveEmpty ==
  \A s \in Scans : pc[s] = "changed" /\ op[s] = "clear" => rec[s] = Empty

(* A match always saves the empty state. *)
LEMMA ClearsSaveEmptyStep ==
  ASSUME TypeOK, ClearsSaveEmpty, [Next]_vars
  PROVE  ClearsSaveEmpty'
<1> USE DEF TypeOK, ClearsSaveEmpty, Goto, Drops
<1>1. ASSUME NEW s \in Scans, Progress(s) PROVE ClearsSaveEmpty'
  BY <1>1 DEF Progress, Check, EndUnseen, SeeFace, BeginUpdate, Acquire, ProceedUnlocked,
              GiveUp, LoadAndChange, Change, Save, Match, NoMatch, After
<1>2. ASSUME NEW s \in Scans, Failure(s) PROVE ClearsSaveEmpty'
  BY <1>2 DEF Failure, LockFails, SaveFails, After
<1>3. ASSUME NEW s \in Scans, Environment(s) PROVE ClearsSaveEmpty'
  BY <1>3 DEF Environment, Kill, Stop, Continue, Retry
<1>4. CASE Tick \/ TurnBack \/ Spoil \/ UNCHANGED vars
  BY <1>4 DEF Tick, TurnBack, SetClock, Spoil, vars
<1> QED
  BY <1>1, <1>2, <1>3, <1>4 DEF Next

(* No step but a count starts a cooldown, and a count takes its own scan    *)
(* out of flight; no scan that read the state enters flight during one.     *)
LEMMA BurstStep ==
  ASSUME ~ClockSteps, TypeOK, ClearsSaveEmpty, BurstBound, [Next]_vars
  PROVE  BurstBound'
<1> USE DEF TypeOK, BurstBound, Goto, disk, history
<1>1. ASSUME UNCHANGED <<disk, clock, burst>>, InFlight' \subseteq InFlight
      PROVE  BurstBound'
  <2>1. Cardinality(InFlight') <= Cardinality(InFlight) /\ Cardinality(InFlight') \in Nat
    BY <1>1, InFlightFinite, FS_Subset, FS_CardinalityType
  <2> QED
    BY <1>1, <2>1, InFlightFinite DEF Load
<1>2. ASSUME NEW s \in Scans, Progress(s) PROVE BurstBound'
  <2>1. CASE Check(s)
    <3>1. CASE CoolingDown(Load, clock)
      <4>1. PICK state \in Loads(s) :
              /\ pc' = [pc EXCEPT ![s] = IF CoolingDown(state, clock) THEN "failed"
                                                                       ELSE "scanning"]
              /\ unchecked' = IF ~CoolingDown(state, clock) THEN unchecked \cup {s}
                                                            ELSE unchecked
        BY <2>1, <3>1 DEF Check
      <4>2. InFlight' \subseteq InFlight
        BY <2>1, <4>1 DEF Check, InFlight, Trying, InUpdate
      <4> QED
        BY <1>1, <2>1, <4>2 DEF Check
    <3>2. CASE ~CoolingDown(Load, clock)
      BY <2>1, <3>2 DEF Check, Load
    <3> QED
      BY <3>1, <3>2
  <2>2. CASE Save(s)
    <3>1. Load' = rec[s] /\ clock' = clock /\ pc[s] = "changed" /\ unchecked' = unchecked
      BY <2>2 DEF Save, Load
    <3>2. SUFFICES ASSUME CoolingDown(rec[s], clock)
                   PROVE  burst' + Cardinality(InFlight') < Cardinality(Scans)
      BY <3>1
    <3>3. op[s] = "count"
      BY <3>1, <3>2, EmptyIsWarm DEF ClearsSaveEmpty, Ops
    <3>4. InFlight' = InFlight \ {s} /\ (s \notin unchecked => s \in InFlight)
      BY <2>2, <3>3 DEF Save, After, InFlight, Trying, InUpdate
    <3>5. CASE CoolingDown(Load, clock) /\ s \in unchecked
      <4>1. InFlight' = InFlight /\ burst' = burst
        BY <2>2, <3>2, <3>4, <3>5 DEF Save, InFlight, Trying
      <4> QED
        BY <3>5, <4>1
    <3>6. CASE CoolingDown(Load, clock) /\ s \notin unchecked
      <4>1. Cardinality(InFlight') = Cardinality(InFlight) - 1
        BY <3>4, <3>6, InFlightFinite, FS_RemoveElement
      <4> QED
        BY <2>2, <3>2, <3>6, <4>1, InFlightFinite DEF Save
    <3>7. CASE ~CoolingDown(Load, clock)
      <4>1. Cardinality(Scans \ {s}) = Cardinality(Scans) - 1 /\ IsFiniteSet(Scans \ {s})
        BY ScansAssumption, FS_RemoveElement
      <4>2. InFlight' \subseteq Scans \ {s}
        BY <3>4 DEF InFlight, Trying
      <4>3. Cardinality(InFlight') <= Cardinality(Scans \ {s})
            /\ Cardinality(InFlight') \in Nat
        BY <4>1, <4>2, FS_Subset, FS_CardinalityType
      <4> QED
        BY <2>2, <3>7, <4>1, <4>3, InFlightFinite DEF Save
    <3> QED
      BY <3>5, <3>6, <3>7
  <2>3. CASE SeeFace(s) \/ EndUnseen(s) \/ Match(s) \/ NoMatch(s)
    BY <1>1, <2>3 DEF SeeFace, EndUnseen, Match, NoMatch, BeginUpdate, InFlight, Trying, InUpdate
  <2>4. CASE Acquire(s) \/ ProceedUnlocked(s) \/ GiveUp(s) \/ LoadAndChange(s)
    BY <1>1, <2>4 DEF Acquire, ProceedUnlocked, GiveUp, LoadAndChange, After, InFlight,
                      Trying, InUpdate
  <2> QED
    BY <1>2, <2>1, <2>2, <2>3, <2>4 DEF Progress
<1>3. ASSUME NEW s \in Scans, Failure(s) PROVE BurstBound'
  BY <1>1, <1>3 DEF Failure, LockFails, SaveFails, After, InFlight, Trying, InUpdate
<1>4. ASSUME NEW s \in Scans, Environment(s) PROVE BurstBound'
  BY <1>1, <1>4 DEF Environment, Kill, Stop, Continue, Retry, Finished, InFlight, Trying, InUpdate
<1>5. CASE Tick
  <2>1. InFlight' = InFlight /\ Load' = Load /\ clock' = clock + 1
    BY <1>5 DEF Tick, SetClock, InFlight, Trying, Load
  <2>2. CoolingDown(Load, clock + 1) => CoolingDown(Load, clock) /\ burst' = burst
    BY <1>5, CoolingEnds, LoadType DEF Tick, SetClock
  <2> QED
    BY <2>1, <2>2
<1>6. CASE TurnBack
  BY <1>6 DEF TurnBack
<1>7. CASE Spoil
  <2>1. Load' = Empty
    BY <1>7 DEF Spoil, Load
  <2> QED
    BY <2>1, EmptyIsWarm
<1>8. CASE UNCHANGED vars
  BY <1>1, <1>8 DEF vars, InFlight, Trying
<1> QED
  BY <1>2, <1>3, <1>4, <1>5, <1>6, <1>7, <1>8 DEF Next

(* While a cooldown lasts, the attempts added to it and those still to come *)
(* are fewer than the scans, those whose read of the state failed left out, *)
(* if the clock is never set back; this holds with or without the flock.    *)
THEOREM BurstIsBounded == ASSUME ~ClockSteps PROVE Spec => []BurstBound
<1>1. Init => BurstBound /\ ClearsSaveEmpty
  BY EmptyIsWarm DEF Init, BurstBound, ClearsSaveEmpty, Load
<1>2. TypeOK /\ ClearsSaveEmpty /\ [Next]_vars => ClearsSaveEmpty'
  BY ClearsSaveEmptyStep
<1>3. TypeOK /\ ClearsSaveEmpty /\ BurstBound /\ [Next]_vars => BurstBound'
  BY BurstStep
<1> QED
  BY <1>1, <1>2, <1>3, TypeCorrect, PTL DEF Spec
=============================================================================
