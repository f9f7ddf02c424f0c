------------------------------ MODULE Helper_proofs ------------------------------
(***************************************************************************)
(* What holds of the PAM helper for any configuration files and requests,  *)
(* and however the surroundings change under it; and of the user's overlay *)
(* for any two files.                                                      *)
(***************************************************************************)
EXTENDS Helper, SequenceTheorems, TLAPS

-----------------------------------------------------------------------------
(* The invariant. *)

Granted == exit = "granted"
Started == {"threads", "prompt", "scan", "erase", "verdict", "ask", "asked", "read",
            "restore"}
Asking  == {"ask", "asked", "read", "restore"}

\* Nothing runs beside main before the last gate, nor has a scan ended.
Early ==
  pc \in {"pre_scan", "config", "seat", "session", "skip"} =>
    pre = "off" /\ cam = "off" /\ models = "off" /\ result = "none"

\* What is open now has been open.
Seen == OpenNow \subseteq ever

\* What main has seen when it is past a gate.
PastMain ==
  /\ pc \notin {"pre_scan", "exit"} \/ Granted =>
       request.account = "known" /\ request.caller # "other" /\ ~request.remote
  /\ seatRead \in {"target", "greeter", "no_logind"} => "seat" \in ever
  /\ pc = "session" => seatRead # "none"
  /\ (pc \in Started \cup {"skip"} \/ Granted) /\ On(config, "seat_check") =>
       "seat" \in ever
  /\ pc \in Started \/ Granted =>
       /\ On(config, "abort_if_ssh") => ~UnderSsh
       /\ On(config, "abort_if_lid_closed") => "lid" \in ever

\* What the preparation has seen when it is past a gate.
PastPin     == {"binding", "lockout", "device", "store", "stored", "failing", "ok", "locked"}
PastBinding == PastPin \ {"binding"}
PastLockout == {"device", "store", "stored", "failing", "ok"}

PastPrelude ==
  /\ pre \in PastPin /\ On(config, "pinned") =>
       "pin" \in ever /\ (world.plugged = PinnedCamera \/ moved)
  /\ pre \in PastBinding /\ On(config, "bind_camera") => "binding" \in ever
  /\ pre \in PastLockout => "not_locked" \in ever
  /\ pre \in {"stored", "ok"} => "templates" \in ever
  /\ cam \in {"opening", "on"} => "templates" \in ever

\* Where main, the preparation and the camera are while another of them runs.
Threads ==
  /\ pre \notin {"off", "ok", "locked", "error"} => pc = "threads"
  /\ models = "loading" => pc = "threads"
  /\ pc = "threads" => pre # "off" /\ models # "off"
  /\ cam = "opening" => pre \in {"store", "stored", "failing"}
  /\ cam = "on" => pre \in {"store", "stored", "failing", "ok"}
  /\ cam = "failed" => pre \in {"store", "stored", "failing", "error"}
  /\ cam = "on" => pc \in {"threads", "prompt", "scan"}

\* The start delay.
Delayed ==
  /\ pre \notin {"off", "gate", "sleep"} /\ request.age >= 0 =>
       clock + request.age >= Delay
  /\ pre = "sleep" => request.age >= 0 /\ wake = Delay - request.age

\* A match, on its way to the exit.
Matched ==
  /\ pc \in Started \ {"threads"} => models = "ok" /\ pre \in {"ok", "locked", "error"}
  /\ result = "match" => pre = "ok" /\ models = "ok"
  /\ pc \in Asking => result = "match" /\ MustConfirm
  /\ Granted => result = "match"

\* The terminal, and what was typed on it.
Terminal ==
  /\ shown => pc \in {"scan", "erase"}
  /\ raw => pc \in {"read", "restore"}
  /\ pc = "read" => \A i \in 1..Len(keys) : keys[i].asked
  /\ pc \notin {"restore", "exit"} => pressed = NoKey
  /\ pressed.enter => pressed.asked
  /\ Granted /\ MustConfirm /\ request.tty => pressed.enter

IInv == /\ TypeOK /\ Early /\ Seen /\ PastMain /\ PastPrelude /\ Threads /\ Delayed /\ Matched
        /\ Terminal /\ OverlayNarrows /\ PinHolds

-----------------------------------------------------------------------------
(* The configuration. *)

(* An overlay of two configurations is one, weaker in nothing than the first; *)
(* and it is as good as the first.                                            *)
LEMMA OverlayNarrower ==
  ASSUME NEW base \in Configs, NEW own \in Configs, Valid(base)
  PROVE  /\ WithUserOverlay(base, own) \in Configs
         /\ NeverWeaker(base, WithUserOverlay(base, own))
         /\ Valid(WithUserOverlay(base, own))
<1> DEFINE over == WithUserOverlay(base, own)
<1>1. over \in Configs
  BY DEF WithUserOverlay, Configs
<1>2. \A s \in Policies : over[s] = base[s]
  BY DEF WithUserOverlay, Configs, Honours, Settings, Floors, Timings, Policies
<1>3. ASSUME NEW s \in Floors
      PROVE  Value(over, s) >= Value(base, s) /\ Value(over, s) \in Lo[s]..Hi[s]
  <2>1. s \in Settings /\ s \notin Timings
        /\ s \notin Clamped /\ s # "lockout_threshold"
    BY <1>3 DEF Floors, Clamped, Timings, Settings
  <2>2. Lo[s] \in Int /\ Hi[s] \in Int
    BY <1>3 DEF Floors, Lo, Hi
  <2>3. Value(base, s) \in Lo[s]..Hi[s]
    BY <1>3 DEF Valid
  <2>4. CASE Honours(base, own, s)
    <3>1. own[s] \in Lo[s]..Hi[s] /\ own[s] >= Value(base, s)
      BY <2>1, <2>4 DEF Honours, InRange
    <3>2. over[s] = own[s] /\ own[s] # Unset
      BY <2>1, <2>4 DEF WithUserOverlay, Honours
    <3>3. Value(over, s) = own[s]
      BY <2>1, <3>2 DEF Value
    <3> QED
      BY <3>1, <3>3
  <2>5. CASE ~Honours(base, own, s)
    <3>1. over[s] = base[s]
      BY <2>1, <2>5 DEF WithUserOverlay
    <3>2. Value(over, s) = Value(base, s)
      BY <3>1 DEF Value
    <3> QED
      BY <2>2, <2>3, <3>2
  <2> QED
    BY <2>4, <2>5
<1> QED
  BY <1>1, <1>2, <1>3 DEF NeverWeaker, Valid

(* A file folds to a configuration, whatever it holds. *)
LEMMA FoldsToConfig == ASSUME NEW file \in Files PROVE FoldSections(file) \in Configs
<1>1. file.flat \in Configs /\ file.group \in Configs
  BY DEF Files
<1>2. \A s \in Settings : FromPreset(file, s) \in Int \cup {Unset}
  BY DEF FromPreset, Presets, Motion, Residual
<1> QED
  BY <1>1, <1>2 DEF FoldSections, Configs

(* What is loaded for a run, from any two files. *)
LEMMA LoadNarrows ==
  ASSUME NEW sys \in Files, NEW own \in Files, Loads(sys)
  PROVE  /\ LoadForAuth(sys, own) \in Configs
         /\ NeverWeaker(FoldSections(sys), LoadForAuth(sys, own))
         /\ Valid(LoadForAuth(sys, own))
<1>1. FoldSections(sys) \in Configs /\ FoldSections(own) \in Configs
  BY FoldsToConfig
<1>2. Valid(FoldSections(sys))
  BY DEF Loads
<1>3. CASE Parses(own)
  BY <1>1, <1>2, <1>3, OverlayNarrower DEF LoadForAuth
<1>4. CASE ~Parses(own)
  <2>1. \A s \in Floors : Value(FoldSections(sys), s) \in Int
    <3>1. \A s \in Floors : Lo[s] \in Int /\ Hi[s] \in Int
      BY DEF Floors, Lo, Hi
    <3> QED
      BY <1>2, <3>1 DEF Valid
  <2> QED
    BY <1>1, <1>2, <1>4, <2>1 DEF LoadForAuth, NeverWeaker
<1> QED
  BY <1>3, <1>4

-----------------------------------------------------------------------------
(* The steps. *)

(* The start delay is a time, for any configuration. *)
LEMMA DelayNat == config \in Configs => Delay \in Nat
<1> SUFFICES ASSUME config \in Configs PROVE Value(config, "start_delay") \in Nat
  BY DEF Delay
<1>1. config["start_delay"] \in Int \cup {Unset}
  BY DEF Configs, Settings, Policies
<1>2. /\ "start_delay" \in Clamped /\ Default["start_delay"] = 20
      /\ Lo["start_delay"] = 0 /\ Hi["start_delay"] = 100
  BY DEF Clamped, Default, Lo, Hi
<1>3. config["start_delay"] # Unset => Clamp(config["start_delay"], 0, 100) \in Nat
  BY <1>1 DEF Clamp
<1> QED
  BY <1>2, <1>3 DEF Value

(* Nothing starts before the last gate of main. *)
LEMMA EarlyStep == TypeOK /\ Early /\ [Next]_vars => Early'
<1> SUFFICES ASSUME TypeOK, Early, [Next]_vars PROVE Early'
  OBVIOUS
<1> USE DEF TypeOK, Early, given, terminal, threads, history
<1>1. CASE PreScan
  BY <1>1 DEF PreScan, Exit
<1>2. CASE LoadConfig
  BY <1>2 DEF LoadConfig, Exit
<1>3. CASE ReadSeat
  BY <1>3 DEF ReadSeat, Exit
<1>4. CASE ReadSession
  BY <1>4 DEF ReadSession, Exit
<1>5. CASE SessionGone
  BY <1>5 DEF SessionGone, Exit
<1>6. CASE Skip
  BY <1>6 DEF Skip, Exit
<1>7. CASE Joined
  BY <1>7 DEF Joined, Exit
<1>8. CASE ShowPrompt
  BY <1>8 DEF ShowPrompt
<1>9. CASE Scan
  BY <1>9 DEF Scan
<1>10. CASE Erase
  BY <1>10 DEF Erase
<1>11. CASE Verdict
  BY <1>11 DEF Verdict, Exit
<1>12. CASE Ask
  BY <1>12 DEF Ask, Exit
<1>13. CASE TerminalFails
  BY <1>13 DEF TerminalFails, Exit
<1>14. CASE RawMode
  BY <1>14 DEF RawMode
<1>15. CASE ReadKey
  BY <1>15 DEF ReadKey
<1>16. CASE NoAnswer
  BY <1>16 DEF NoAnswer
<1>17. CASE Restore
  BY <1>17 DEF Restore, Exit
<1>18. CASE ModelsLoad
  BY <1>18 DEF ModelsLoad
<1>19. CASE StartDelay
  BY <1>19 DEF StartDelay, Prelude
<1>20. CASE Wake
  BY <1>20 DEF Wake, Prelude
<1>21. CASE VerifyPin
  BY <1>21 DEF VerifyPin
<1>22. CASE CheckBinding
  BY <1>22 DEF CheckBinding, Prelude
<1>23. CASE CheckLockout
  BY <1>23 DEF CheckLockout, Prelude
<1>24. CASE Resolve
  BY <1>24 DEF Resolve, Prelude
<1>25. CASE StoreLoads
  BY <1>25 DEF StoreLoads, Prelude
<1>26. CASE Join
  BY <1>26 DEF Join, Prelude
<1>27. CASE CameraOpens
  BY <1>27 DEF CameraOpens, Prelude
<1>28. CASE Tick
  BY <1>28 DEF Tick
<1>29. CASE SwitchSeat
  BY <1>29 DEF SwitchSeat, Changes
<1>30. CASE MoveLid
  BY <1>30 DEF MoveLid, Changes
<1>31. CASE MoveCamera
  BY <1>31 DEF MoveCamera, Changes
<1>32. CASE MoveLockout
  BY <1>32 DEF MoveLockout, Changes
<1>33. CASE MoveTemplates
  BY <1>33 DEF MoveTemplates, Changes
<1>34. CASE TypeKey
  BY <1>34 DEF TypeKey
<1>90. CASE UNCHANGED vars
  BY <1>90 DEF vars
<1> QED
  BY <1>90, <1>1, <1>2, <1>3, <1>4, <1>5, <1>6, <1>7, <1>8, <1>9, <1>10, <1>11, <1>12,
     <1>13, <1>14, <1>15, <1>16, <1>17, <1>18, <1>19, <1>20, <1>21, <1>22, <1>23, <1>24,
     <1>25, <1>26, <1>27, <1>28, <1>29, <1>30, <1>31, <1>32, <1>33, <1>34
  DEF Next, Main, Preparation, Surroundings

(* The threads end before main goes on. *)
LEMMA ThreadsStep == TypeOK /\ Early /\ Threads /\ Matched /\ [Next]_vars => Threads'
<1> SUFFICES ASSUME TypeOK, Early, Threads, Matched, [Next]_vars PROVE Threads'
  OBVIOUS
<1> USE DEF TypeOK, Early, Threads, Matched, Started, Asking, given, terminal, threads, history
<1>1. CASE PreScan
  BY <1>1 DEF PreScan, Exit
<1>2. CASE LoadConfig
  BY <1>2 DEF LoadConfig, Exit
<1>3. CASE ReadSeat
  BY <1>3 DEF ReadSeat, Exit
<1>4. CASE ReadSession
  BY <1>4 DEF ReadSession, Exit
<1>5. CASE SessionGone
  BY <1>5 DEF SessionGone, Exit
<1>6. CASE Skip
  BY <1>6 DEF Skip, Exit
<1>7. CASE Joined
  BY <1>7 DEF Joined, Exit
<1>8. CASE ShowPrompt
  BY <1>8 DEF ShowPrompt
<1>9. CASE Scan
  BY <1>9 DEF Scan
<1>10. CASE Erase
  BY <1>10 DEF Erase
<1>11. CASE Verdict
  BY <1>11 DEF Verdict, Exit
<1>12. CASE Ask
  BY <1>12 DEF Ask, Exit
<1>13. CASE TerminalFails
  BY <1>13 DEF TerminalFails, Exit
<1>14. CASE RawMode
  BY <1>14 DEF RawMode
<1>15. CASE ReadKey
  BY <1>15 DEF ReadKey
<1>16. CASE NoAnswer
  BY <1>16 DEF NoAnswer
<1>17. CASE Restore
  BY <1>17 DEF Restore, Exit
<1>18. CASE ModelsLoad
  BY <1>18 DEF ModelsLoad
<1>19. CASE StartDelay
  BY <1>19 DEF StartDelay, Prelude
<1>20. CASE Wake
  BY <1>20 DEF Wake, Prelude
<1>21. CASE VerifyPin
  BY <1>21 DEF VerifyPin
<1>22. CASE CheckBinding
  BY <1>22 DEF CheckBinding, Prelude
<1>23. CASE CheckLockout
  BY <1>23 DEF CheckLockout, Prelude
<1>24. CASE Resolve
  BY <1>24 DEF Resolve, Prelude
<1>25. CASE StoreLoads
  BY <1>25 DEF StoreLoads, Prelude
<1>26. CASE Join
  BY <1>26 DEF Join, Prelude
<1>27. CASE CameraOpens
  BY <1>27 DEF CameraOpens, Prelude
<1>28. CASE Tick
  BY <1>28 DEF Tick
<1>29. CASE SwitchSeat
  BY <1>29 DEF SwitchSeat, Changes
<1>30. CASE MoveLid
  BY <1>30 DEF MoveLid, Changes
<1>31. CASE MoveCamera
  BY <1>31 DEF MoveCamera, Changes
<1>32. CASE MoveLockout
  BY <1>32 DEF MoveLockout, Changes
<1>33. CASE MoveTemplates
  BY <1>33 DEF MoveTemplates, Changes
<1>34. CASE TypeKey
  BY <1>34 DEF TypeKey
<1>90. CASE UNCHANGED vars
  BY <1>90 DEF vars
<1> QED
  BY <1>90, <1>1, <1>2, <1>3, <1>4, <1>5, <1>6, <1>7, <1>8, <1>9, <1>10, <1>11, <1>12,
     <1>13, <1>14, <1>15, <1>16, <1>17, <1>18, <1>19, <1>20, <1>21, <1>22, <1>23, <1>24,
     <1>25, <1>26, <1>27, <1>28, <1>29, <1>30, <1>31, <1>32, <1>33, <1>34
  DEF Next, Main, Preparation, Surroundings

(* What stands open now has been open in this run. *)
LEMMA SeenGates ==
  Seen => /\ request.account = "known" => "account" \in ever
          /\ request.caller \in {"root", "target"} => "caller" \in ever
          /\ ~request.remote => "local" \in ever
          /\ ~UnderSsh => "no_ssh" \in ever
          /\ world.seat \in {"target", "greeter", "no_logind"} => "seat" \in ever
          /\ ~world.closed \/ world.plugged \in External => "lid" \in ever
          /\ world.plugged = PinnedCamera => "pin" \in ever
          /\ EnrolledOn = {} \/ world.plugged \in EnrolledOn => "binding" \in ever
          /\ ~world.locked => "not_locked" \in ever
          /\ world.templates => "templates" \in ever
<1> SUFFICES ASSUME Seen, NEW g \in Gates, Open(g) PROVE g \in ever
  BY DEF Open, Gates
<1> QED
  BY DEF Seen, OpenNow

(* The delay of a run is that of its configuration and its request. *)
LEMMA DelayKept == UNCHANGED <<request, config>> => Delay' = Delay
  BY DEF Delay

(* The surroundings stay what they may be. *)
LEMMA WorldStep == TypeOK /\ [Next]_vars => world' \in AnyWorld
<1> SUFFICES ASSUME TypeOK, [Next]_vars PROVE world' \in AnyWorld
  OBVIOUS
<1>1. world \in AnyWorld
  BY DEF TypeOK
<1>2. CASE UNCHANGED world
  BY <1>1, <1>2
<1>3. CASE SwitchSeat
  <2>1. PICK to \in Seats : world' = [world EXCEPT !.seat = to]
    BY <1>3 DEF SwitchSeat
  <2> QED
    BY <1>1, <2>1 DEF AnyWorld
<1>4. CASE MoveLid
  BY <1>1, <1>4 DEF MoveLid, AnyWorld
<1>5. CASE MoveCamera
  <2>1. PICK to \in Cameras \cup {NoCamera} : world' = [world EXCEPT !.plugged = to]
    BY <1>5 DEF MoveCamera
  <2> QED
    BY <1>1, <2>1 DEF AnyWorld
<1>6. CASE MoveLockout
  BY <1>1, <1>6 DEF MoveLockout, AnyWorld
<1>7. CASE MoveTemplates
  BY <1>1, <1>7 DEF MoveTemplates, AnyWorld
<1>8. SwitchSeat \/ MoveLid \/ MoveCamera \/ MoveLockout \/ MoveTemplates \/ UNCHANGED world
  BY DEF Next, Main, Preparation, Surroundings, vars, given, terminal, threads, history, Prelude,
    PreScan, LoadConfig, ReadSeat, ReadSession, SessionGone, Skip, Joined, ShowPrompt, Scan, Erase, Verdict, Ask, TerminalFails, RawMode, ReadKey, NoAnswer, Restore, ModelsLoad, StartDelay, Wake, VerifyPin, CheckBinding, CheckLockout, Resolve, StoreLoads, Join, CameraOpens, Tick, TypeKey
<1> QED
  BY <1>2, <1>3, <1>4, <1>5, <1>6, <1>7, <1>8

(* Every step keeps the variables within their types. *)
LEMMA TypeStep == TypeOK /\ Early /\ Threads /\ Matched /\ [Next]_vars => TypeOK'
<1> SUFFICES ASSUME TypeOK, Early, Threads, Matched, [Next]_vars PROVE TypeOK'
  OBVIOUS
<1> USE HelperAssumption, DelayNat
<1>0. Loads(system) => LoadForAuth(system, user) \in Configs
  BY LoadNarrows DEF TypeOK
<1>00. /\ request.tty \in BOOLEAN /\ request.age \in Int
       /\ world.seat \in Seats /\ world.plugged \in Cameras \cup {NoCamera}
       /\ world.templates \in BOOLEAN
  BY DEF TypeOK, AnyRequest, AnyWorld
<1> USE <1>00
<1>c. ASSUME Changes, moved' \in BOOLEAN PROVE TypeOK'
  <2>1. world' \in AnyWorld
    BY WorldStep
  <2>2. OpenNow' \subseteq Gates
    BY DEF OpenNow
  <2>3. ever' \subseteq Gates
    BY <1>c, <2>2 DEF Changes, TypeOK
  <2>4. changes' \in 0..MaxChanges
    BY <1>c DEF Changes, TypeOK
  <2> QED
    BY <2>1, <2>3, <2>4, <1>c DEF Changes, TypeOK, given, terminal, threads
<1> USE DEF TypeOK, given, terminal, threads, history
<1>1. CASE PreScan
  BY <1>1 DEF PreScan, Exit
<1>2. CASE LoadConfig
  BY <1>2, <1>0 DEF LoadConfig, Exit, Exit
<1>3. CASE ReadSeat
  BY <1>3 DEF ReadSeat, Exit
<1>4. CASE ReadSession
  BY <1>4 DEF ReadSession, Exit
<1>5. CASE SessionGone
  BY <1>5 DEF SessionGone, Exit
<1>6. CASE Skip
  BY <1>6 DEF Skip, Exit
<1>7. CASE Joined
  BY <1>7 DEF Joined, Exit
<1>8. CASE ShowPrompt
  BY <1>8 DEF ShowPrompt
<1>9. CASE Scan
  BY <1>9 DEF Scan, Verdicts
<1>10. CASE Erase
  <2>1. shown' \in BOOLEAN
    BY <1>10, Zenon DEF Erase
  <2> QED
    BY <2>1, <1>10 DEF Erase
<1>11. CASE Verdict
  BY <1>11 DEF Verdict, Exit
<1>12. CASE Ask
  BY <1>12 DEF Ask, Exit
<1>13. CASE TerminalFails
  BY <1>13 DEF TerminalFails, Exit
<1>14. CASE RawMode
  BY <1>14 DEF RawMode
<1>15. CASE ReadKey
  BY <1>15 DEF ReadKey
<1>16. CASE NoAnswer
  BY <1>16 DEF NoAnswer
<1>17. CASE Restore
  <2>1. raw' \in BOOLEAN
    BY <1>17, Zenon DEF Restore
  <2> QED
    BY <2>1, <1>17 DEF Restore, Exit
<1>18. CASE ModelsLoad
  BY <1>18 DEF ModelsLoad
<1>19. CASE StartDelay
  BY <1>19 DEF StartDelay, Prelude
<1>20. CASE Wake
  BY <1>20 DEF Wake, Prelude
<1>21. CASE VerifyPin
  <2>1. moved' \in BOOLEAN
    BY <1>21, Zenon DEF VerifyPin
  <2> QED
    BY <2>1, <1>21 DEF VerifyPin
<1>22. CASE CheckBinding
  BY <1>22 DEF CheckBinding, Prelude
<1>23. CASE CheckLockout
  BY <1>23 DEF CheckLockout, Prelude
<1>24. CASE Resolve
  BY <1>24 DEF Resolve, Prelude, Prelude, Threads
<1>25. CASE StoreLoads
  BY <1>25 DEF StoreLoads, Prelude
<1>26. CASE Join
  BY <1>26 DEF Join, Prelude
<1>27. CASE CameraOpens
  BY <1>27 DEF CameraOpens, Prelude
<1>28. CASE Tick
  BY <1>28 DEF Tick
<1>29. CASE SwitchSeat
  BY <1>29, <1>c DEF SwitchSeat
<1>30. CASE MoveLid
  BY <1>30, <1>c DEF MoveLid
<1>31. CASE MoveCamera
  BY <1>31, <1>c DEF MoveCamera
<1>32. CASE MoveLockout
  BY <1>32, <1>c DEF MoveLockout
<1>33. CASE MoveTemplates
  BY <1>33, <1>c DEF MoveTemplates
<1>34. CASE TypeKey
  <2>1. PICK enter \in BOOLEAN : keys' = Append(keys, [enter |-> enter, asked |-> pc \in {"asked", "read"}])
    BY <1>34 DEF TypeKey
  <2> DEFINE key == [enter |-> enter, asked |-> pc \in {"asked", "read"}]
  <2>2. key \in Key
    BY DEF Key
  <2>3. keys' \in Seq(Key)
    BY <2>1, <2>2, AppendProperties
  <2> QED
    BY <2>3, <1>34 DEF TypeKey
<1>90. CASE UNCHANGED vars
  BY <1>90 DEF vars
<1> QED
  BY <1>90, <1>1, <1>2, <1>3, <1>4, <1>5, <1>6, <1>7, <1>8, <1>9, <1>10, <1>11, <1>12,
     <1>13, <1>14, <1>15, <1>16, <1>17, <1>18, <1>19, <1>20, <1>21, <1>22, <1>23, <1>24,
     <1>25, <1>26, <1>27, <1>28, <1>29, <1>30, <1>31, <1>32, <1>33, <1>34
  DEF Next, Main, Preparation, Surroundings

(* The configuration is loaded once. *)
LEMMA OverlayStep == TypeOK /\ OverlayNarrows /\ [Next]_vars => OverlayNarrows'
<1> SUFFICES ASSUME TypeOK, OverlayNarrows, [Next]_vars PROVE OverlayNarrows'
  OBVIOUS
<1> USE DEF OverlayNarrows, given, terminal, threads, history
<1>1. CASE PreScan
  BY <1>1 DEF PreScan, Exit
<1>2. CASE LoadConfig
  <2>1. CASE Loads(system)
    BY <2>1, <1>2, LoadNarrows, HelperAssumption DEF TypeOK, LoadConfig
  <2>2. CASE ~Loads(system)
    BY <2>2, <1>2 DEF LoadConfig
  <2> QED
    BY <2>1, <2>2
<1>3. CASE ReadSeat
  BY <1>3 DEF ReadSeat, Exit
<1>4. CASE ReadSession
  BY <1>4 DEF ReadSession, Exit
<1>5. CASE SessionGone
  BY <1>5 DEF SessionGone, Exit
<1>6. CASE Skip
  BY <1>6 DEF Skip, Exit
<1>7. CASE Joined
  BY <1>7 DEF Joined, Exit
<1>8. CASE ShowPrompt
  BY <1>8 DEF ShowPrompt
<1>9. CASE Scan
  BY <1>9 DEF Scan
<1>10. CASE Erase
  BY <1>10 DEF Erase
<1>11. CASE Verdict
  BY <1>11 DEF Verdict, Exit
<1>12. CASE Ask
  BY <1>12 DEF Ask, Exit
<1>13. CASE TerminalFails
  BY <1>13 DEF TerminalFails, Exit
<1>14. CASE RawMode
  BY <1>14 DEF RawMode
<1>15. CASE ReadKey
  BY <1>15 DEF ReadKey
<1>16. CASE NoAnswer
  BY <1>16 DEF NoAnswer
<1>17. CASE Restore
  BY <1>17 DEF Restore, Exit
<1>18. CASE ModelsLoad
  BY <1>18 DEF ModelsLoad
<1>19. CASE StartDelay
  BY <1>19 DEF StartDelay, Prelude
<1>20. CASE Wake
  BY <1>20 DEF Wake, Prelude
<1>21. CASE VerifyPin
  BY <1>21 DEF VerifyPin
<1>22. CASE CheckBinding
  BY <1>22 DEF CheckBinding, Prelude
<1>23. CASE CheckLockout
  BY <1>23 DEF CheckLockout, Prelude
<1>24. CASE Resolve
  BY <1>24 DEF Resolve, Prelude
<1>25. CASE StoreLoads
  BY <1>25 DEF StoreLoads, Prelude
<1>26. CASE Join
  BY <1>26 DEF Join, Prelude
<1>27. CASE CameraOpens
  BY <1>27 DEF CameraOpens, Prelude
<1>28. CASE Tick
  BY <1>28 DEF Tick
<1>29. CASE SwitchSeat
  BY <1>29 DEF SwitchSeat, Changes
<1>30. CASE MoveLid
  BY <1>30 DEF MoveLid, Changes
<1>31. CASE MoveCamera
  BY <1>31 DEF MoveCamera, Changes
<1>32. CASE MoveLockout
  BY <1>32 DEF MoveLockout, Changes
<1>33. CASE MoveTemplates
  BY <1>33 DEF MoveTemplates, Changes
<1>34. CASE TypeKey
  BY <1>34 DEF TypeKey
<1>90. CASE UNCHANGED vars
  BY <1>90 DEF vars
<1> QED
  BY <1>90, <1>1, <1>2, <1>3, <1>4, <1>5, <1>6, <1>7, <1>8, <1>9, <1>10, <1>11, <1>12,
     <1>13, <1>14, <1>15, <1>16, <1>17, <1>18, <1>19, <1>20, <1>21, <1>22, <1>23, <1>24,
     <1>25, <1>26, <1>27, <1>28, <1>29, <1>30, <1>31, <1>32, <1>33, <1>34
  DEF Next, Main, Preparation, Surroundings

(* Every step that changes the surroundings looks at all of them. *)
LEMMA SeenStep == TypeOK /\ Seen /\ [Next]_vars => Seen'
<1> SUFFICES ASSUME TypeOK, Seen, [Next]_vars PROVE Seen'
  OBVIOUS
<1> USE DEF Seen, OpenNow, Open, UnderSsh, given, terminal, threads, history
<1>1. CASE PreScan
  BY <1>1 DEF PreScan, Exit
<1>2. CASE LoadConfig
  BY <1>2 DEF LoadConfig, Exit
<1>3. CASE ReadSeat
  BY <1>3 DEF ReadSeat, Exit
<1>4. CASE ReadSession
  BY <1>4 DEF ReadSession, Exit
<1>5. CASE SessionGone
  BY <1>5 DEF SessionGone, Exit
<1>6. CASE Skip
  BY <1>6 DEF Skip, Exit
<1>7. CASE Joined
  BY <1>7 DEF Joined, Exit
<1>8. CASE ShowPrompt
  BY <1>8 DEF ShowPrompt
<1>9. CASE Scan
  BY <1>9 DEF Scan
<1>10. CASE Erase
  BY <1>10 DEF Erase
<1>11. CASE Verdict
  BY <1>11 DEF Verdict, Exit
<1>12. CASE Ask
  BY <1>12 DEF Ask, Exit
<1>13. CASE TerminalFails
  BY <1>13 DEF TerminalFails, Exit
<1>14. CASE RawMode
  BY <1>14 DEF RawMode
<1>15. CASE ReadKey
  BY <1>15 DEF ReadKey
<1>16. CASE NoAnswer
  BY <1>16 DEF NoAnswer
<1>17. CASE Restore
  BY <1>17 DEF Restore, Exit
<1>18. CASE ModelsLoad
  BY <1>18 DEF ModelsLoad
<1>19. CASE StartDelay
  BY <1>19 DEF StartDelay, Prelude
<1>20. CASE Wake
  BY <1>20 DEF Wake, Prelude
<1>21. CASE VerifyPin
  BY <1>21 DEF VerifyPin
<1>22. CASE CheckBinding
  BY <1>22 DEF CheckBinding, Prelude
<1>23. CASE CheckLockout
  BY <1>23 DEF CheckLockout, Prelude
<1>24. CASE Resolve
  BY <1>24 DEF Resolve, Prelude
<1>25. CASE StoreLoads
  BY <1>25 DEF StoreLoads, Prelude
<1>26. CASE Join
  BY <1>26 DEF Join, Prelude
<1>27. CASE CameraOpens
  BY <1>27 DEF CameraOpens, Prelude
<1>28. CASE Tick
  BY <1>28 DEF Tick
<1>29. CASE SwitchSeat
  BY <1>29 DEF SwitchSeat, Changes
<1>30. CASE MoveLid
  BY <1>30 DEF MoveLid, Changes
<1>31. CASE MoveCamera
  BY <1>31 DEF MoveCamera, Changes
<1>32. CASE MoveLockout
  BY <1>32 DEF MoveLockout, Changes
<1>33. CASE MoveTemplates
  BY <1>33 DEF MoveTemplates, Changes
<1>34. CASE TypeKey
  BY <1>34 DEF TypeKey
<1>90. CASE UNCHANGED vars
  BY <1>90 DEF vars
<1> QED
  BY <1>90, <1>1, <1>2, <1>3, <1>4, <1>5, <1>6, <1>7, <1>8, <1>9, <1>10, <1>11, <1>12,
     <1>13, <1>14, <1>15, <1>16, <1>17, <1>18, <1>19, <1>20, <1>21, <1>22, <1>23, <1>24,
     <1>25, <1>26, <1>27, <1>28, <1>29, <1>30, <1>31, <1>32, <1>33, <1>34
  DEF Next, Main, Preparation, Surroundings

(* Main passes a gate only when it is open. *)
LEMMA PastMainStep == TypeOK /\ Early /\ Seen /\ Threads /\ Matched /\ PastMain /\ [Next]_vars => PastMain'
<1> SUFFICES ASSUME TypeOK, Early, Seen, Threads, Matched, PastMain, [Next]_vars PROVE PastMain'
  OBVIOUS
<1> USE DEF TypeOK, Early, Threads, Matched, PastMain, Granted, Started, Asking, UnderSsh, given, terminal, threads, history
<1>1. CASE PreScan
  BY <1>1, HelperAssumption DEF PreScan, Exit, Refused, AnyRequest, Exit
<1>2. CASE LoadConfig
  BY <1>2 DEF LoadConfig, Exit
<1>3. CASE ReadSeat
  BY <1>3, SeenGates DEF ReadSeat, Exit, Exit
<1>4. CASE ReadSession
  BY <1>4 DEF ReadSession, Exit
<1>5. CASE SessionGone
  BY <1>5 DEF SessionGone, Exit
<1>6. CASE Skip
  BY <1>6, SeenGates DEF Skip, Exit, Skips, Exit
<1>7. CASE Joined
  BY <1>7 DEF Joined, Exit
<1>8. CASE ShowPrompt
  BY <1>8 DEF ShowPrompt
<1>9. CASE Scan
  BY <1>9 DEF Scan
<1>10. CASE Erase
  BY <1>10 DEF Erase
<1>11. CASE Verdict
  BY <1>11 DEF Verdict, Exit
<1>12. CASE Ask
  BY <1>12 DEF Ask, Exit
<1>13. CASE TerminalFails
  BY <1>13 DEF TerminalFails, Exit
<1>14. CASE RawMode
  BY <1>14 DEF RawMode
<1>15. CASE ReadKey
  BY <1>15 DEF ReadKey
<1>16. CASE NoAnswer
  BY <1>16 DEF NoAnswer
<1>17. CASE Restore
  BY <1>17 DEF Restore, Exit
<1>18. CASE ModelsLoad
  BY <1>18 DEF ModelsLoad
<1>19. CASE StartDelay
  BY <1>19 DEF StartDelay, Prelude
<1>20. CASE Wake
  BY <1>20 DEF Wake, Prelude
<1>21. CASE VerifyPin
  BY <1>21 DEF VerifyPin
<1>22. CASE CheckBinding
  BY <1>22 DEF CheckBinding, Prelude
<1>23. CASE CheckLockout
  BY <1>23 DEF CheckLockout, Prelude
<1>24. CASE Resolve
  BY <1>24 DEF Resolve, Prelude
<1>25. CASE StoreLoads
  BY <1>25 DEF StoreLoads, Prelude
<1>26. CASE Join
  BY <1>26 DEF Join, Prelude
<1>27. CASE CameraOpens
  BY <1>27 DEF CameraOpens, Prelude
<1>28. CASE Tick
  BY <1>28 DEF Tick
<1>29. CASE SwitchSeat
  BY <1>29 DEF SwitchSeat, Changes
<1>30. CASE MoveLid
  BY <1>30 DEF MoveLid, Changes
<1>31. CASE MoveCamera
  BY <1>31 DEF MoveCamera, Changes
<1>32. CASE MoveLockout
  BY <1>32 DEF MoveLockout, Changes
<1>33. CASE MoveTemplates
  BY <1>33 DEF MoveTemplates, Changes
<1>34. CASE TypeKey
  BY <1>34 DEF TypeKey
<1>90. CASE UNCHANGED vars
  BY <1>90 DEF vars
<1> QED
  BY <1>90, <1>1, <1>2, <1>3, <1>4, <1>5, <1>6, <1>7, <1>8, <1>9, <1>10, <1>11, <1>12,
     <1>13, <1>14, <1>15, <1>16, <1>17, <1>18, <1>19, <1>20, <1>21, <1>22, <1>23, <1>24,
     <1>25, <1>26, <1>27, <1>28, <1>29, <1>30, <1>31, <1>32, <1>33, <1>34
  DEF Next, Main, Preparation, Surroundings

(* The preparation passes a gate only when it is open. *)
LEMMA PastPreludeStep == TypeOK /\ Early /\ Seen /\ Threads /\ PastPrelude /\ [Next]_vars => PastPrelude'
<1> SUFFICES ASSUME TypeOK, Early, Seen, Threads, PastPrelude, [Next]_vars PROVE PastPrelude'
  OBVIOUS
<1> USE DEF TypeOK, Early, Threads, PastPrelude, PastPin, PastBinding, PastLockout, given, terminal, threads, history
<1>1. CASE PreScan
  BY <1>1 DEF PreScan, Exit
<1>2. CASE LoadConfig
  BY <1>2 DEF LoadConfig, Exit
<1>3. CASE ReadSeat
  BY <1>3 DEF ReadSeat, Exit
<1>4. CASE ReadSession
  BY <1>4 DEF ReadSession, Exit
<1>5. CASE SessionGone
  BY <1>5 DEF SessionGone, Exit
<1>6. CASE Skip
  BY <1>6 DEF Skip, Exit
<1>7. CASE Joined
  BY <1>7 DEF Joined, Exit
<1>8. CASE ShowPrompt
  BY <1>8 DEF ShowPrompt
<1>9. CASE Scan
  BY <1>9 DEF Scan
<1>10. CASE Erase
  BY <1>10 DEF Erase
<1>11. CASE Verdict
  BY <1>11 DEF Verdict, Exit
<1>12. CASE Ask
  BY <1>12 DEF Ask, Exit
<1>13. CASE TerminalFails
  BY <1>13 DEF TerminalFails, Exit
<1>14. CASE RawMode
  BY <1>14 DEF RawMode
<1>15. CASE ReadKey
  BY <1>15 DEF ReadKey
<1>16. CASE NoAnswer
  BY <1>16 DEF NoAnswer
<1>17. CASE Restore
  BY <1>17 DEF Restore, Exit
<1>18. CASE ModelsLoad
  BY <1>18 DEF ModelsLoad
<1>19. CASE StartDelay
  BY <1>19 DEF StartDelay, Prelude
<1>20. CASE Wake
  BY <1>20 DEF Wake, Prelude
<1>21. CASE VerifyPin
  BY <1>21, SeenGates DEF VerifyPin
<1>22. CASE CheckBinding
  BY <1>22, SeenGates DEF CheckBinding, Prelude, Prelude
<1>23. CASE CheckLockout
  BY <1>23, SeenGates DEF CheckLockout, Prelude, Prelude
<1>24. CASE Resolve
  BY <1>24, SeenGates DEF Resolve, Prelude, Prelude
<1>25. CASE StoreLoads
  BY <1>25, SeenGates DEF StoreLoads, Prelude, Prelude
<1>26. CASE Join
  BY <1>26, SeenGates DEF Join, Prelude, Prelude
<1>27. CASE CameraOpens
  BY <1>27 DEF CameraOpens, Prelude
<1>28. CASE Tick
  BY <1>28 DEF Tick
<1>29. CASE SwitchSeat
  BY <1>29 DEF SwitchSeat, Changes
<1>30. CASE MoveLid
  BY <1>30 DEF MoveLid, Changes
<1>31. CASE MoveCamera
  BY <1>31 DEF MoveCamera, Changes
<1>32. CASE MoveLockout
  BY <1>32 DEF MoveLockout, Changes
<1>33. CASE MoveTemplates
  BY <1>33 DEF MoveTemplates, Changes
<1>34. CASE TypeKey
  BY <1>34 DEF TypeKey
<1>90. CASE UNCHANGED vars
  BY <1>90 DEF vars
<1> QED
  BY <1>90, <1>1, <1>2, <1>3, <1>4, <1>5, <1>6, <1>7, <1>8, <1>9, <1>10, <1>11, <1>12,
     <1>13, <1>14, <1>15, <1>16, <1>17, <1>18, <1>19, <1>20, <1>21, <1>22, <1>23, <1>24,
     <1>25, <1>26, <1>27, <1>28, <1>29, <1>30, <1>31, <1>32, <1>33, <1>34
  DEF Next, Main, Preparation, Surroundings

(* The camera that opens is the one that was checked, unless it was moved. *)
LEMMA PinStep == TypeOK /\ Early /\ Threads /\ PastPrelude /\ PinHolds /\ [Next]_vars => PinHolds'
<1> SUFFICES ASSUME TypeOK, Early, Threads, PastPrelude, PinHolds, [Next]_vars PROVE PinHolds'
  OBVIOUS
<1> USE DEF TypeOK, Early, Threads, PastPrelude, PastPin, PinHolds, given, terminal, threads, history
<1>1. CASE PreScan
  BY <1>1 DEF PreScan, Exit
<1>2. CASE LoadConfig
  BY <1>2 DEF LoadConfig, Exit
<1>3. CASE ReadSeat
  BY <1>3 DEF ReadSeat, Exit
<1>4. CASE ReadSession
  BY <1>4 DEF ReadSession, Exit
<1>5. CASE SessionGone
  BY <1>5 DEF SessionGone, Exit
<1>6. CASE Skip
  BY <1>6 DEF Skip, Exit
<1>7. CASE Joined
  BY <1>7 DEF Joined, Exit
<1>8. CASE ShowPrompt
  BY <1>8 DEF ShowPrompt
<1>9. CASE Scan
  BY <1>9 DEF Scan
<1>10. CASE Erase
  BY <1>10 DEF Erase
<1>11. CASE Verdict
  BY <1>11 DEF Verdict, Exit
<1>12. CASE Ask
  BY <1>12 DEF Ask, Exit
<1>13. CASE TerminalFails
  BY <1>13 DEF TerminalFails, Exit
<1>14. CASE RawMode
  BY <1>14 DEF RawMode
<1>15. CASE ReadKey
  BY <1>15 DEF ReadKey
<1>16. CASE NoAnswer
  BY <1>16 DEF NoAnswer
<1>17. CASE Restore
  BY <1>17 DEF Restore, Exit
<1>18. CASE ModelsLoad
  BY <1>18 DEF ModelsLoad
<1>19. CASE StartDelay
  BY <1>19 DEF StartDelay, Prelude
<1>20. CASE Wake
  BY <1>20 DEF Wake, Prelude
<1>21. CASE VerifyPin
  BY <1>21 DEF VerifyPin
<1>22. CASE CheckBinding
  BY <1>22 DEF CheckBinding, Prelude
<1>23. CASE CheckLockout
  BY <1>23 DEF CheckLockout, Prelude
<1>24. CASE Resolve
  BY <1>24 DEF Resolve, Prelude
<1>25. CASE StoreLoads
  BY <1>25 DEF StoreLoads, Prelude
<1>26. CASE Join
  BY <1>26 DEF Join, Prelude
<1>27. CASE CameraOpens
  BY <1>27 DEF CameraOpens, Prelude
<1>28. CASE Tick
  BY <1>28 DEF Tick
<1>29. CASE SwitchSeat
  BY <1>29 DEF SwitchSeat, Changes
<1>30. CASE MoveLid
  BY <1>30 DEF MoveLid, Changes
<1>31. CASE MoveCamera
  BY <1>31 DEF MoveCamera, Changes
<1>32. CASE MoveLockout
  BY <1>32 DEF MoveLockout, Changes
<1>33. CASE MoveTemplates
  BY <1>33 DEF MoveTemplates, Changes
<1>34. CASE TypeKey
  BY <1>34 DEF TypeKey
<1>90. CASE UNCHANGED vars
  BY <1>90 DEF vars
<1> QED
  BY <1>90, <1>1, <1>2, <1>3, <1>4, <1>5, <1>6, <1>7, <1>8, <1>9, <1>10, <1>11, <1>12,
     <1>13, <1>14, <1>15, <1>16, <1>17, <1>18, <1>19, <1>20, <1>21, <1>22, <1>23, <1>24,
     <1>25, <1>26, <1>27, <1>28, <1>29, <1>30, <1>31, <1>32, <1>33, <1>34
  DEF Next, Main, Preparation, Surroundings

(* The preparation goes on when the start delay is over. *)
LEMMA DelayedStep == TypeOK /\ Early /\ Threads /\ Delayed /\ [Next]_vars => Delayed'
<1> SUFFICES ASSUME TypeOK, Early, Threads, Delayed, [Next]_vars PROVE Delayed'
  OBVIOUS
<1> USE HelperAssumption, DelayNat, DelayKept
<1>0. request.age \in Int
  BY DEF TypeOK, AnyRequest
<1> USE <1>0
<1> USE DEF TypeOK, Early, Threads, Delayed, given, terminal, threads, history
<1>1. CASE PreScan
  BY <1>1 DEF PreScan, Exit
<1>2. CASE LoadConfig
  BY <1>2 DEF LoadConfig, Exit
<1>3. CASE ReadSeat
  BY <1>3 DEF ReadSeat, Exit
<1>4. CASE ReadSession
  BY <1>4 DEF ReadSession, Exit
<1>5. CASE SessionGone
  BY <1>5 DEF SessionGone, Exit
<1>6. CASE Skip
  BY <1>6 DEF Skip, Exit
<1>7. CASE Joined
  BY <1>7 DEF Joined, Exit
<1>8. CASE ShowPrompt
  BY <1>8 DEF ShowPrompt
<1>9. CASE Scan
  BY <1>9 DEF Scan
<1>10. CASE Erase
  BY <1>10 DEF Erase
<1>11. CASE Verdict
  BY <1>11 DEF Verdict, Exit
<1>12. CASE Ask
  BY <1>12 DEF Ask, Exit
<1>13. CASE TerminalFails
  BY <1>13 DEF TerminalFails, Exit
<1>14. CASE RawMode
  BY <1>14 DEF RawMode
<1>15. CASE ReadKey
  BY <1>15 DEF ReadKey
<1>16. CASE NoAnswer
  BY <1>16 DEF NoAnswer
<1>17. CASE Restore
  BY <1>17 DEF Restore, Exit
<1>18. CASE ModelsLoad
  BY <1>18 DEF ModelsLoad
<1>19. CASE StartDelay
  BY <1>19 DEF StartDelay, Prelude
<1>20. CASE Wake
  BY <1>20 DEF Wake, Prelude
<1>21. CASE VerifyPin
  BY <1>21 DEF VerifyPin
<1>22. CASE CheckBinding
  BY <1>22 DEF CheckBinding, Prelude
<1>23. CASE CheckLockout
  BY <1>23 DEF CheckLockout, Prelude
<1>24. CASE Resolve
  BY <1>24 DEF Resolve, Prelude
<1>25. CASE StoreLoads
  BY <1>25 DEF StoreLoads, Prelude
<1>26. CASE Join
  BY <1>26 DEF Join, Prelude
<1>27. CASE CameraOpens
  BY <1>27 DEF CameraOpens, Prelude
<1>28. CASE Tick
  BY <1>28 DEF Tick
<1>29. CASE SwitchSeat
  BY <1>29 DEF SwitchSeat, Changes
<1>30. CASE MoveLid
  BY <1>30 DEF MoveLid, Changes
<1>31. CASE MoveCamera
  BY <1>31 DEF MoveCamera, Changes
<1>32. CASE MoveLockout
  BY <1>32 DEF MoveLockout, Changes
<1>33. CASE MoveTemplates
  BY <1>33 DEF MoveTemplates, Changes
<1>34. CASE TypeKey
  BY <1>34 DEF TypeKey
<1>90. CASE UNCHANGED vars
  BY <1>90 DEF vars
<1> QED
  BY <1>90, <1>1, <1>2, <1>3, <1>4, <1>5, <1>6, <1>7, <1>8, <1>9, <1>10, <1>11, <1>12,
     <1>13, <1>14, <1>15, <1>16, <1>17, <1>18, <1>19, <1>20, <1>21, <1>22, <1>23, <1>24,
     <1>25, <1>26, <1>27, <1>28, <1>29, <1>30, <1>31, <1>32, <1>33, <1>34
  DEF Next, Main, Preparation, Surroundings

(* A match is of a prepared scan, and ends in the exit. *)
LEMMA MatchedStep == TypeOK /\ Early /\ Threads /\ Matched /\ [Next]_vars => Matched'
<1> SUFFICES ASSUME TypeOK, Early, Threads, Matched, [Next]_vars PROVE Matched'
  OBVIOUS
<1> USE DEF TypeOK, Early, Threads, Matched, Granted, Started, Asking, MustConfirm, given, terminal, threads, history
<1>1. CASE PreScan
  BY <1>1 DEF PreScan, Exit
<1>2. CASE LoadConfig
  BY <1>2 DEF LoadConfig, Exit
<1>3. CASE ReadSeat
  BY <1>3 DEF ReadSeat, Exit
<1>4. CASE ReadSession
  BY <1>4 DEF ReadSession, Exit
<1>5. CASE SessionGone
  BY <1>5 DEF SessionGone, Exit
<1>6. CASE Skip
  BY <1>6 DEF Skip, Exit
<1>7. CASE Joined
  BY <1>7 DEF Joined, Exit
<1>8. CASE ShowPrompt
  BY <1>8 DEF ShowPrompt
<1>9. CASE Scan
  BY <1>9 DEF Scan, Verdicts
<1>10. CASE Erase
  BY <1>10 DEF Erase
<1>11. CASE Verdict
  BY <1>11 DEF Verdict, Exit
<1>12. CASE Ask
  BY <1>12 DEF Ask, Exit
<1>13. CASE TerminalFails
  BY <1>13 DEF TerminalFails, Exit
<1>14. CASE RawMode
  BY <1>14 DEF RawMode
<1>15. CASE ReadKey
  BY <1>15 DEF ReadKey
<1>16. CASE NoAnswer
  BY <1>16 DEF NoAnswer
<1>17. CASE Restore
  BY <1>17 DEF Restore, Exit
<1>18. CASE ModelsLoad
  BY <1>18 DEF ModelsLoad
<1>19. CASE StartDelay
  BY <1>19 DEF StartDelay, Prelude
<1>20. CASE Wake
  BY <1>20 DEF Wake, Prelude
<1>21. CASE VerifyPin
  BY <1>21 DEF VerifyPin
<1>22. CASE CheckBinding
  BY <1>22 DEF CheckBinding, Prelude
<1>23. CASE CheckLockout
  BY <1>23 DEF CheckLockout, Prelude
<1>24. CASE Resolve
  BY <1>24 DEF Resolve, Prelude
<1>25. CASE StoreLoads
  BY <1>25 DEF StoreLoads, Prelude
<1>26. CASE Join
  BY <1>26 DEF Join, Prelude
<1>27. CASE CameraOpens
  BY <1>27 DEF CameraOpens, Prelude
<1>28. CASE Tick
  BY <1>28 DEF Tick
<1>29. CASE SwitchSeat
  BY <1>29 DEF SwitchSeat, Changes
<1>30. CASE MoveLid
  BY <1>30 DEF MoveLid, Changes
<1>31. CASE MoveCamera
  BY <1>31 DEF MoveCamera, Changes
<1>32. CASE MoveLockout
  BY <1>32 DEF MoveLockout, Changes
<1>33. CASE MoveTemplates
  BY <1>33 DEF MoveTemplates, Changes
<1>34. CASE TypeKey
  BY <1>34 DEF TypeKey
<1>90. CASE UNCHANGED vars
  BY <1>90 DEF vars
<1> QED
  BY <1>90, <1>1, <1>2, <1>3, <1>4, <1>5, <1>6, <1>7, <1>8, <1>9, <1>10, <1>11, <1>12,
     <1>13, <1>14, <1>15, <1>16, <1>17, <1>18, <1>19, <1>20, <1>21, <1>22, <1>23, <1>24,
     <1>25, <1>26, <1>27, <1>28, <1>29, <1>30, <1>31, <1>32, <1>33, <1>34
  DEF Next, Main, Preparation, Surroundings

(* What is on the terminal is taken off again, and what is read was typed after the question. *)
LEMMA TerminalStep == TypeOK /\ Matched /\ Terminal /\ [Next]_vars => Terminal'
<1> SUFFICES ASSUME TypeOK, Matched, Terminal, [Next]_vars PROVE Terminal'
  OBVIOUS
<1> USE DEF TypeOK, Matched, Terminal, Granted, Started, Asking, Key, NoKey, MustConfirm, given, terminal, threads, history
<1>1. CASE PreScan
  BY <1>1 DEF PreScan, Exit
<1>2. CASE LoadConfig
  BY <1>2 DEF LoadConfig, Exit
<1>3. CASE ReadSeat
  BY <1>3 DEF ReadSeat, Exit
<1>4. CASE ReadSession
  BY <1>4 DEF ReadSession, Exit
<1>5. CASE SessionGone
  BY <1>5 DEF SessionGone, Exit
<1>6. CASE Skip
  BY <1>6 DEF Skip, Exit
<1>7. CASE Joined
  BY <1>7 DEF Joined, Exit
<1>8. CASE ShowPrompt
  BY <1>8 DEF ShowPrompt
<1>9. CASE Scan
  BY <1>9 DEF Scan
<1>10. CASE Erase
  BY <1>10 DEF Erase
<1>11. CASE Verdict
  BY <1>11 DEF Verdict, Exit
<1>12. CASE Ask
  BY <1>12 DEF Ask, Exit
<1>13. CASE TerminalFails
  BY <1>13 DEF TerminalFails, Exit
<1>14. CASE RawMode
  BY <1>14 DEF RawMode
<1>15. CASE ReadKey
  BY <1>15 DEF ReadKey
<1>16. CASE NoAnswer
  BY <1>16 DEF NoAnswer
<1>17. CASE Restore
  BY <1>17 DEF Restore, Exit
<1>18. CASE ModelsLoad
  BY <1>18 DEF ModelsLoad
<1>19. CASE StartDelay
  BY <1>19 DEF StartDelay, Prelude
<1>20. CASE Wake
  BY <1>20 DEF Wake, Prelude
<1>21. CASE VerifyPin
  BY <1>21 DEF VerifyPin
<1>22. CASE CheckBinding
  BY <1>22 DEF CheckBinding, Prelude
<1>23. CASE CheckLockout
  BY <1>23 DEF CheckLockout, Prelude
<1>24. CASE Resolve
  BY <1>24 DEF Resolve, Prelude
<1>25. CASE StoreLoads
  BY <1>25 DEF StoreLoads, Prelude
<1>26. CASE Join
  BY <1>26 DEF Join, Prelude
<1>27. CASE CameraOpens
  BY <1>27 DEF CameraOpens, Prelude
<1>28. CASE Tick
  BY <1>28 DEF Tick
<1>29. CASE SwitchSeat
  BY <1>29 DEF SwitchSeat, Changes
<1>30. CASE MoveLid
  BY <1>30 DEF MoveLid, Changes
<1>31. CASE MoveCamera
  BY <1>31 DEF MoveCamera, Changes
<1>32. CASE MoveLockout
  BY <1>32 DEF MoveLockout, Changes
<1>33. CASE MoveTemplates
  BY <1>33 DEF MoveTemplates, Changes
<1>34. CASE TypeKey
  <2>1. PICK enter \in BOOLEAN : keys' = Append(keys, [enter |-> enter, asked |-> pc \in {"asked", "read"}])
    BY <1>34 DEF TypeKey
  <2> DEFINE key == [enter |-> enter, asked |-> pc \in {"asked", "read"}]
  <2>2. key \in Key
    BY DEF Key
  <2>3. pc = "read" => key = [enter |-> enter, asked |-> TRUE]
    OBVIOUS
  <2>4. keys' = Append(keys, key)
    BY <2>1
  <2> HIDE DEF key
  <2>5. pc = "read" => \A i \in 1..Len(keys') : keys'[i].asked
    BY <2>2, <2>3, <2>4, AppendProperties
  <2> QED
    BY <2>5, <1>34 DEF TypeKey
<1>90. CASE UNCHANGED vars
  BY <1>90 DEF vars
<1> QED
  BY <1>90, <1>1, <1>2, <1>3, <1>4, <1>5, <1>6, <1>7, <1>8, <1>9, <1>10, <1>11, <1>12,
     <1>13, <1>14, <1>15, <1>16, <1>17, <1>18, <1>19, <1>20, <1>21, <1>22, <1>23, <1>24,
     <1>25, <1>26, <1>27, <1>28, <1>29, <1>30, <1>31, <1>32, <1>33, <1>34
  DEF Next, Main, Preparation, Surroundings

-----------------------------------------------------------------------------
(* The specification keeps the invariant. *)

LEMMA InitInv == Init => IInv
<1> SUFFICES ASSUME Init PROVE IInv
  OBVIOUS
<1> USE HelperAssumption DEF Init
<1>1. TypeOK
  <2>1. NoConfig \in Configs
    BY DEF NoConfig, Configs
  <2>2. NoKey \in Key /\ <<>> \in Seq(Key)
    BY DEF NoKey, Key
  <2>3. ever \subseteq Gates /\ world \in AnyWorld
    BY DEF OpenNow
  <2>4. shown \in BOOLEAN /\ raw \in BOOLEAN /\ moved \in BOOLEAN
    BY Zenon
  <2> QED
    BY <2>1, <2>2, <2>3, <2>4 DEF TypeOK, Seats
<1>2. Early /\ Seen /\ PastMain /\ PastPrelude
  BY DEF Early, Seen, PastMain, PastPrelude, Granted, Started, PastPin, PastBinding, PastLockout
<1>3. Threads /\ Delayed /\ Matched /\ PinHolds /\ OverlayNarrows
  BY DEF Threads, Delayed, Matched, Granted, Started, Asking, PinHolds, OverlayNarrows
<1>4. Terminal
  BY DEF Terminal, Granted, NoKey
<1> QED
  BY <1>1, <1>2, <1>3, <1>4 DEF IInv

LEMMA StepInv == IInv /\ [Next]_vars => IInv'
  BY TypeStep, EarlyStep, SeenStep, PastMainStep, PastPreludeStep, ThreadsStep, DelayedStep,
     MatchedStep, TerminalStep, OverlayStep, PinStep DEF IInv

LEMMA Invariance == Spec => []IInv
  BY InitInv, StepInv, PTL DEF Spec

(* Past every gate, what the configuration asks for has been open. *)
LEMMA GatesOpened ==
  ASSUME IInv, pc \in Started \/ Granted, pre \in {"store", "stored", "failing", "ok"},
         "templates" \in ever
  PROVE  Required \subseteq ever
<1>1. request \in AnyRequest
  BY HelperAssumption DEF IInv, TypeOK
<1>2. pc \notin {"pre_scan", "exit"} \/ Granted
  BY DEF Started
<1>3. {"account", "caller", "local"} \subseteq ever
  BY <1>1, <1>2, SeenGates DEF IInv, PastMain, AnyRequest
<1>4. /\ On(config, "seat_check") => "seat" \in ever
      /\ On(config, "abort_if_ssh") => "no_ssh" \in ever
      /\ On(config, "abort_if_lid_closed") => "lid" \in ever
  BY SeenGates DEF IInv, PastMain
<1>5. /\ On(config, "pinned") => "pin" \in ever
      /\ On(config, "bind_camera") => "binding" \in ever
      /\ "not_locked" \in ever
  BY DEF IInv, PastPrelude, PastPin, PastBinding, PastLockout
<1> QED
  BY <1>3, <1>4, <1>5 DEF Required

-----------------------------------------------------------------------------
(* The theorems. *)

(* Every variable stays within its type, whatever the files and requests. *)
THEOREM TypeCorrect == Spec => []TypeOK
<1>1. IInv => TypeOK
  BY DEF IInv
<1> QED
  BY <1>1, Invariance, PTL

(* For any two files, what is loaded for a run is in nothing weaker than the  *)
(* system's file, and good (apply_user_overlay).                              *)
THEOREM OverlayNeverWeakens == Spec => []OverlayNarrows
<1>1. IInv => OverlayNarrows
  BY DEF IInv
<1> QED
  BY <1>1, Invariance, PTL

(* Access takes a match of a prepared scan, and every gate the configuration *)
(* asks for was open during the run, however the surroundings change.        *)
THEOREM GrantIsGated == Spec => []GrantGated
<1>1. IInv => GrantGated
  <2> SUFFICES ASSUME IInv, Granted PROVE GrantGated
    BY DEF GrantGated, Granted
  <2>1. result = "match" /\ pre = "ok" /\ models = "ok"
    BY DEF IInv, Matched
  <2>2. "templates" \in ever
    BY <2>1 DEF IInv, PastPrelude
  <2> QED
    BY <2>1, <2>2, GatesOpened DEF GrantGated
<1> QED
  BY <1>1, Invariance, PTL

(* The camera is on only between the gates and the end of the scan. *)
THEOREM EmitterIsGated == Spec => []EmitterGated
<1>1. IInv => EmitterGated
  <2> SUFFICES ASSUME IInv, cam \in {"opening", "on"} PROVE EmitterGated
    BY DEF EmitterGated
  <2>1. pre \in {"store", "stored", "failing", "ok"} /\ pc \in {"threads", "prompt", "scan"}
    BY DEF IInv, Threads
  <2>2. "templates" \in ever
    BY DEF IInv, PastPrelude
  <2>3. pc \in Started
    BY <2>1 DEF Started
  <2> QED
    BY <2>1, <2>2, <2>3, GatesOpened DEF EmitterGated
<1> QED
  BY <1>1, Invariance, PTL

(* The camera waits out the start delay, and nothing waits longer. *)
THEOREM DelayIsPaidOnce == Spec => []DelayPaidOnce
<1>1. IInv => DelayPaidOnce
  BY DEF IInv, Delayed, Threads, DelayPaidOnce
<1> QED
  BY <1>1, Invariance, PTL

(* A pinned camera is the one that scans, unless it was moved after the check. *)
THEOREM PinIsHeld == Spec => []PinHolds
<1>1. IInv => PinHolds
  BY DEF IInv
<1> QED
  BY <1>1, Invariance, PTL

(* A match that must be confirmed is, by an Enter typed after the question. *)
THEOREM ConfirmationIsFresh == Spec => []ConfirmFresh
<1>1. IInv => ConfirmFresh
  BY DEF IInv, Terminal, Granted, ConfirmFresh
<1> QED
  BY <1>1, Invariance, PTL

(* However the run ends, the terminal is as it was. *)
THEOREM TerminalIsLeft == Spec => []TerminalLeft
<1>1. IInv => TerminalLeft
  BY DEF IInv, TypeOK, Terminal, TerminalLeft
<1> QED
  BY <1>1, Invariance, PTL

==============================================================================
