-------------------------------- MODULE Config --------------------------------
(***************************************************************************)
(* FaceAuthConfig in crates/face-auth-core/src/config.rs, as the           *)
(* authentication path loads it: the system file, folded and validated,    *)
(* and what the account's own file may change of it.                       *)
(*                                                                         *)
(* A setting is an integer: fractions in hundredths, times in tenths of a  *)
(* second, flags 0 and 1.  A value the file's type or NaN rules out is one *)
(* outside the range.  One policy setting stands for each group that the   *)
(* code treats alike; paths, models and the camera's node are left out.    *)
(***************************************************************************)
EXTENDS Integers

CONSTANT Unset  \* a setting a file does not mention

ASSUME UnsetAssumption == Unset \notin Int

\* What a user's file may raise, what it may choose, and what it may not touch.
Floors   == {"threshold", "detector_threshold", "motion", "residual", "min_face"}
Timings  == {"capture_timeout", "scan_duration", "grace", "scan_interval"}
Policies == {"window", "lockout_threshold", "start_delay", "start_delay_all",
             "seat_check", "abort_if_ssh", "abort_if_lid_closed",
             "require_confirmation", "pinned", "bind_camera"}
Settings == Floors \cup Timings \cup Policies

Lo == [threshold |-> 30, detector_threshold |-> 5, motion |-> 0, residual |-> 0,
       min_face |-> 0, capture_timeout |-> 1, scan_duration |-> 5, grace |-> 0,
       scan_interval |-> 0, window |-> 0, start_delay |-> 0]
Hi == [threshold |-> 100, detector_threshold |-> 100, motion |-> 100,
       residual |-> 100, min_face |-> 75, capture_timeout |-> 300,
       scan_duration |-> 300, grace |-> 100, scan_interval |-> 50,
       window |-> 20, start_delay |-> 100]

Default == [threshold |-> 60, detector_threshold |-> 50, motion |-> 1,
  residual |-> 0, min_face |-> 0, capture_timeout |-> 50, scan_duration |-> 50,
  grace |-> 40, scan_interval |-> 0, window |-> 10, lockout_threshold |-> 5,
  start_delay |-> 20, start_delay_all |-> 0, seat_check |-> 0,
  abort_if_ssh |-> 1, abort_if_lid_closed |-> 0, require_confirmation |-> 0,
  pinned |-> 0, bind_camera |-> 1]

Configs == [Settings -> Int \cup {Unset}]

-----------------------------------------------------------------------------
(* A file: flat keys, the grouped spelling of some, and a liveness preset. *)

Grouped == {"motion", "residual", "window", "grace", "lockout_threshold",
            "start_delay", "start_delay_all", "seat_check", "abort_if_ssh",
            "abort_if_lid_closed", "require_confirmation"}

Motion   == [off |-> 0, standard |-> 1, strict |-> 1]
Residual == [off |-> 0, standard |-> 0, strict |-> 30]
Presets  == {"off", "standard", "strict"}

Files == [flat : Configs, group : Configs, preset : Presets \cup {"none", "other"}]

Parses(file) == file.preset # "other"

FromPreset(file, s) ==
  IF file.preset \in Presets /\ s = "motion" THEN Motion[file.preset]
  ELSE IF file.preset \in Presets /\ s = "residual" THEN Residual[file.preset]
  ELSE Unset

\* A flat key wins over its group, and either over the preset.
FoldSections(file) ==
  [s \in Settings |->
     IF file.flat[s] # Unset THEN file.flat[s]
     ELSE IF s \in Grouped /\ file.group[s] # Unset THEN file.group[s]
     ELSE FromPreset(file, s)]

-----------------------------------------------------------------------------
Clamp(v, lo, hi) == IF v < lo THEN lo ELSE IF v > hi THEN hi ELSE v

\* The accessors: some clamp what the file says.
Clamped == Timings \cup {"window", "start_delay"}

Value(config, s) ==
  IF config[s] = Unset THEN Default[s]
  ELSE IF s \in Clamped THEN Clamp(config[s], Lo[s], Hi[s])
  ELSE IF s = "lockout_threshold" /\ config[s] < 1 THEN 1
  ELSE config[s]

On(config, s) == Value(config, s) = 1

Valid(config) == \A s \in Floors : Value(config, s) \in Lo[s]..Hi[s]

\* load_system.
Loads(system) == Parses(system) /\ Valid(FoldSections(system))

-----------------------------------------------------------------------------
(* apply_user_overlay. *)

InRange(v, s) == v \in Lo[s]..Hi[s]

\* Mutant of Honours: any value within the range.
HonoursRange(config, own, s) ==
  s \in Floors \cup Timings /\ own[s] # Unset /\ InRange(own[s], s)

\* Does the user's own value replace the system's?
Honours(config, own, s) ==
  /\ s \in Floors \cup Timings /\ own[s] # Unset
  /\ InRange(own[s], s)
  /\ s \in Timings \/ own[s] >= Value(config, s)

WithUserOverlay(config, own) ==
  [s \in Settings |-> IF Honours(config, own, s) THEN own[s] ELSE config[s]]

\* load_for_auth, once the system file is loaded.
LoadForAuth(system, user) ==
  IF Parses(user) THEN WithUserOverlay(FoldSections(system), FoldSections(user))
                  ELSE FoldSections(system)

-----------------------------------------------------------------------------
(* "thresholds it may only ever tighten the system value, never relax it"  *)
(* (config.rs:270-274): whatever the spelling, the user's file lowers no   *)
(* threshold, changes no policy, and leaves a configuration that is good.  *)
NeverWeaker(system, config) ==
  /\ \A s \in Floors : Value(config, s) >= Value(system, s)
  /\ \A s \in Policies : config[s] = system[s]
=============================================================================
