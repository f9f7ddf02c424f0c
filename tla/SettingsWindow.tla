---------------------------- MODULE SettingsWindow ----------------------------
(***************************************************************************)
(* vinoauthface-settings over the two configuration files: rows edit the   *)
(* system file's text, which waits for Apply, and the user's own, saved    *)
(* as it settles.  Apply hands the text to vinoauthface-helper, root's     *)
(* side, which compares and checks it and renames it over the file.        *)
(*                                                                         *)
(* Other programs write both files meanwhile: setting-mode.sh for the tray *)
(* menu, root's editor (pin-camera.sh and deploy.sh with it), the tray's   *)
(* idle menu.  Nothing keeps a second window from being opened.  One step  *)
(* is one frame of a window, or what a program does between two looks at a *)
(* file.  Layout, help texts and the model checks are left out.            *)
(***************************************************************************)
EXTENDS ConfigText

CONSTANTS
  Windows, NoWindow,  \* windows of the user, and none of them
  Missing, Garbled,   \* a file that is not there, and one that is not text
  InitialFiles,       \* what /etc/face-auth.toml and ~/.config/face-auth.toml
                      \* may be at first, as pairs
  HandFiles,          \* what root's own hand may make of the system file
  Offered,            \* per row, the values a hand may pick
  Minutes,            \* what the tray's idle menu may be asked to set
  Modes,              \* the choices setting-mode.sh knows: parts to set
  Trusted,            \* paths that are root's all the way up
  MaxLines,           \* MAX_CONFIG_BYTES
  MaxRows,            \* bound: rows changed, over all windows
  MaxApplies,         \* bound: Applies
  MaxOthers           \* bound: writes by the other programs

ASSUME WindowsAssumption == NoWindow \notin Windows
ASSUME FilesAssumption ==
  /\ {Missing, Garbled} \cap Texts = {} /\ Missing # Garbled
  /\ HandFiles \subseteq Texts \cup {Missing, Garbled}
  /\ InitialFiles \subseteq (Texts \cup {Missing, Garbled}) \X (Texts \cup {Missing, Garbled})
ASSUME OfferedAssumption ==
  /\ DOMAIN Offered \subseteq Keys /\ \A k \in DOMAIN Offered : Offered[k] \subseteq Int
  /\ Minutes \subseteq Int

VARIABLES
  sys, own,   \* the two files
  open,       \* windows that are open
  focus,      \* the window with the focus
  system,     \* per window, /etc/face-auth.toml as read, and with its changes
  user,       \* per window, ~/.config/face-auth.toml likewise
  dirty,      \* windows whose user text is not saved yet
  apply,      \* per window, its Apply: idle, running, or what it said
  helper,     \* per window, the root helper its Apply started
  mode,       \* setting-mode.sh between its read and its rename
  tray,       \* the tray's idle menu between its read and its rename
  overlap,    \* helpers under whose check another program has written
  during,     \* windows whose rows changed while their Apply ran
  crossed,    \* windows that had focus or changes when own was written
  roots,      \* pins and paths that root's own hand has written
  rows, applies, others   \* counters, for the bounds

files   == <<sys, own>>
windows == <<open, focus, system, user, dirty, apply>>
ghosts  == <<overlap, during, crossed, roots>>
counts  == <<rows, applies, others>>
vars    == <<files, windows, helper, mode, tray, ghosts, counts>>

-----------------------------------------------------------------------------
(* ConfigFile. *)

TextOf(file) == IF file \in {Missing, Garbled} THEN <<>> ELSE file
Load(file) == [read |-> IF file = Garbled THEN Missing ELSE file, text |-> TextOf(file)]

\* The values of every key, as toml::Table gives them.
Values(text) ==
  LET parses == WellFormed(text)
  IN  [k \in Keys |-> IF parses THEN Reads(text, k) ELSE Unset]
Changes(file) ==
  IF file.text = TextOf(file.read) THEN {}
  ELSE LET was == Values(TextOf(file.read))
           is  == Values(file.text)
       IN  {k \in Keys : was[k] # is[k]}

\* The configuration to show: the file's, or the defaults.
Defaults == [s \in Settings |-> Unset]
Shown(text) == IF ParsesText(text) THEN FromToml(text) ELSE Defaults

-----------------------------------------------------------------------------
(* The pages' rows: built-in default and range. *)

Num(default, lo, hi) == [default |-> default, lo |-> lo, hi |-> hi]
Switch(default)      == Num(default, 0, 1)

MatchingRows == [threshold |-> Num(60, 30, 100), detector_threshold |-> Num(50, 5, 100),
                 min_face |-> Num(0, 0, 75)]
TimingRows   == [scan_duration |-> Num(50, 5, 300), grace |-> Num(40, 0, 100),
                 capture_timeout |-> Num(50, 1, 300), scan_interval |-> Num(0, 0, 50)]

\* Mutant of LivenessRows: a default that config.rs has moved from.
LivenessRowsDrift == [motion |-> Num(2, 0, 100), residual |-> Num(0, 0, 100),
                      window |-> Num(10, 0, 20)]
LivenessRows == [motion |-> Num(1, 0, 100), residual |-> Num(0, 0, 100),
                 window |-> Num(10, 0, 20)]
SecurityRows == [abort_if_ssh |-> Switch(1), abort_if_lid_closed |-> Switch(0),
                 seat_check |-> Switch(0), require_confirmation |-> Switch(0),
                 start_delay |-> Num(20, 0, 100), start_delay_all |-> Switch(0),
                 lockout_threshold |-> Num(5, 1, 50),
                 lockout_base_delay |-> Num(20, 0, 600),
                 lockout_max_delay |-> Num(3000, 0, 36000), seal |-> Switch(0),
                 update_check |-> Switch(1)]
CameraRows   == [bind_camera |-> Switch(1)]
ModelRows    == [backend |-> Switch(0), npu_device |-> Num(0, 0, 2)]

RowOf(k) == IF k \in DOMAIN MatchingRows THEN MatchingRows[k]
            ELSE IF k \in DOMAIN TimingRows THEN TimingRows[k]
            ELSE IF k \in DOMAIN LivenessRows THEN LivenessRows[k]
            ELSE IF k \in DOMAIN SecurityRows THEN SecurityRows[k]
            ELSE IF k \in DOMAIN CameraRows THEN CameraRows[k] ELSE ModelRows[k]

SystemRows == DOMAIN MatchingRows \cup DOMAIN TimingRows \cup DOMAIN LivenessRows
              \cup DOMAIN SecurityRows \cup DOMAIN CameraRows \cup DOMAIN ModelRows

\* What a system row shows: the accessor's value, or for a key that Config
\* leaves out the file's own.
RowValue(text, k) ==
  IF k \in Settings THEN Value(Shown(text), k)
  ELSE IF Values(text)[k] # Unset THEN Values(text)[k] ELSE RowOf(k).default

\* A row's value is written unless it is what not setting the key means.
Literal(v, default) == IF v = default THEN Unset ELSE v

Within(k, lo, hi) == {v \in Offered[k] : lo <= v /\ v <= hi}

\* What a row of the user's falls back to, shows, and may be set to: a floor
\* is this computer's value.
UserRows == Floors \cup Timings \cup {"device", "tray_idle"}

UserDefault(w, k) == IF k = "tray_idle" THEN 30 ELSE IF k = "device" THEN Unset
                     ELSE Value(Shown(system[w].text), k)
UserShows(w, k) ==
  LET mine == Shown(user[w].text)
  IN  IF k \in Timings THEN Value(WithUserOverlay(Shown(system[w].text), mine), k)
      ELSE IF k \in Floors
      THEN IF mine[k] = Unset \/ mine[k] < UserDefault(w, k) THEN UserDefault(w, k) ELSE mine[k]
      ELSE IF Values(user[w].text)[k] = Unset THEN UserDefault(w, k) ELSE Values(user[w].text)[k]
UserRange(w, k) ==
  IF k \in Floors THEN Within(k, UserDefault(w, k), RowOf(k).hi)
  ELSE IF k = "tray_idle" THEN Within(k, 0, 1440)
  ELSE IF k = "device" THEN Offered[k] \cup {Unset}
  ELSE Within(k, RowOf(k).lo, RowOf(k).hi)

-----------------------------------------------------------------------------
NoHelper == [pc |-> "none", base |-> Missing, new |-> <<>>, cur |-> Missing]
Paths    == {"embeddings_dir", "model_path", "detector_model_path"}
Guarded  == Paths \cup {"pinned"}

\* The script has a list of its own, with no pin and no path in it.
ASSUME ModesAssumption ==
  Modes \subseteq {parts \in Seq(Part) : \A n \in 1..Len(parts) : parts[n].key \notin Guarded}

\* The pins and paths a text gives, wherever in it.
Given(text) == UNION {{<<k, text[i].value>> : i \in {j \in KeyLines(text) : text[j].name \in Names(k)}}
                      : k \in Guarded}

\* Of InitialFiles and HandFiles: none opens a table called like a key, [motion]
\* say, which no configuration may, since motion is a number.
NoKeyTables(text) == \A h \in Headers(text) : \A k \in Keys : text[h].name # <<k>>
PlainFiles ==
  /\ \A initial \in InitialFiles : NoKeyTables(TextOf(initial[1])) /\ NoKeyTables(TextOf(initial[2]))
  /\ \A file \in HandFiles : NoKeyTables(TextOf(file))

Init ==
  /\ \E initial \in InitialFiles : sys = initial[1] /\ own = initial[2]
  /\ open = Windows /\ focus = NoWindow
  /\ system = [w \in Windows |-> Load(sys)]
  /\ user = [w \in Windows |-> Load(own)]
  /\ dirty = {} /\ apply = [w \in Windows |-> "idle"]
  /\ helper = [w \in Windows |-> NoHelper]
  /\ mode = Missing /\ tray = Missing
  /\ overlap = {} /\ during = {} /\ crossed = {}
  /\ roots = Given(TextOf(sys))
  /\ rows = 0 /\ applies = 0 /\ others = 0

-----------------------------------------------------------------------------
(* A window's frames.  What an Apply said is taken first in every frame. *)

Ready(w) == focus = w /\ apply[w] \notin {"ok", "refused"}
CanSet(w) == Ready(w) /\ rows < MaxRows

\* Mutant of Focus: the file is read again whatever waits.
FocusAlways(w) ==
  /\ w \in open /\ focus # w
  /\ focus' = w
  /\ system' = IF apply[w] # "running"
               THEN [system EXCEPT ![w] = Load(sys)] ELSE system
  /\ user' = IF w \notin dirty THEN [user EXCEPT ![w] = Load(own)] ELSE user
  /\ crossed' = IF w \notin dirty THEN crossed \ {w} ELSE crossed
  /\ UNCHANGED <<files, open, dirty, apply, helper, mode, tray, overlap, during, roots, counts>>

\* Mutant of Focus: only the system file is read again.
FocusOneFile(w) ==
  /\ w \in open /\ focus # w
  /\ focus' = w
  /\ system' = IF Changes(system[w]) = {} /\ apply[w] # "running"
               THEN [system EXCEPT ![w] = Load(sys)] ELSE system
  /\ user' = user
  /\ crossed' = IF w \notin dirty THEN crossed \ {w} ELSE crossed
  /\ UNCHANGED <<files, open, dirty, apply, helper, mode, tray, overlap, during, roots, counts>>

\* The frame in which the window gets the focus: show's reloads.
Focus(w) ==
  /\ w \in open /\ focus # w
  /\ focus' = w
  /\ system' = IF Changes(system[w]) = {} /\ apply[w] # "running"
               THEN [system EXCEPT ![w] = Load(sys)] ELSE system
  /\ user' = IF w \notin dirty THEN [user EXCEPT ![w] = Load(own)] ELSE user
  /\ crossed' = IF w \notin dirty THEN crossed \ {w} ELSE crossed
  /\ UNCHANGED <<files, open, dirty, apply, helper, mode, tray, overlap, during, roots, counts>>

Unfocus ==
  /\ focus # NoWindow /\ focus' = NoWindow
  /\ UNCHANGED <<files, open, system, user, dirty, apply, helper, mode, tray, ghosts, counts>>

\* set, for the system file.
SetSystem(w, text) ==
  /\ rows' = rows + 1
  /\ system' = [system EXCEPT ![w].text = text]
  /\ during' = IF apply[w] = "running" THEN during \cup {w} ELSE during
  /\ UNCHANGED <<files, open, focus, user, dirty, apply, helper, mode, tray,
                 overlap, crossed, roots, applies, others>>

\* number, switch and choice; the device row waits for OpenVINO.
SystemRow(w, k, v) ==
  /\ CanSet(w) /\ k \in SystemRows \cap DOMAIN Offered
  /\ v \in Within(k, RowOf(k).lo, RowOf(k).hi) /\ v # RowValue(system[w].text, k)
  /\ k = "npu_device" => RowValue(system[w].text, "backend") = 1
  /\ SetSystem(w, Edit(system[w].text, k, Literal(v, RowOf(k).default)))

\* The camera, and the template folder: what is typed or picked, or nothing.
FieldRow(w, k, v) ==
  /\ CanSet(w) /\ k \in {"device", "embeddings_dir"} \cap DOMAIN Offered
  /\ v \in Offered[k] \cup {Unset} /\ v # Values(system[w].text)[k]
  /\ SetSystem(w, Edit(system[w].text, k, v))

PresetShown(text) ==
  LET motion   == Value(Shown(text), "motion")
      residual == Value(Shown(text), "residual")
      same == {p \in 1..3 : Motion[PresetNames[p]] = motion /\ Residual[PresetNames[p]] = residual}
  IN  IF same = {} THEN Unset ELSE FirstOf(same)

\* A preset fills only what is not set by hand, so the two values go.
PresetRow(w, p) ==
  /\ CanSet(w) /\ "preset" \in DOMAIN Offered /\ p \in Offered["preset"]
  /\ p # PresetShown(system[w].text)
  /\ LET bare == Edit(Edit(system[w].text, "motion", Unset), "residual", Unset)
     IN  SetSystem(w, Edit(bare, "preset", Literal(p, 2)))

RemovePin(w) ==
  /\ CanSet(w) /\ Values(system[w].text)["pinned"] # Unset
  /\ SetSystem(w, Edit(system[w].text, "pinned", Unset))

\* set, for the user's file.
UserRow(w, k, v) ==
  /\ CanSet(w) /\ k \in UserRows \cap DOMAIN Offered
  /\ v \in UserRange(w, k) /\ v # UserShows(w, k)
  /\ rows' = rows + 1
  /\ user' = [user EXCEPT ![w].text = Edit(@, k, Literal(v, UserDefault(w, k)))]
  /\ dirty' = dirty \cup {w}
  /\ UNCHANGED <<files, open, focus, system, apply, helper, mode, tray, ghosts, applies, others>>

Discard(w) ==
  /\ Ready(w) /\ apply[w] = "idle" /\ Changes(system[w]) # {}
  /\ system' = [system EXCEPT ![w].text = TextOf(system[w].read)]
  /\ UNCHANGED <<files, open, focus, user, dirty, apply, helper, mode, tray, ghosts, counts>>

\* apply_now, where the bar lets it.
ApplyNow(w) ==
  /\ Ready(w) /\ apply[w] = "idle" /\ Changes(system[w]) # {}
  /\ LoadsText(system[w].text)
  /\ applies < MaxApplies /\ applies' = applies + 1
  /\ helper' = [helper EXCEPT ![w] = [pc |-> "prompt", base |-> system[w].read,
                                      new |-> system[w].text, cur |-> Missing]]
  /\ apply' = [apply EXCEPT ![w] = "running"]
  /\ during' = during \ {w}
  /\ UNCHANGED <<files, open, focus, system, user, dirty, mode, tray, overlap,
                 crossed, roots, rows, others>>

\* take_apply_result.
TakeResult(w) ==
  /\ w \in open /\ apply[w] \in {"ok", "refused"}
  /\ system' = IF apply[w] = "ok" THEN [system EXCEPT ![w] = Load(sys)] ELSE system
  /\ apply' = [apply EXCEPT ![w] = "idle"] /\ during' = during \ {w}
  /\ UNCHANGED <<files, open, focus, user, dirty, helper, mode, tray, overlap,
                 crossed, roots, counts>>

-----------------------------------------------------------------------------
(* The user's file is written once input settles, and when the window ends. *)

OwnWritten(by) ==
  crossed' = (crossed \cup {w \in open : w = focus \/ w \in dirty}) \ by

Settle(w) ==
  /\ w \in open \cap dirty
  /\ own' = user[w].text
  /\ user' = [user EXCEPT ![w].read = user[w].text]
  /\ dirty' = dirty \ {w} /\ OwnWritten({w})
  /\ UNCHANGED <<sys, open, focus, system, apply, helper, mode, tray, overlap,
                 during, roots, counts>>

SaveFails(w) ==
  /\ w \in open \cap dirty /\ dirty' = dirty \ {w}
  /\ UNCHANGED <<files, open, focus, system, user, apply, helper, mode, tray, ghosts, counts>>

\* on_exit.  A helper that was started goes on without its window.
Close(w) ==
  /\ w \in open /\ open' = open \ {w}
  /\ focus' = IF focus = w THEN NoWindow ELSE focus
  /\ IF w \in dirty THEN own' = user[w].text /\ OwnWritten({w})
                    ELSE own' = own /\ crossed' = crossed \ {w}
  /\ dirty' = dirty \ {w} /\ during' = during \ {w}
  /\ apply' = [apply EXCEPT ![w] = "idle"]
  /\ UNCHANGED <<sys, system, user, helper, mode, tray, overlap, roots, counts>>

\* SettingsWindow::with; its Apply starts a helper of its own.
Open(w) ==
  /\ w \notin open /\ helper[w].pc = "none" /\ open' = open \cup {w}
  /\ system' = [system EXCEPT ![w] = Load(sys)]
  /\ user' = [user EXCEPT ![w] = Load(own)]
  /\ UNCHANGED <<files, focus, dirty, apply, helper, mode, tray, ghosts, counts>>

-----------------------------------------------------------------------------
(* vinoauthface-helper write-config. *)

\* Mutant of Check: whatever the file was when the window read it.
CheckUnbased(cur, base, new) ==
  LET old == TextOf(cur)
      Kept(k) == cur # Missing /\ ParsesText(old) /\ Reads(new, k) = Reads(old, k)
  IN  /\ Len(new) <= MaxLines
      /\ LoadsText(new)
      /\ \A k \in Paths :
           Reads(new, k) # Unset /\ ~Kept(k) => Reads(new, k) \in Trusted
      /\ Reads(new, "pinned") # Unset => Kept("pinned")

\* Mutant of Check: any path will do.
CheckUntrusted(cur, base, new) ==
  LET old == TextOf(cur)
      Kept(k) == cur # Missing /\ ParsesText(old) /\ Reads(new, k) = Reads(old, k)
  IN  /\ Len(new) <= MaxLines
      /\ base = cur
      /\ LoadsText(new)
      /\ Reads(new, "pinned") # Unset => Kept("pinned")

\* config_write::check.
Check(cur, base, new) ==
  LET old == TextOf(cur)
      Kept(k) == cur # Missing /\ ParsesText(old) /\ Reads(new, k) = Reads(old, k)
  IN  /\ Len(new) <= MaxLines
      /\ base = cur
      /\ LoadsText(new)
      /\ \A k \in Paths :
           Reads(new, k) # Unset /\ ~Kept(k) => Reads(new, k) \in Trusted
      /\ Reads(new, "pinned") # Unset => Kept("pinned")

SysWritten(by) ==
  overlap' = overlap \cup ({w \in Windows : helper[w].pc = "checked"} \ by)

\* The helper is gone; its window, if there still, is told.
Answer(w, said) ==
  /\ helper' = [helper EXCEPT ![w].pc = "none"]
  /\ apply' = IF apply[w] = "running" THEN [apply EXCEPT ![w] = said] ELSE apply

\* The password is given, and the helper reads the file.
HelperChecks(w) ==
  /\ helper[w].pc = "prompt" /\ sys # Garbled
  /\ Check(sys, helper[w].base, helper[w].new)
  /\ helper' = [helper EXCEPT ![w].pc = "checked", ![w].cur = sys]
  /\ overlap' = overlap \ {w}
  /\ UNCHANGED <<files, windows, mode, tray, during, crossed, roots, counts>>

\* The prompt is dismissed, or the helper refuses or cannot write.
HelperRefuses(w) ==
  /\ \/ helper[w].pc = "prompt"
     \/ helper[w].pc = "checked"
  /\ Answer(w, "refused")
  /\ UNCHANGED <<files, open, focus, system, user, dirty, mode, tray, ghosts, counts>>

\* write_atomic.
HelperWrites(w) ==
  /\ helper[w].pc = "checked"
  /\ sys' = helper[w].new /\ Answer(w, "ok") /\ SysWritten({w})
  /\ UNCHANGED <<own, open, focus, system, user, dirty, mode, tray, during, crossed, roots, counts>>

-----------------------------------------------------------------------------
(* The other programs. *)

Another == others < MaxOthers /\ others' = others + 1

ModeReads(parts) ==
  /\ mode = Missing /\ sys # Garbled /\ Another
  /\ mode' = SetMode(TextOf(sys), parts)
  /\ UNCHANGED <<files, windows, helper, tray, ghosts, rows, applies>>

ModeWrites ==
  /\ mode # Missing /\ mode' = Missing
  /\ sys' = mode /\ SysWritten({})
  /\ UNCHANGED <<own, windows, helper, tray, during, crossed, roots, counts>>

\* Root's own hand: an editor, pin-camera.sh, deploy.sh.
HandWrites(file) ==
  /\ file # sys /\ Another
  /\ sys' = file /\ SysWritten({})
  /\ roots' = roots \cup Given(TextOf(file))
  /\ UNCHANGED <<own, windows, helper, mode, tray, during, crossed, rows, applies>>

TrayReads(minutes) ==
  /\ tray = Missing /\ own # Garbled /\ Another
  /\ tray' = WithMinutes(TextOf(own), minutes)
  /\ UNCHANGED <<files, windows, helper, mode, ghosts, rows, applies>>

TrayWrites ==
  /\ tray # Missing /\ tray' = Missing
  /\ own' = tray /\ OwnWritten({})
  /\ UNCHANGED <<sys, windows, helper, mode, overlap, during, roots, counts>>

-----------------------------------------------------------------------------
RowStep(w) ==
  \/ \E k \in SystemRows \cap DOMAIN Offered : \E v \in Offered[k] : SystemRow(w, k, v)
  \/ \E k \in {"device", "embeddings_dir"} \cap DOMAIN Offered :
       \E v \in Offered[k] \cup {Unset} : FieldRow(w, k, v)
  \/ \E p \in 1..3 : PresetRow(w, p)
  \/ RemovePin(w)

UserRowStep(w) ==
  \E k \in UserRows \cap DOMAIN Offered : \E v \in Offered[k] \cup {Unset} : UserRow(w, k, v)

WindowStep(w) ==
  \/ Focus(w) \/ RowStep(w) \/ UserRowStep(w) \/ Discard(w) \/ ApplyNow(w)
  \/ TakeResult(w) \/ Settle(w) \/ SaveFails(w) \/ Close(w) \/ Open(w)

HelperStep(w) == HelperChecks(w) \/ HelperRefuses(w) \/ HelperWrites(w)

OtherStep ==
  \/ \E parts \in Modes : ModeReads(parts)
  \/ ModeWrites
  \/ \E file \in HandFiles : HandWrites(file)
  \/ \E minutes \in Minutes : TrayReads(minutes)
  \/ TrayWrites

Next == Unfocus \/ OtherStep \/ \E w \in Windows : WindowStep(w) \/ HelperStep(w)

Spec == Init /\ [][Next]_vars

-----------------------------------------------------------------------------
TypeOK ==
  /\ open \subseteq Windows /\ focus \in open \cup {NoWindow}
  /\ DOMAIN system = Windows /\ DOMAIN user = Windows
  /\ dirty \subseteq open /\ crossed \subseteq open /\ during \subseteq open
  /\ apply \in [Windows -> {"idle", "running", "ok", "refused"}]
  /\ DOMAIN helper = Windows /\ \A w \in Windows : helper[w].pc \in {"none", "prompt", "checked"}
  /\ overlap \subseteq Windows
  /\ \A w \in Windows : w \notin open => apply[w] = "idle"

\* "edits are line by line" and "Comments and other keys are left as they
\* were" (keys.rs:4-10): whatever the text, a row sets its key to what was
\* picked, or unsets it, changes what no other key reads, and leaves a text
\* that parses parsing.
EditExact ==
  [][rows' > rows =>
     \A w \in Windows : \A k \in DOMAIN Offered : \A v \in Offered[k] :
       (SystemRow(w, k, v) \/ FieldRow(w, k, v)) =>
         LET old == system[w].text
             new == system'[w].text
             written == IF k \in SystemRows THEN Literal(v, RowOf(k).default) ELSE v
         IN  WellFormed(old) =>
               WellFormed(new) /\ Values(new) = [Values(old) EXCEPT ![k] = written]]_vars

\* Values a preset fills are not those "not setting it means" (window.rs:163).
PresetFills(text, k, v, default) ==
  k \in {"motion", "residual"} /\ v = default /\ Values(text)["preset"] # Unset

\* A row that has been set means what it shows once it is in the file: the
\* configuration that unlocking loads has that value, other rows keep theirs,
\* and the user's, never looser than this computer's, is honoured.  No row
\* makes of a file that loads one that Apply is refused for.
RowTakesEffect ==
  [][rows' > rows =>
     /\ \A w \in Windows : LoadsText(system[w].text) => LoadsText(system'[w].text)
     /\ \A w \in Windows : \A k \in DOMAIN Offered : \A v \in Offered[k] :
          /\ SystemRow(w, k, v) /\ ParsesText(system[w].text)
             /\ ~PresetFills(system[w].text, k, v, RowOf(k).default)
             => \A j \in SystemRows : RowValue(system'[w].text, j)
                                      = IF j = k THEN v ELSE RowValue(system[w].text, j)
          /\ UserRow(w, k, v) /\ k \in Floors \cup Timings /\ ParsesText(user[w].text)
             /\ system[w].text = sys /\ LoadsText(sys)
             /\ ~PresetFills(user[w].text, k, v, UserDefault(w, k))
             => Value(LoadForAuth(AsFile(sys), AsFile(user'[w].text)), k) = v]_vars

\* "it must have been made from the file as it is now (fingerprint), so a
\* second writer's change isn't lost" (config_write.rs:11-12): the helper
\* replaces a change made after the window read the file only when that was
\* written between the helper's own look at the file and its rename.
NoLostChange ==
  \A w \in Windows :
    helper[w].pc = "checked" => sys = helper[w].base \/ w \in overlap

\* "it can't set a camera pin" and "a model or template directory it names
\* anew must be root's" (config_write.rs:13-17): however windows, helpers and
\* scripts interleave, the system file's are those root's hand has written, or
\* lie where only root writes.
RootsPolicy ==
  sys # Garbled /\ LoadsText(TextOf(sys)) =>
    \A k \in Guarded : LET v == Reads(TextOf(sys), k) IN
      v # Unset => <<k, v>> \in roots \/ (k # "pinned" /\ v \in Trusted)

\* "changes wait for one Apply" (window.rs:3-5): a reload throws changes away
\* only when they are in what the helper wrote, or were made while it ran.
EditsWait ==
  [][\A w \in open \cap open' :
       (/\ rows' = rows /\ system'[w] # system[w]
        /\ Changes(system[w]) # {} /\ ~Discard(w))
       => apply[w] = "ok" /\ (w \in during \/ system[w].text = helper[w].new)]_vars

\* The window's save undoes what the tray or another window has written to the
\* user's file only if that was written while the window had the focus or
\* changes of its own: otherwise it has read the file since.  A file that
\* cannot be read is taken for none, and lost.
OwnKept ==
  \A w \in open : w = focus \/ w \in dirty =>
    own = user[w].read \/ w \in crossed \/ own = Garbled

\* "plain keys, as deploy.sh does, so it never lands inside a table"
\* (setting-mode.sh:148-149): what was chosen is what the file then says.
ModeTakesEffect ==
  [][\A parts \in Modes : ModeReads(parts) =>
       \A n \in 1..Len(parts) : Reads(mode', parts[n].key) = parts[n].value]_vars
=============================================================================
