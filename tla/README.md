# vinoAuthFace in TLA+

vinoAuthFace lets a PAM stack accept a face seen by an infrared camera in place
of a password. This directory holds a specification of it: modules translated
from the Rust source, configurations that TLC checks them under, and theorems
that TLAPS proves about them. Paths below are those of the repository, with
`core/` for `crates/face-auth-core/src/`.

Contents: [the system](#the-system) · [what is hard](#what-is-hard-about-it) ·
[the modules](#the-modules) · [the runs](#the-runs) · [fairness](#fairness) ·
[the proofs](#the-proofs) · [where code and words disagree](#where-the-code-and-its-words-disagree) ·
[what is not modelled](#what-is-not-modelled) · [plan](#plan)


## The system

| part | code | state it keeps | operations | talks to |
|---|---|---|---|---|
| PAM helper | `crates/face-auth/src/main.rs`, `confirm.rs`, `prompt.rs` | its threads, the terminal's mode, a placeholder on the screen | the gates before a scan, the scan, the confirmation; exit code 0 or 1 | everything below; PAM by environment and exit code |
| configuration | `core/config.rs` | `/etc/face-auth.toml`, the account's own overlay | load, fold, validate, narrow | read once by each program |
| gates | `core/seat.rs`, `environment.rs`, `user.rs`, `config.rs` (pin), `cameras.rs` (binding) | none: they read logind, `/proc`, the lid, sysfs | one read each | logind, kernel |
| lockout | `core/lockout.rs` | `state.bin`, `state.lock` per account | check, record_failure, record_success, peek | every scan of the account, through the files |
| scan loop | `core/lib.rs` `authenticate_prepared` | deadline, kept face frames, one count, motion seen | one frame per turn, the verdict | camera, lockout, detector, encoder |
| capture | `core/capture.rs` | a ring of mmap'd buffers | open, start, pair of frames, drop | V4L2 driver |
| template store | `core/storage.rs`, `seal.rs` | `embeddings.bin`, plain or sealed to the TPM | load, save | enrolments and scans, through the file |
| camera list | `core/cameras.rs` | the `cameras` file | load, record, check | the same |
| enrolment | `core/lib.rs` `enroll`, `enroll_append`, `enroll_guided` | templates in memory for seconds | capture, then save, then record | store, list, camera |
| guided enrolment | `core/guided.rs`, `crates/face-enroll/src/main.rs` | step, baseline pose, held pose | one frame per turn; Skip and Cancel from a stdin thread | camera, settings window |
| model identity | `core/config.rs`, `storage.rs`, `lib.rs` | the tag in `embeddings.bin`; which detector files exist | tag, compare, refuse | enrolments, scans, `deploy.sh` |
| config writer | `core/config_write.rs`, `vinoauthface-helper` | `/etc/face-auth.toml` | compare with what the caller read, check, replace | settings window, which starts one helper per Apply |
| settings window | `crates/face-auth-settings` | both configuration files as text, changes waiting, an Apply under way | rows, Apply, Discard, reload, save the user's own | the helper, `face-enroll`, the files |
| other writers | `setting-mode.sh`, `face-auth-tray/src/idle.rs`, `pin-camera.sh`, editors | between their read and their rename | one key in place, or the whole file | the two configuration files |
| tray | `crates/face-auth-tray` | one event loop, worker threads, `busy`, the status shown | actions, status polls, restart, idle delay | root helpers as processes; `--enrolled`; `/proc` |
| update check | `core/update.rs` | none | ask for the newest release | tray |
| vision | `core/detector.rs`, `scrfd.rs`, `blazeface.rs`, `preprocess.rs`, `inference.rs`, `verify.rs` | none between frames | detect, align, encode, compare | scan loop, enrolment |
| install scripts, policies, diagnostics | `*.sh`, `selinux/`, `pam/`, `face-camera-diag`, `face-similarity-check`, `doctor.rs` | none of their own | copy, print | administrator |

`PROJECT.json` lists every part with its status.

**How they meet.** There is no daemon. Each `sudo`, login or unlock runs a fresh
`vinoauthface-auth`; several may run at once for one account. They meet only in
the account's files: `state.bin` under a `flock`, `embeddings.bin` and `cameras`
with no lock at all, each replaced by a rename. The two configuration files have five
writers that know nothing of each other; only the root helper compares before it
writes. Inside one helper four threads
run: main, the preparation (delay, pin, binding, lockout, templates), the camera
opening beside the templates, and the model load beside both. The V4L2 driver
fills buffers at its own pace. `face-enroll` reads stdin on a thread of its own.

**What makes each part correct**

- *Lockout*: no attempt is lost or left uncounted because of another process;
  only a match clears the count, or a state file that is lost or cannot be read;
  an account known to cool down admits no new scan; nobody waits for ever for a
  process that was stopped.
- *Scan loop*: a match takes two faces, motion and a counted attempt; a scan
  ends within its window, one grace period, and what one turn may overrun.
- *Store and list*: one model's templates only; what was enrolled stays until
  something replaces it; sealed stays sealed; the list and the store speak of
  the same enrolments; a scan uses a camera on the list.
- *Guided enrolment*: opposite poses are opposite although left and right are
  never assumed; everything is measured from a straight-on pose; it ends.
- *Capture*: what is read is not being written; no buffer is forgotten; a pair
  is fresh and consecutive, so that one of its frames is lit.
- *PAM helper*: a grant took every gate the configuration asks for; the camera
  stays dark before; a key typed early confirms nothing; the run ends, so the
  password is asked for.
- *Configuration*: the account's own file can only make things stricter.
- *Model identity*: templates are compared only with faces of the same models,
  and nobody is sent to enrol again for nothing.
- *Configuration as text*: an edit changes its key and nothing else, and a row
  means what it shows.
- *Settings window and config writer*: nobody's change is lost to another
  writer, changes wait for their Apply, and what only root may set stays root's.
- *Tray*: busy exactly while something runs; the status shown comes to be true;
  a one-click enrolment replaces nothing; the icon hides only when all is quiet.


## What is hard about it

`PROJECT.json` lists the hazards with their lines and the properties that would
catch each one going wrong. In short:

- *interleaving of processes*: lockout updates, scans that pass the check
  together, two enrolments, an enrolment and a scan;
- *interleaving of writers*: a window, its helper, a script and an editor over one
  file; two windows; the tray and a window over the user's own;
- *messages and flags*: `busy` is read at a click and set when the loop gets there;
  a restart drops what is queued and leaves the helpers running;
- *interleaving of threads and of the driver*: the preparation, the camera and
  the model load; frames that finish while old ones are handed back; a cancel
  read once per frame;
- *stale reads*: the seat, the lid and the camera's device node are read once,
  seconds before they matter; a template buffer is read before the capture; the
  default detector is looked up again at each use; a status is up to 30 s old;
- *failures half way*: a kill between load and rename, or between the two files
  of an enrolment; a TPM that disappears; a QBUF that fails;
- *time*: a lock polled with a timeout, a capture that outlives the deadline, a
  clock set back, a start delay that a retry must not pay twice;
- *boundaries*: a saturating count, a capped shift, a frame buffer at its limit.


## The modules

A model keeps the control of the code, its guards, early returns, errors and the
order of its effects. Data is cut down to what decisions depend on: a frame to
usable / a face / moving / matching, a template to the run that captured it, a
camera to its identity, a time to ticks, a setting to an integer.

| module | of | about |
|---|---|---|
| `LockoutPolicy` | `core/lockout.rs` | the pure part: count, delay, cooling down |
| `LockoutCounter` | (abstract) | what the lockout promises: one record, counted and cleared in single steps |
| `Lockout` | `core/lockout.rs`, its callers in `core/lib.rs` | scans as processes over `state.bin` and `state.lock`; implements `LockoutCounter` |
| `Scan` | `core/lib.rs` | one scan from first frame to verdict |
| `Enrolment` | `core/lib.rs`, `storage.rs`, `cameras.rs` | enrolments and scans as processes over the two files |
| `Guided` | `core/guided.rs`, `crates/face-enroll/src/main.rs` | one guided run before a face |
| `CaptureRing` | `core/capture.rs` | program and driver over the ring |
| `Config` | `core/config.rs` | fold, defaults, clamps, validation, overlay; no variables |
| `Helper` | `crates/face-auth/src/*`, `core/seat.rs`, `environment.rs`, `lib.rs` | one run under PAM; uses `Config` |
| `Models` | `core/config.rs`, `storage.rs`, `lib.rs`, `deploy.sh` | model tags and the detector that is there |
| `ConfigText` | `face-auth-settings/src/keys.rs`, `face-auth-tray/src/idle.rs`, `setting-mode.sh` | the file as lines, and the edits of it; no variables, uses `Config` |
| `SettingsWindow` | `face-auth-settings/src/window.rs`, `core/config_write.rs` | windows, helpers and other writers over both files |
| `Tray` | `crates/face-auth-tray/src/*`, `face-auth-settings/src/enrol.rs` | the event loop, workers, menu, the window's Face page |
| `MC…` | | the small instance TLC explores |
| `…_proofs` | | the theorems about the module of that name |

They join where the code calls across: `Lockout` abstracts a scan to what it does
to the account's record, `Scan` is that scan in detail with an update as one call
that takes up to `LOCK_WAIT`; `Helper` sees a scan by its outcome and the lockout
and store as surroundings other processes change; `Guided` ends where
`Enrolment`'s `SaveStore` begins. `SettingsWindow` asks `Config` what a text means, so
what a row promises is checked against the very configuration `Helper` runs
under. `Tray` sees an enrolment by whether it saves, and `Models` takes one apart
for the sake of which models made what.

### Lockout

State: `file` is what was last saved in `state.bin` and `readable` whether it is
still there and whole; `lock` the holder of the `flock`, and per scan `pc`, the update
under way `op`, its private copy `rec`, what its updates returned `result`. `stopped`
are processes under SIGSTOP.

`Load` is `LockoutState::load`, which returns the default, no failures, whenever it
does not get a whole file of its own version: missing, a link, a directory, too long,
too short, of another version, or an open or read that fails ("A missing or corrupt
file resets the backoff", `core/lockout.rs:62-91`). The model has both ways to get
there: `Spoil` makes the file unreadable for everybody until the next save, and a
scan of `MayMiss` may fail to read a file that others can (`Loads`). Either way a scan
may pass the check in a cooldown and the next save counts from one.

Four history variables name what the code accepts, so that the properties can say it
accepts nothing else: `burst` counts the attempts added in a running cooldown,
`unchecked` are scans that passed one because their read failed, `blind` scans whose
private copy rests on a failed read, `overtaken` scans whose copy is older than a
save that had no lock, or than one they had none against.

| property | what it says | what it names as accepted |
|---|---|---|
| `CooldownOnlyGrows` | the end of a cooldown is never brought forward | a match; a file lost or not read; an unlocked save, or one over it; a stamp of a clock that was set back |
| `BurstBound` | attempts added in a cooldown, with those on their way, are fewer than the scans at once | scans whose read failed |
| `OnlyMatchClears` | the count never goes down | as for `CooldownOnlyGrows` |
| `SavesOnTop` | a save is the change applied to what the file holds then | a failed read counts from nothing; an unlocked save takes a count with it |
| `ImplementsCounter` | one indivisible count or reset, where `flock` works | the counter's own `Forget`, and `MayReset` for a scan that may fail to read |

| action | code |
|---|---|
| `Check` | `check`: reads `state.bin` without the lock, refuses while cooling down |
| `EndUnseen` | a scan that never sees a face ends uncounted |
| `SeeFace`, `Match` | the calls of record_failure (first face) and record_success |
| `Acquire`, `GiveUp` | `update`: `LOCK_NB` in a loop, `LockBusy` after `LOCK_WAIT` |
| `LockFails`, `ProceedUnlocked` | the lock file cannot be opened; `flock` is refused and the update goes on |
| `LoadAndChange`, `Save`, `SaveFails` | load (which may fail), change, temporary file and rename, unlock |
| `NoMatch` | the scan ends with its count standing |
| `Kill`, `Stop`, `Continue`, `Retry` | signals, and PAM asking again |
| `Tick`, `TurnBack` | the wall clock, and its being set back |
| `Spoil` | `state.bin` is deleted, truncated, made a link, or of another version |

Two scans can see each other only at the unlocked read, the flock, the load and
the rename, so those are the steps. Dying before the rename is dying in
`changed`; the kernel drops the flock of a dead process.

### Scan

`pc` names the place in the loop: `top` (is an extension due?), `due` (is the window
over? capture), `captured` (quality and detector), `face` (count, kept frames),
`encode` (compare, verdict). The code reads the clock twice there, at `core/lib.rs:335`
and again at 340: `Extend` or `Look` is the first reading, with a lag after it, and
`Expire` or a capture the second. `slipped` notes a deadline that passed between the
two, the one case in which `GraceIsGiven` lets a face that matched go without its
extension. `Capture`, `CaptureFails` are one pair of frames; `RejectFrame` all the reasons to nap and go on; `CountAttempt` and
`FaceAgain` the one count; `Baseline` and `Compare` the kept frames with
`drop_oldest_face`; `NoMatchHere`, `MatchPending` and `Match` the comparison;
`Abort` an error that leaves the function. `now` advances by what captures,
updates, naps and the lag take.

### Enrolment

`BeginFresh` and `BeginAppend` are the entry points with their checks, in the
code's order (room, unreadable store, model tag); an append has read the store then,
and `OpenCamera` comes after it: a second process is refused the camera while another
holds it (`CameraFree`), so of two runs on one camera the captures come one after the
other, and the reads of the store need not. `Capture` is the capture loop by
how many templates it yields; `SaveStore` is the rename of `embeddings.bin`, sealed
if the TPM works then; `ReadList` and `WriteList` are `cameras::record`; `RunEnds`
is an end at any point, with `torn` noting an end between the files. A scan walks
`scan_prelude`: `ScanListed`, `ScanAllowed`, `ScanLookup`, `ScanLoad`,
`ScanSealRequired`, `ScanOpen`, `ScanStart`, `ScanEnds`. `Replug` and `TpmTurns`
are the world. A store is the set of runs its templates come from, its size, its
model tag and whether it is sealed; `Legacy` stands for a store of version 1.

### Guided

`Begin` starts a step, `Pause` and `PauseOver` are the glasses pause, `Skip`,
`Cancel` and `TimeOut` what is looked at before a frame, `TakeFrame` the capture.
Then one of `FrameFails`, `NoFace`, `NotInPose`, `Hold`, `Alike`, `Keep` is the frame's
outcome (`NotInPose` also for a face too far away, which drops the held pose: `TooFar`); `StepDone`, `StepEnds` and `NothingStraight` close a step. `Types` and
`Closes` are the stdin thread. Poses are in hundredths; the baseline is the mean
of the straight-on templates, kept as sums so that it needs no division.

### CaptureRing

`owner` says who has a buffer (program, queued, filling, done), `num` which frame
is in it. `StartStream`, `StartFails`, `Close` are the life of a stream;
`BeginPair` and `BeginCold` a call; `Discard`, `Return`, `ReturnFails`, `DiscardEnds`,
`DiscardFails` are `discard_queued`; `Dequeue`, `NoFrame`, `Read`, `Requeue`,
`RequeueFails` are `capture_frame`. `FrameStarts`, `FrameEnds` and `FrameDropped` are
the driver, which hands finished buffers back oldest first.

### Config and Helper

`Config` has the settings the authentication path reads. A file is its flat keys,
its grouped keys and a preset; `FoldSections` folds them, `WithUserOverlay`
applies the account's own file, key by key where the code `Honours` it; `Value` is an
accessor with its default and its clamp. One policy stands for settings the code
treats alike.

`Helper` follows `main`: `PreScan`, `LoadConfig`, `ReadSeat`, `ReadSession`,
`SessionGone`, `Skip`, then three threads: `ModelsLoad`, `Preparation` (`StartDelay`,
`Wake`, `VerifyPin`, `CheckBinding`, `CheckLockout`, `Resolve`, `StoreLoads`, `Join`)
and `CameraOpens`; then `Joined`, `ShowPrompt`, `Scan`, `Erase`, `Verdict`, and the
question: `Ask`, `TerminalFails`, `RawMode`, `ReadKey`, `NoAnswer`, `Restore`. Around
it `SwitchSeat`, `MoveLid`, `MoveCamera`, `MoveLockout`, `MoveTemplates`, `TypeKey` and
`Tick`. `ever` remembers which gates were open at some time of the run: a grant
cannot demand that a gate is still open (nothing in the code could), only that it
was open during this very run and not an earlier one. A request has the ancestor that
is an ssh server and the one that could not be read, by how far up they are:
`UnderSsh` finds either within `MAX_ANCESTRY_DEPTH`.

### Models

State: the detectors installed, the configuration, the store (its tag, which
models made its templates, whether some are from version 1, of unknown origin),
and per process what it read and loaded. `Start` reads the configuration, `New`
loads the detector, `Load` the store, `CheckModelTag` compares tags, `Save` and
`Verify` are the ends. `Deploy` installs the new detector at any moment and
`Configure` changes the configuration. `DetectorPath` is evaluated at each use, as
the code does. Installing the new detector under a process that has loaded the
old one by default is a case of its own (`caught`): the properties hold up to it,
and what goes wrong then is told [below](#where-the-code-and-its-words-disagree).

### ConfigText

A text is a sequence of lines: headers, keys, commented-out keys, anything else.
`Edit` is `keys::edit` (winner first, others commented out, `Add` for a key that is
not there), `WithMinutes` the tray's own edit, `SetMode` the script's, which takes out the
lines of every part of a choice and writes the parts at the end ("security" has four). `Reads` and
`AsFile` say what a text means, `WellFormed` what TOML refuses.

### SettingsWindow

State: the two files; per window its texts as read and as changed, its Apply and
the helper that Apply started; `mode` and `tray`, other programs between read and
rename. History variables name the excuses: `overlap` (somebody wrote under a
helper's check), `during` (a row was changed while its Apply ran), `crossed` (the
user's file was written while the window had the focus or changes of its own),
`roots` (what root's own hand has set).

| action | code |
|---|---|
| `Focus`, `Unfocus`, `Open`, `Close` | `show`'s reloads, `SettingsWindow::with`, `on_exit` |
| `SystemRow`, `FieldRow`, `PresetRow`, `RemovePin` | rows of the system's file, with their defaults and ranges |
| `UserRow`, `Settle`, `SaveFails` | rows of the user's file, and its save |
| `ApplyNow`, `Discard`, `TakeResult` | the Apply bar |
| `HelperChecks`, `HelperWrites`, `HelperRefuses` | `config_write::check`, `write_atomic`, the prompt dismissed |
| `ModeReads`, `ModeWrites`, `TrayReads`, `TrayWrites`, `HandWrites` | the script, the idle menu, an editor |

A helper's check and its rename are two steps because nothing holds the file
between them.

### Tray

State: the store as far as the tray cares (0, or which save brought it into
being), the `Tray` struct, the loop's place and locals, the queue, a job per worker,
the window's Face page, and enrolments whose parent is gone. `RecvRun`, `RecvDone`,
`RecvUpdate`, `RecvMinutes`, `RecvTouch`, `RecvQuit` and `RecvTimeout` are the messages;
`Look`, `Show` and `Rest` the rest of a round: `/proc`, the store when it is due, and
the icon. `Click` and `ClickOther` look at the struct under its lock and send;
`SetBusy`, `Acts`, `Fails`, `Finish`, `Report` are `perform` in a worker. `WindowOpens` to
`WindowCloses` are the Face page; `OrphanEnds`, `Shell` and `ScanTurns` the world.
`Start` takes the lock of the one instance; where there is no lock to be had a second
tray runs beside the first ("a second tray beats no tray", `main.rs:927`), which is
`SecondTray`: it reads the status and may enrol on that answer. A look
at the store and showing its answer are two steps: anything may happen between.


## The runs

| run | instance | shows | states |
|---|---|---|---|
| `lockout_safety` | 3 scans, one refused its `flock` and liable to miss `state.bin`, which anything may spoil; threshold 1, cooldowns of 1 and 2 ticks, count ≤ 3, clock ≤ 2 | no verdict goes uncounted for a busy lock (`NoUncountedVerdict`); a cooldown is overrun only by scans already past the check (`BurstBound`) and never ended early but as named (`CooldownOnlyGrows`) | 1.8 M |
| `lockout_ends` | 2 scans, one of which may be stopped for ever and one miss `state.bin`, which may be spoiled; the clock may go back; count ≤ 3, clock ≤ 2 | the files and the lock implement one indivisible counter (`ImplementsCounter`); every scan ends (`ScansEnd`) | 197 k |
| `scan_safety` | window 20, grace 3, liveness window 12, interval 3; captures take 1, 2 or 4, updates 0 or 1, the time between the two looks at the clock 0 or 1; 2 frames kept, 3 errors | `MatchEarned`, `TimeBound`, `GraceIsGiven`, `EvidenceIsRecent`, `Terminates` | 114 k |
| `enrol_cameras` | 3 runs one after another, 2 cameras and one without identity, 1 scan, sealing on | `FilesAgree`, `OwnCamera`, `ImprovesKeep` | 1.9 M |
| `enrol_improve_together` | 2 improves of an account that has templates, on one camera, sealing off | `ImprovesKeepEachOther` is *violated*: a finding | |
| `guided_safety` | 6 poses, one of them too far away, steps of 4 frames, a pause of 1, one line typed | `OppositeWays`, `RunEnds` | 570 k |
| `camera_ring` | 3 buffers, 7 frames of the sensor | `ReadsOwnBuffer`, `RingStaysFull`, `Fresh`, `Consecutive`, `CallsReturn` | 980 k |
| `helper_run` | 12 requests, 4 × 3 files, 10 worlds, 1 change, 2 keys waiting, clock ≤ 3 | `OverlayNarrows`, `GrantGated`, `EmitterGated`, `DelayPaidOnce`, `PinHolds`, `ConfirmFresh`, `RunEnds` | 808 k |
| `models` | 2 processes, 2 encoders, both detectors, the new one installed at any moment | a tag tells the truth (`TagTells`), no comparison across models (`ComparedAlike`), no refusal for nothing (`RefusedRightly`) | 185 k |
| `settings_window` | 1 window, 5 pairs of files, 2 rows changed, 1 Apply, 1 other write | `NoLostChange`, `RootsPolicy`, `OwnKept`, `EditExact`, `RowTakesEffect`, `EditsWait` | 180 k |
| `settings_mode` | the same, 2 pairs of files; the script sets "security" to strict | `ModeTakesEffect` is *violated*: a finding | |
| `tray` | 2 workers, 3 messages, 2 saves, 1 question unanswered, 2 events, a delay of 2 ticks, a poll every tick | `BusyFollows`, `KnownReplace`, `HidesWhenQuiet`, `StatusFollows` | 658 k |

Type invariants, and some properties that a theorem
covers for every instance (`SavesOnTop`, `OnlyMatchClears`, `OneModel`, `SealHolds`, `BoundScan`,
`MeasuredFromStraight`), are proved and not run. Each property has a mutant in
`PROJECT.json`: a definition that models code, changed as a slip in that code would
change it, under which the property fails.

**Why the bounds are enough.** Three scans are the least that let one be inside an
update, one wait for it and one be past the check; a threshold of 1 with a count
up to 3 reaches no cooldown, a cooldown, a doubled one at its cap, and the
saturated count. Two ticks let a cooldown begin and end. One scan without a working
`flock`, or with a failing read, meets two with: two that fail together are within the
proofs. Where the clock may go back, or somebody is stopped, two scans suffice: what
matters is one process and its rival. In `scan_safety` a capture may be longer or
shorter than the interval and the grace period, the window holds more frames than the
buffer, and a tick may pass between the two looks at the clock. Three
enrolments are a fresh one on each of two cameras and an improve, in each order;
concurrent enrolments conflict pairwise. The six poses are one straight on, one for
each way of a turn and a tilt, and one too far away; a step of four frames has room for two
frames held and kept twice. Three buffers are one with the program, one filling
and one queued or finished, and seven frames go twice round that ring. The four
system files have each kind of setting in each spelling, the user files try to
weaken, to strengthen and to break; requests have an ssh server near, one beyond the
depth looked at, and an ancestor that cannot be read; one change of the surroundings falls between
any two steps. Changes and the clock are the only things `helper_run` bounds that
the proofs do not need. Two processes are one that saves and one that reads in
`models`, where each starts, loads and ends at any moment. In `settings_window` the
five files are one with comments, one with tables and both spellings of a key, one
that presets, one with what only root may set, one that does not parse; each
property but `RowTakesEffect` and `EditExact`, which are about one edit of any
reachable text, needs one write of somebody else's beside one Apply. A second
window is beyond that run and within the proofs. In `tray` two workers are two
clicks the loop had not got to, two saves an enrolment and one that replaces it,
and two events let anything at all meet anything else; the delay is longer than a
poll, so that a poll falls into it.

Deadlock is checked where the model never stops by itself: scans retry, an ended
scan keeps returning its result, cameras and the TPM change. The guided run, the
ring after the last frame, the helper after its exit, processes that have ended in
`models`, and a window or tray once nobody does anything do stop, and their runs
say so with `CHECK_DEADLOCK FALSE`. Symmetry is used between runs, cameras,
processes and models, in runs without liveness.


## Fairness

- `Lockout`: weak fairness of each scan's own steps (`Progress`): the scheduler runs
  every process that is not stopped. Nothing is fair about failures, kills, the
  clock or being continued. The lock is polled and a wait ends by its timeout,
  which is why `ScansEnd` holds though the holder never runs again.
- `Scan`: weak fairness of its one thread. Each wait (poll, flock, nap) has a timeout;
  captures take at least a tick.
- `Guided`: weak fairness of the program, none of the person: `RunEnds` rests on the
  step timeout alone.
- `CaptureRing`: weak fairness of the program, none of the driver: `CallsReturn` rests
  on the timeout of `poll`.
- `Helper`: weak fairness of each of the four threads and of time. The terminal read
  has a timeout of twenty seconds and the start delay ends; nobody has to type.
- `Tray`: weak fairness of the loop's steps and strong fairness of time, which
  passes only while the loop waits (`recv_timeout` has one). None for workers, the
  prompts they wait in, the window or people: `StatusFollows` holds though a worker
  hangs for ever.
- `Enrolment`, `Models` and `SettingsWindow` promise nothing that must happen.


## The proofs

Eight modules of proofs, for any number of scans, runs, buffers, frames, cameras,
windows, workers, any policy, any window and interval, and any two configuration
files. Assumptions on constants are named in the modules (`PolicyAssumption`,
`ScansAssumption`, …) and say no more than their types and what the code enforces
(`threshold.max(1)`, a finite number of processes, a non-empty ring). `ModelsAssumption`
says that file names tell models apart, as the tag takes them to. A theorem that
assumes more has it in its statement: that no `flock` is refused (`Refused = {}`), that the
clock is not set back, that enrolments run one at a time, or that no file opens a table
called like a key (`PlainFiles`, which TLC evaluates on the files of `settings_window`).

- **`Lockout_proofs`.** `TypeOK` and `LockExclusive` are inductive by themselves.
  `SavesOnTop` needs both: under the lock a file changes only by its holder, so what
  the holder read is still there when it saves, unless a save without the lock came
  between (`overtaken`) or nothing could be read (`blind`). From it follow
  `OnlyMatchClears` and `CooldownOnlyGrows`, the latter with `CountPushesBack`: one
  failure more never shortens the delay, however often it is doubled (`Shifted`, a
  recursive function, grows by induction on the number of doublings) and wherever its
  cap is. None of these assumes a working `flock` or a readable file: where either
  fails the statement names it. The refinement of `LockoutCounter` (`ImplementsCounter`:
  each step is a step of the counter or a stutter, by `Simulation`) is the one that
  assumes that no `flock` is refused (`Refused = {}`); without it a count really is
  lost, and the counter has no such step. Its counter forgets when the file does.
  `BurstBound` is inductive once one knows that a clearing update holds the empty
  state; it needs a clock that is never set back. `NoUncountedVerdict` is inductive as
  it stands, given `TypeOK`; it assumes nothing about the lock or the file.
- **`Scan_proofs`.** One invariant, `IInv`: `Shape` ties calls, counted, errors and kept
  frames to the place in the loop; `Timing` says how far beyond the deadline each
  place may be; with `GraceIsGiven`, `EvidenceIsRecent` and `FramesBounded`. `MatchEarned`
  and `TimeBound` follow. `Looked`, a part of it, says what the first look at the clock
  left for the second: an extension made, not wanted, or missed by a deadline that
  passed since (`slipped`). `FramesBounded`, a bound of `MAX_LIVENESS_FRAMES` and the
  newest, is proved and not checked separately.
- **`Enrolment_proofs`.** Four invariants for runs that may overlap: what a run holds is
  of its own model (`ModelInv`), fits with what it may add (`RoomInv`), is sealed if a
  scan will use it (`SealInv`), and the camera plugged in is still an allowed one
  (`BoundInv`, which assumes that cameras are not exchanged inside a run). Three for
  runs one at a time: `AloneInv` (one run is active, and an append holds what is
  stored) gives `ImprovesAreKept`, which `enrol_improve_together` shows false without
  that; `FilesInv` (the list accounts for the store, and between the two files what
  the run keeps of it does) gives `FilesAlwaysAgree`; `ScansInv` follows a scan that
  reads the list, then the store, while both change, and gives `ScansHaveOwnCamera`.
  `Enrolment` takes a tag for the model that made the templates; that this is so
  is the subject of `Models`, whose theorems are in this module too. `TagInv`,
  inductive with the type invariant: the tag of the store, and of every copy of it
  a process holds, names all that made it; a process would still tag with the
  models it runs; and one past the tag check holds both. Each holds unless the new
  detector arrived under a process (`caught`), which gives `TagTells`,
  `ComparedAlike` and `RefusedRightly`.
- **`Guided_proofs`.** `Shape` and `WaysInv`: what is kept went the way recorded for its
  axis, steps to come have kept nothing. `RoomIsEnough` (no run adds more than the
  ten templates looked for before the camera opens) and `HeldStill` are proved.
- **`CaptureRing_proofs`.** `Order` (frames in the ring are different, the newest is
  filling), `Emptied` (as many old frames are left as `discard_queued` has rounds
  left: why a round per buffer is enough, by cardinality) and `Gapless` (after a
  frame of the pair come all the frames since, until one is dropped) give `Fresh`
  and `Consecutive`.
- **`Helper_proofs`.** `PastMain` and `PastPrelude` say which gates a thread that is past
  them has seen, `Threads` where the others are meanwhile, `Matched` and `Terminal`
  what the verdict and the question rest on; `GrantGated` and `EmitterGated` follow
  through `GatesOpened`. `OverlayNarrows` rests on `OverlayNarrower`, a lemma about
  any two files with no state in it. `TerminalLeft` (no exit leaves the placeholder
  or raw mode behind) is proved and not checked separately.
- **`SettingsWindow_proofs`.** Three layers, for any number of windows and writers.
  *Whose text is in which file when*: `Inv` is `TypeOK`, `Shape` (each window has its
  texts and its helper), `NoLostChange`, `OwnKept` and `Applied` (until an Apply's
  result is taken, what waits is what the helper was given, unless a row changed
  meanwhile), without which `EditsWait` is not inductive.
  *What is in the texts*: `TextsTyped` (every edit makes a text of a text), and
  `RootedInv`: in the system file, in the text the script is about to write and in one a helper
  has checked, each line that a pin or path could be read from is of root's hand, or
  lies where only root writes. It is about
  lines and not about what is read, because a script that drops a line or opens a
  table changes which line is read; `RootsPolicy` follows.
  *What an edit makes of a text*: `EditIs` says of each way `keys::edit` has (replace
  the winner, comment out, append to a table, next to an example, at the top) that
  it leaves every other key's line in the table it was in, every header, and no
  more than one new line, the key's (`Carried`), which is in no table the text opens
  further down (`Fits`). From that, in any text, the edit changes the value of its key alone and
  leaves a text that parses parsing (`EditSets`): `EditExact`. `RowTakesEffect` adds what
  a text with these values loads as (`LoadsIs`), through the fold of both spellings
  and presets, the clamps and the defaults of `Config`, against the window's own
  table of defaults and ranges (`RowKnown`). Both need `PlainFiles`: with a table
  `[motion]` in the file (for `[liveness_motion_threshold]`), a new line `motion = 2` would
  make a text that no longer parses. No configuration may have such a table, since
  the key is a number, no edit opens one (`TablesInv`, `OwnTablesInv`), and one written by hand already fails to load.
- **`Tray_proofs`.** `KnownInv`: every view of the store (the struct's, the loop's, the
  window's) and every job that rests on one is sound, as saves only grow, so
  `KnownReplace`. `BusyInv`: unless two clicks outran the loop at most one worker
  works, and `busy` is its. `QuietInv`: the loop's own count of ticks lags what there
  was to see by one at most, so `HidesWhenQuiet`.

**Induction.** The library's induction theorems take an operator as a parameter,
which the installed provers cannot instantiate. Where a proof needs induction
over the length of a text or the number of doublings, it takes the set of
counterexamples and a least one of them (`NatLessThanWellFounded`, `WFMin`). For
that the models write recursion as recursive functions, and the words of a key
as a set of their own (`Words`) rather than all strings.

**Only model-checked**: what must eventually happen (`ScansEnd`, `Terminates`, the two
`RunEnds`, `CallsReturn`, `StatusFollows`). They need fairness and ENABLED, out of
this prover's reach. Every other property of the passing runs has a theorem.


## Where the code and its words disagree

Two runs show one each:

1. `enrol_improve_together`. `enroll_append` (`core/lib.rs:632`) loads the store,
   opens the camera, captures for seconds and saves the whole buffer, with no lock and
   no second look. The camera serves one process at a time, but the store is read
   before it opens: an improve that read the store, and waits in front of the camera
   until another improve has captured, saved and reported success, then drops what
   that one added, and reports success too. `docs/tray.md:54` says of Retrain face that it
   "captures more frames (new lighting, glasses) and keeps the old ones",
   `docs/settings.md:85` "keeping them". The run begins with an account that has
   templates and takes nothing but two improves.
2. `settings_mode`. `setting-mode.sh:176` puts its key at the end of the file;
   lines 148-149 say "so it never lands inside a table". Where the file ends in a
   table, `[liveness]` say, the key lands in it, nothing reads it, and the old line
   is gone: the default applies, and the script's own status says the choice is made.
   The menu gets there by "security", whose four keys all land there. Lines are
   dropped by their text alone, so `[lockout]`'s own `threshold` goes with the match's.

Others were met on the way; the models take them as the code has them, and the
properties name them as the cases they are:

- *A detector installed under an enrolment.* A process that has loaded the old
  detector by default tags its templates with the new one once that file appears
  (`core/config.rs:516`, `core/lib.rs:619`): embeddings across two spaces, which
  `core/config.rs:475-477` says the tag makes "a clear error". (`caught` in `Models`.)
- *An append to a store of version 1* takes the current tag for templates of
  unknown origin (`core/lib.rs:647-649`, "Appending under a different model would
  mix incompatible vectors"). (`old` in `Models`, `Legacy` in `Enrolment`.)
- *No TPM.* With sealing on, an enrolment without a TPM stores a plain file and
  succeeds (`core/storage.rs:375`); every scan refuses that file
  (`core/storage.rs:224`). `docs/security.md:80`: "Hardware without one still works."
- *A cancel that comes late.* `control()` is asked before a frame and during the
  pause, never after the last frame (`core/guided.rs:362`): a cancel that arrives
  then is ignored and the run is saved. `crates/face-enroll/src/main.rs:82`:
  "cancel", or closing stdin, "stops without saving".
- *A match whose reset is not written.* `record_success` fails or finds the lock
  busy, access is granted and the count stays (`core/lib.rs:691`);
  `docs/troubleshooting.md` says the next match resets it. `LockoutCounter`'s `Grant`
  therefore clears the record or leaves it.
- *A state that cannot be read* counts as no failures (`core/lockout.rs:62-91`), and
  the next save puts an end to a cooldown that was running. The code says so of a
  missing or corrupt file; it holds of a failed open or read as well. (`Spoil`,
  `MayMiss` in `Lockout`.)
- *Grace missed by a moment.* `core/lib.rs:67-69`: "a face that matched but hasn't
  moved enough gets `grace` more time". The clock is read for it at line 335 and for
  the end of the window at 340: a deadline that passes in between ends the scan
  without it. (`slipped` in `GraceIsGiven`.)
- *A lone old frame.* `drop_oldest_face` keeps it however old (`core/lib.rs:78`);
  `docs/security.md` and `docs/architecture.md:26` speak of frames up to one second
  apart. `EvidenceIsRecent` has that case.
- *Two frames in a row* (`core/guided.rs:40`): the held pose survives frames with no
  face between them. `HeldStill` counts frames with a face.
- *A row and a preset.* A row set to the built-in default is commented out; where a
  preset fills the key, the row springs back to the preset's value
  (`PresetFills` in `RowTakesEffect`).
- *Rows changed during an Apply* are dropped by the reload that follows it
  (`during` in `EditsWait`), and *a user file that cannot be read* counts as none
  and is overwritten by the next save (`OwnKept`).
- *Two clicks.* `busy` is read by the menu and set by the loop
  (`face-auth-tray/src/main.rs:314`), so two clicks while it reads the status start two
  workers, and the first to end clears `busy` for both; `main.rs:276` says "Actions are
  refused while one runs". (`doubled` in `BusyFollows`.)
- *`--enrolled`* "only runs from here", between two looks at `/proc`
  (`face-auth-tray/src/main.rs:872`); it also runs when an action is done, and in the
  settings window.
- *An unknown answer* counts as enrolled in the menu (`face-auth-tray/src/main.rs:432`:
  "a one-click enrol could replace templates the tray just failed to see") and as
  not enrolled on the window's Face page, whose Start then replaces. `KnownReplace`
  is about starts that rest on an answer (`sure`).
- *Quit and restart* leave root helpers running; what they save is seen by the
  next tray's look.


## What is not modelled

- *Vision and comparison*: images, networks and cosine similarity have no state; their
  outcomes are chosen freely in `Scan` and `Guided`.
- *Sealing and file formats*: cryptography and bytes; a store opens or does not.
- *Read-only entry points* (`peek`, `--verify`, `--enrolled`, `--warm-cache`, the doctor, the
  diagnostics): they change nothing others see.
- *`authenticate_once`*: the same calls as one turn of the scan loop, without liveness.
- *The files of the recognition models* are taken to be there; file names are taken
  to tell models apart, as the tag does.
- *TOML beyond keys and tables*: inline tables, arrays of tables, quoted keys,
  escapes. An edit that met one is outside `EditExact`.
- *The settings window's* layout, search, help texts, and its check of model files;
  two windows are in the proofs and not in the run.
- *A second tray* beside the first, where no lock is to be had, is modelled by what it
  reads and enrols; its icon, its own `busy` and its restarts are those of any tray.
- *The tray's* camera line, labels, tooltips and notifications; its icons are pure
  drawing. The camera status is read at the start and after each action only.
- *The update check's* request and comparison of version numbers: its three
  outcomes are in `Tray`.
- *`deploy.sh`, `install.sh` and the other scripts*, but for what they write to the
  configuration and for the detector they install.
- *The owners and modes of files, SELinux, PAM's own stack*: given.


## Plan

The lockout and its abstract counter were written first, because the rest relies on
them; then the scan, the store with its enrolments, the guided run, the ring, the
helper over the configuration; then the configuration as text with its writers, the
tray, and the model identity. What would add most from here:

1. **`AuthSystem`**: `Helper`, `Lockout`, `Scan` and `Enrolment` composed over one account,
   each component's specification shown to hold in it, and an abstract
   specification of the whole: access only after a counted attempt that matched
   what was enrolled.
2. **What the proofs could add**: that what `Enrolment` calls a model is what `Models`
   calls a tag, as a refinement; and what the abstract specification of 1 would
   need of each component.
3. **Two windows** checked by TLC as well, with smaller files.
