-------------------------------- MODULE Helper --------------------------------
(***************************************************************************)
(* vinoauthface-auth in crates/face-auth/src/main.rs, one run of it under  *)
(* PAM: the gates ahead of the scan, the models loading beside the scan's  *)
(* preparation and the camera beside the templates, the scan (its outcome: *)
(* see Scan), and the confirmation on the terminal.  Meanwhile sessions    *)
(* are switched, the lid is closed, cameras are moved, other scans fail,   *)
(* enrolments end and keys are typed.                                      *)
(***************************************************************************)
EXTENDS Config, Sequences

CONSTANTS
  SystemFiles,  \* what /etc/face-auth.toml may hold
  UserFiles,    \* what the account's own file may hold
  Cameras, NoCamera,
  PinnedCamera, \* where a pin points
  EnrolledOn,   \* the cameras of the account's list
  External,     \* the cameras on a removable port
  Requests,     \* what PAM may ask
  Worlds,       \* the surroundings a run may begin in
  MaxClock,     \* bound: how far time runs
  MaxChanges,   \* bound: how often the surroundings change
  MaxKeys       \* bound: keys waiting in the terminal

\* The account PAM names, who runs the helper, from where, and on what.
AnyRequest == [account : {"known", "unknown", "unset"},
               caller : {"root", "target", "other"},
               remote : BOOLEAN, tty : BOOLEAN,
               server : Nat,  \* how far up the nearest SSH server is, the
               unread : Nat,  \* nearest process that cannot be read; 0 for none
               surface : {"Elevation", "Login", "ScreenLock"},
               age : Int]  \* of the locker as the run begins, negative if unknown

\* Whose session is active on seat0, whether the lid is closed, the camera that
\* device() resolves to, whether the account is locked out, and has templates.
Seats == {"target", "other", "greeter", "none", "no_logind"}
AnyWorld == [seat : Seats, closed : BOOLEAN, plugged : Cameras \cup {NoCamera},
             locked : BOOLEAN, templates : BOOLEAN]

Key  == [enter : BOOLEAN, asked : BOOLEAN]
NoKey == [enter |-> FALSE, asked |-> FALSE]

ASSUME HelperAssumption ==
  /\ SystemFiles \subseteq Files /\ UserFiles \subseteq Files
  /\ PinnedCamera \in Cameras /\ NoCamera \notin Cameras
  /\ EnrolledOn \subseteq Cameras /\ External \subseteq Cameras
  /\ Requests \subseteq AnyRequest /\ Worlds \subseteq AnyWorld
  /\ MaxClock \in Nat /\ MaxChanges \in Nat /\ MaxKeys \in Nat

VARIABLES
  request, system, user, \* fixed for the run
  world,    \* the surroundings
  clock,
  keys,     \* typed and not read, in order
  pc,       \* the main thread
  config,
  seatRead, \* seat::check's first read
  models,   \* the main thread beside the preparation
  pre,      \* the preparation's thread
  wake,     \* when its start delay ends
  cam,      \* the camera's thread, then the camera
  opened,   \* which camera that is
  result,   \* of the scan
  shown,    \* the placeholder is on the terminal
  raw,      \* the terminal is in raw mode
  pressed,  \* the key that was read
  exit,
  changes,  \* bound: changes of the surroundings so far
  ever,     \* history: the gates that were open at some time of this run
  moved     \* history: a camera was moved since the pin was checked

given    == <<request, system, user>>
terminal == <<keys, shown, raw, pressed>>
threads  == <<models, pre, wake, cam, opened>>
history  == <<changes, ever, moved>>
vars == <<request, system, user, world, clock, keys, pc, config, seatRead, models,
          pre, wake, cam, opened, result, shown, raw, pressed, exit, changes, ever, moved>>

NoConfig == [s \in Settings |-> Unset]

-----------------------------------------------------------------------------
(* The gates, as they stand in the surroundings now. *)

\* under_ssh: whom the walk up from the parent comes upon.
MAX_ANCESTRY_DEPTH == 16
UnderSsh == \E n \in {request.server, request.unread} : n \in 1..MAX_ANCESTRY_DEPTH

Gates == {"account", "caller", "local", "seat", "no_ssh", "lid", "pin",
          "binding", "not_locked", "templates"}

Open(g) ==
  \/ g = "account" /\ request.account = "known"
  \/ g = "caller" /\ request.caller \in {"root", "target"}
  \/ g = "local" /\ ~request.remote
  \/ g = "seat" /\ world.seat \in {"target", "greeter", "no_logind"}
  \/ g = "no_ssh" /\ ~UnderSsh
  \/ g = "lid" /\ (~world.closed \/ world.plugged \in External)
  \/ g = "pin" /\ world.plugged = PinnedCamera
  \/ g = "binding" /\ (EnrolledOn = {} \/ world.plugged \in EnrolledOn)
  \/ g = "not_locked" /\ ~world.locked
  \/ g = "templates" /\ world.templates

\* The gates the configuration asks for.
Required ==
  {"account", "caller", "local", "not_locked", "templates"}
    \cup {g \in {"seat"} : On(config, "seat_check")}
    \cup {g \in {"no_ssh"} : On(config, "abort_if_ssh")}
    \cup {g \in {"lid"} : On(config, "abort_if_lid_closed")}
    \cup {g \in {"pin"} : On(config, "pinned")}
    \cup {g \in {"binding"} : On(config, "bind_camera")}

OpenNow == {g \in Gates : Open(g)}

\* start_delay_for.
Delay == IF On(config, "start_delay_all") \/ request.surface = "ScreenLock"
         THEN Value(config, "start_delay") ELSE 0

\* require_confirmation_for.
MustConfirm == request.surface = "Elevation" /\ On(config, "require_confirmation")

TypeOK ==
  /\ request \in Requests /\ system \in SystemFiles /\ user \in UserFiles
  /\ world \in AnyWorld
  /\ clock \in Nat
  /\ keys \in Seq(Key) /\ pressed \in Key
  /\ pc \in {"pre_scan", "config", "seat", "session", "skip", "threads", "prompt",
             "scan", "erase", "verdict", "ask", "asked", "read", "restore", "exit"}
  /\ config \in Configs
  /\ seatRead \in Seats
  /\ models \in {"off", "loading", "ok", "failed"}
  /\ pre \in {"off", "gate", "sleep", "pin", "binding", "lockout", "device",
              "store", "stored", "failing", "ok", "locked", "error"}
  /\ wake \in Nat
  /\ cam \in {"off", "opening", "on", "failed"}
  /\ opened \in Cameras \cup {NoCamera}
  /\ opened \in Cameras <=> cam = "on"
  /\ result \in {"none", "match", "no_match", "error"}
  /\ shown \in BOOLEAN /\ raw \in BOOLEAN
  /\ exit \in {"none", "granted", "denied", "setup"}
  /\ exit # "none" <=> pc = "exit"
  /\ changes \in 0..MaxChanges
  /\ ever \subseteq Gates
  /\ moved \in BOOLEAN

Init ==
  /\ request \in Requests /\ system \in SystemFiles /\ user \in UserFiles
  /\ world \in Worlds
  /\ clock = 0
  /\ keys = <<>> /\ pressed = NoKey
  /\ pc = "pre_scan"
  /\ config = NoConfig
  /\ seatRead = "none"
  /\ models = "off" /\ pre = "off" /\ wake = 0
  /\ cam = "off" /\ opened = NoCamera
  /\ result = "none"
  /\ shown = FALSE /\ raw = FALSE
  /\ exit = "none"
  /\ changes = 0
  /\ ever = OpenNow
  /\ moved = FALSE

Exit(code) == pc' = "exit" /\ exit' = code

-----------------------------------------------------------------------------
(* main, up to the threads: every gate that refuses ends the run at once. *)

\* Mutant of Refused: the caller is asked for before it is known to be local.
RefusedCallerOnly == request.caller = "other"

\* A caller that may not test this account, or a remote session.
Refused == request.caller = "other" \/ request.remote

\* pre_scan.
PreScan ==
  /\ pc = "pre_scan"
  /\ IF request.account # "known" THEN Exit("setup")
     ELSE IF Refused THEN Exit("denied")
     ELSE pc' = "config" /\ UNCHANGED exit
  /\ UNCHANGED <<given, world, clock, terminal, threads, history, config, seatRead, result>>

\* load_for_auth: a broken system file ends the run, a broken user's file is ignored.
LoadConfig ==
  /\ pc = "config"
  /\ IF Loads(system)
     THEN /\ config' = LoadForAuth(system, user)
          /\ pc' = IF On(config', "seat_check") THEN "seat" ELSE "skip"
          /\ UNCHANGED exit
     ELSE Exit("setup") /\ UNCHANGED config
  /\ UNCHANGED <<given, world, clock, terminal, threads, history, seatRead, result>>

\* seat::check reads seat0, and then the session that was active on it ...
ReadSeat ==
  /\ pc = "seat"
  /\ seatRead' = world.seat
  /\ IF world.seat = "no_logind" THEN pc' = "skip" /\ UNCHANGED exit
     ELSE IF world.seat = "none" THEN Exit("denied")
     ELSE pc' = "session" /\ UNCHANGED exit
  /\ UNCHANGED <<given, world, clock, terminal, threads, history, config, result>>

ReadSession ==
  /\ pc = "session"
  /\ IF seatRead \in {"target", "greeter"} THEN pc' = "skip" /\ UNCHANGED exit
                                           ELSE Exit("denied")
  /\ UNCHANGED <<given, world, clock, terminal, threads, history, config, seatRead, result>>

\* ... which may have ended since.
SessionGone ==
  /\ pc = "session" /\ world.seat # seatRead
  /\ Exit("denied")
  /\ UNCHANGED <<given, world, clock, terminal, threads, history, config, seatRead, result>>

Skips ==
  \/ On(config, "abort_if_ssh") /\ UnderSsh
  \/ On(config, "abort_if_lid_closed") /\ world.closed /\ world.plugged \notin External

\* skip_reason, and then new_for_scan starts both threads.
Skip ==
  /\ pc = "skip"
  /\ IF Skips THEN Exit("denied") /\ UNCHANGED <<models, pre>>
     ELSE IF ~Valid(config) THEN Exit("setup") /\ UNCHANGED <<models, pre>>
     ELSE pc' = "threads" /\ models' = "loading" /\ pre' = "gate" /\ UNCHANGED exit
  /\ UNCHANGED <<given, world, clock, terminal, history, config, seatRead, wake, cam,
                 opened, result>>

-----------------------------------------------------------------------------
(* new_for_scan: the models beside scan_prelude. *)

ModelsLoad ==
  /\ models = "loading"
  /\ models' \in {"ok", "failed"}
  /\ UNCHANGED <<given, world, clock, terminal, history, pc, config, seatRead, pre,
                 wake, cam, opened, result, exit>>

Prelude(to) ==
  /\ pre' = to
  /\ UNCHANGED <<given, world, clock, terminal, history, pc, config, seatRead, models,
                 result, exit>>

\* Mutant of StartDelay: elevation and login are never delayed.
StartDelayLockOnly ==
  /\ pre = "gate"
  /\ IF request.age >= 0 /\ request.surface = "ScreenLock" /\ clock + request.age < Delay
     THEN wake' = Delay - request.age /\ Prelude("sleep")
     ELSE UNCHANGED wake /\ Prelude("pin")
  /\ UNCHANGED <<cam, opened>>

\* wait_for_start_delay: what is left of it since the locker started.
StartDelay ==
  /\ pre = "gate"
  /\ IF request.age >= 0 /\ clock + request.age < Delay
     THEN wake' = Delay - request.age /\ Prelude("sleep")
     ELSE UNCHANGED wake /\ Prelude("pin")
  /\ UNCHANGED <<cam, opened>>

Wake ==
  /\ pre = "sleep" /\ clock >= wake
  /\ Prelude("pin")
  /\ UNCHANGED <<wake, cam, opened>>

\* Mutant of VerifyPin: a camera that is not there is left to be found later.
VerifyPinAnyPresent ==
  /\ pre = "pin"
  /\ moved' = FALSE
  /\ pre' = IF ~On(config, "pinned") \/ world.plugged # NoCamera THEN "binding" ELSE "error"
  /\ UNCHANGED <<given, world, clock, terminal, changes, ever, pc, config, seatRead,
                 models, wake, cam, opened, result, exit>>

\* verify_pinned_camera.
VerifyPin ==
  /\ pre = "pin"
  /\ moved' = FALSE
  /\ pre' = IF ~On(config, "pinned") \/ world.plugged = PinnedCamera THEN "binding" ELSE "error"
  /\ UNCHANGED <<given, world, clock, terminal, changes, ever, pc, config, seatRead,
                 models, wake, cam, opened, result, exit>>

\* check_camera_binding; a list from before there were cameras binds nothing.
CheckBinding ==
  /\ pre = "binding"
  /\ Prelude(IF ~On(config, "bind_camera") \/ EnrolledOn = {} \/ world.plugged \in EnrolledOn
             THEN "lockout" ELSE "error")
  /\ UNCHANGED <<wake, cam, opened>>

CheckLockout ==
  /\ pre = "lockout"
  /\ Prelude(IF world.locked THEN "locked" ELSE "device")
  /\ UNCHANGED <<wake, cam, opened>>

\* Mutant of Resolve: the camera starts whether or not there are templates.
ResolveStarts ==
  /\ pre = "device"
  /\ Prelude(IF world.plugged = NoCamera THEN "error" ELSE "store")
  /\ cam' = IF world.plugged # NoCamera THEN "opening" ELSE cam
  /\ UNCHANGED <<wake, opened>>

\* device(), and the camera's thread for an account that has templates.
Resolve ==
  /\ pre = "device"
  /\ Prelude(IF world.plugged = NoCamera THEN "error" ELSE "store")
  /\ cam' = IF world.plugged # NoCamera /\ world.templates THEN "opening" ELSE cam
  /\ UNCHANGED <<wake, opened>>

\* Opened by its path: whatever camera is there now.  It may be busy.
CameraOpens ==
  /\ cam = "opening"
  /\ \/ world.plugged # NoCamera /\ cam' = "on" /\ opened' = world.plugged
     \/ cam' = "failed" /\ UNCHANGED opened
  /\ Prelude(pre)
  /\ UNCHANGED wake

\* The templates load and unseal, or do not.
StoreLoads ==
  /\ pre = "store"
  /\ \/ world.templates /\ Prelude("stored")
     \/ Prelude("failing")
  /\ UNCHANGED <<wake, cam, opened>>

\* Join the camera's thread: an error of either is an error of both.  Without
\* the thread the camera is opened here, its stream not yet started.
Join ==
  /\ \/ pre = "stored" /\ cam = "on" /\ Prelude("ok") /\ UNCHANGED <<cam, opened>>
     \/ pre = "stored" /\ cam = "failed" /\ Prelude("error") /\ UNCHANGED <<cam, opened>>
     \/ /\ pre = "stored" /\ cam = "off"
        /\ \/ world.plugged # NoCamera /\ Prelude("ok") /\ cam' = "on" /\ opened' = world.plugged
           \/ Prelude("error") /\ UNCHANGED <<cam, opened>>
     \/ /\ pre = "failing" /\ cam # "opening"
        /\ Prelude("error")
        /\ cam' = "off" /\ opened' = NoCamera
  /\ UNCHANGED wake

\* The scope ends with both threads; models that fail end the run.
Joined ==
  /\ pc = "threads" /\ models # "loading" /\ pre \in {"ok", "locked", "error"}
  /\ IF models = "ok" THEN pc' = "prompt" /\ UNCHANGED <<exit, cam, opened>>
     ELSE Exit("setup") /\ cam' = "off" /\ opened' = NoCamera
  /\ UNCHANGED <<given, world, clock, terminal, history, config, seatRead, models, pre,
                 wake, result>>

-----------------------------------------------------------------------------
(* The scan, between the placeholder and its erasure. *)

ShowPrompt ==
  /\ pc = "prompt"
  /\ shown' = request.tty
  /\ pc' = "scan"
  /\ UNCHANGED <<given, world, clock, keys, raw, pressed, threads, history, config,
                 seatRead, result, exit>>

\* What authenticate_prepared may answer; templates of another model are an error.
Verdicts == IF pre = "ok" THEN {"match", "no_match", "error"}
            ELSE IF pre = "locked" THEN {"no_match"}
            ELSE {"error"}

\* The camera is dropped with the scan.
Scan ==
  /\ pc = "scan"
  /\ result' \in Verdicts
  /\ cam' = "off" /\ opened' = NoCamera
  /\ pc' = "erase"
  /\ UNCHANGED <<given, world, clock, terminal, history, config, seatRead, models, pre,
                 wake, exit>>

Erase ==
  /\ pc = "erase"
  /\ shown' = FALSE
  /\ pc' = "verdict"
  /\ UNCHANGED <<given, world, clock, keys, raw, pressed, threads, history, config,
                 seatRead, result, exit>>

Verdict ==
  /\ pc = "verdict"
  /\ IF result = "match"
     THEN IF MustConfirm THEN pc' = "ask" /\ UNCHANGED exit ELSE Exit("granted")
     ELSE Exit(IF result = "error" THEN "setup" ELSE "denied")
  /\ UNCHANGED <<given, world, clock, terminal, threads, history, config, seatRead, result>>

-----------------------------------------------------------------------------
(* confirm::ask. *)

\* No terminal to ask on: the match counts as it is.
Ask ==
  /\ pc = "ask"
  /\ IF request.tty THEN pc' = "asked" /\ UNCHANGED exit ELSE Exit("granted")
  /\ UNCHANGED <<given, world, clock, terminal, threads, history, config, seatRead, result>>

\* tcgetattr or tcsetattr fails.
TerminalFails ==
  /\ pc \in {"ask", "asked"} /\ request.tty
  /\ Exit("denied")
  /\ UNCHANGED <<given, world, clock, terminal, threads, history, config, seatRead, result>>

\* Mutant of RawMode: TCSANOW.
RawModeNow ==
  /\ pc = "asked"
  /\ raw' = TRUE
  /\ pc' = "read"
  /\ UNCHANGED <<given, world, clock, keys, shown, pressed, threads, history, config,
                 seatRead, result, exit>>

\* TCSAFLUSH drops what was typed ahead.
RawMode ==
  /\ pc = "asked"
  /\ raw' = TRUE /\ keys' = <<>>
  /\ pc' = "read"
  /\ UNCHANGED <<given, world, clock, shown, pressed, threads, history, config,
                 seatRead, result, exit>>

ReadKey ==
  /\ pc = "read" /\ keys # <<>>
  /\ pressed' = Head(keys) /\ keys' = Tail(keys)
  /\ pc' = "restore"
  /\ UNCHANGED <<given, world, clock, shown, raw, threads, history, config, seatRead,
                 result, exit>>

\* Mutant of NoAnswer: a read without VTIME.
NoAnswerWaits == pc = "read" /\ pc = "restore" /\ UNCHANGED vars

\* Nothing is typed in time, or the read fails.
NoAnswer ==
  /\ pc = "read"
  /\ pc' = "restore"
  /\ UNCHANGED <<given, world, clock, terminal, threads, history, config, seatRead,
                 result, exit>>

Restore ==
  /\ pc = "restore"
  /\ raw' = FALSE /\ keys' = <<>>
  /\ Exit(IF pressed.enter THEN "granted" ELSE "denied")
  /\ UNCHANGED <<given, world, clock, shown, pressed, threads, history, config, seatRead,
                 result>>

-----------------------------------------------------------------------------
(* The surroundings. *)

\* Time matters to the start delay alone.
Tick ==
  /\ clock < MaxClock /\ pre \in {"off", "gate", "sleep"} /\ pc # "exit"
  /\ clock' = clock + 1
  /\ UNCHANGED <<given, world, terminal, threads, history, pc, config, seatRead, result,
                 exit>>

\* After the scan nothing looks at them any more.
Changes ==
  /\ changes < MaxChanges /\ result = "none" /\ pc # "exit"
  /\ changes' = changes + 1
  /\ UNCHANGED <<given, clock, terminal, threads, pc, config, seatRead, result, exit>>
  /\ ever' = ever \cup OpenNow'

SwitchSeat ==
  /\ world.seat # "no_logind"
  /\ \E to \in Seats \ {world.seat, "no_logind"} : world' = [world EXCEPT !.seat = to]
  /\ UNCHANGED moved
  /\ Changes

MoveLid ==
  /\ world' = [world EXCEPT !.closed = ~@]
  /\ UNCHANGED moved
  /\ Changes

MoveCamera ==
  /\ \E to \in (Cameras \cup {NoCamera}) \ {world.plugged} :
       world' = [world EXCEPT !.plugged = to]
  /\ moved' = TRUE
  /\ Changes

\* Other scans of the account fail, or its cooldown ends.
MoveLockout ==
  /\ world' = [world EXCEPT !.locked = ~@]
  /\ UNCHANGED moved
  /\ Changes

\* An enrolment ends, or is deleted.
MoveTemplates ==
  /\ world' = [world EXCEPT !.templates = ~@]
  /\ UNCHANGED moved
  /\ Changes

\* The question is on the terminal from "asked" on.
TypeKey ==
  /\ request.tty /\ MustConfirm /\ Len(keys) < MaxKeys
  /\ pc \in {"scan", "ask", "asked", "read"}
  /\ \E enter \in BOOLEAN :
       keys' = Append(keys, [enter |-> enter, asked |-> pc \in {"asked", "read"}])
  /\ UNCHANGED <<given, world, clock, shown, raw, pressed, threads, history, pc, config,
                 seatRead, result, exit>>

-----------------------------------------------------------------------------
Main ==
  \/ PreScan \/ LoadConfig \/ ReadSeat \/ ReadSession \/ SessionGone \/ Skip
  \/ Joined \/ ShowPrompt \/ Scan \/ Erase \/ Verdict
  \/ Ask \/ TerminalFails \/ RawMode \/ ReadKey \/ NoAnswer \/ Restore

Preparation ==
  \/ StartDelay \/ Wake \/ VerifyPin \/ CheckBinding \/ CheckLockout \/ Resolve
  \/ StoreLoads \/ Join

Surroundings ==
  \/ SwitchSeat \/ MoveLid \/ MoveCamera \/ MoveLockout \/ MoveTemplates \/ TypeKey

Next == Main \/ ModelsLoad \/ Preparation \/ CameraOpens \/ Tick \/ Surroundings

Spec == Init /\ [][Next]_vars

\* Every thread runs on, every wait has a timeout, and time passes.
FairSpec ==
  /\ Spec
  /\ WF_vars(Main) /\ WF_vars(ModelsLoad) /\ WF_vars(Preparation)
  /\ WF_vars(CameraOpens) /\ WF_vars(Tick)

-----------------------------------------------------------------------------
(* Properties. *)

\* The account's own file lowers no threshold and lifts no policy, in whatever
\* spelling (config.rs:270-274), and never makes the configuration one that
\* new_for_scan refuses.
OverlayNarrows ==
  config # NoConfig =>
    NeverWeaker(FoldSections(system), config) /\ Valid(config)

\* Access takes a match of a scan that was fully prepared, and every gate the
\* configuration asks for was open at some time during this very run, whatever
\* changes between the gates (main.rs:448-501).
GrantGated ==
  exit = "granted" =>
    result = "match" /\ pre = "ok" /\ models = "ok" /\ Required \subseteq ever

\* "Nothing touches the camera until `gate` and the checks have passed"
\* (lib.rs:170-171), nor for an account without templates (lib.rs:114-115); and
\* it is off again before anybody is asked to confirm.
EmitterGated ==
  cam \in {"opening", "on"} =>
    /\ Required \subseteq ever
    /\ pc \in {"threads", "prompt", "scan"}

\* No camera before the locker has been running for the start delay, where that
\* applies, and no waiting past it (main.rs:79-87): a retry on the same lock
\* screen does not pay it again.
DelayPaidOnce ==
  /\ cam \in {"opening", "on"} /\ request.age >= 0 => clock + request.age >= Delay
  /\ pre = "sleep" => request.age >= 0 /\ wake = Delay - request.age

\* A pinned camera is the one whose frames are used, unless cameras were moved
\* between the check and the open (config.rs:629-635).
PinHolds ==
  cam = "on" /\ On(config, "pinned") => opened = PinnedCamera \/ moved

\* A confirmation is an Enter typed after the question ("a key pressed before
\* the prompt cannot confirm it", confirm.rs:47-48).
ConfirmFresh ==
  exit = "granted" /\ MustConfirm /\ request.tty => pressed.enter /\ pressed.asked

\* However the run ends, the terminal is left as it was: process::exit runs no
\* destructor (main.rs:497-501, confirm.rs:57-58).
TerminalLeft == exit # "none" => ~shown /\ ~raw

\* Every run ends, so the password is asked for.
RunEnds == <>(exit # "none")
=============================================================================
