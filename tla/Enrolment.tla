------------------------------ MODULE Enrolment ------------------------------
(***************************************************************************)
(* The template store of one account: crates/face-auth-core/src/storage.rs *)
(* and cameras.rs, written by enrolments (enroll, enroll_append and        *)
(* enroll_guided in lib.rs) and read by scans (scan_prelude).  Each is a   *)
(* process of its own, and nothing locks the two files they share.         *)
(*                                                                         *)
(* A template is known by the run that captured it; the run's camera and   *)
(* model are its own.  A file is read in one step (it is opened once) and  *)
(* replaced in one step (the rename): what a process does in between is    *)
(* private to it.                                                          *)
(***************************************************************************)
EXTENDS Integers, FiniteSets

CONSTANTS
  Runs,         \* the enrolments: vinoauthface enroll and improve
  Scans,        \* the vinoauthface-auth processes
  Legacy,       \* the enrolment behind a v1 store
  Cameras,      \* cameras with a USB identity
  NoId,         \* a camera without one
  Models,       \* the model tags that may be configured
  NoModel,      \* the tag of a v1 store
  Nothing,      \* no store, no camera: not there yet
  Frames,       \* the most templates one run adds
  MaxTemplates, \* MAX_EMBEDDINGS
  MaxCameras,   \* MAX_CAMERAS
  SealOn,       \* seal_embeddings
  Together,     \* whether enrolments may run side by side
  Hotplug       \* whether cameras are exchanged under a running process

Cams == Cameras \cup {NoId}

Stores == [from : SUBSET (Runs \cup {Legacy}), size : Nat,
           tag : Models \cup {NoModel}, sealed : BOOLEAN]

Empty == [from |-> {}, size |-> 0, tag |-> NoModel, sealed |-> FALSE]

ASSUME EnrolmentAssumption ==
  /\ Legacy \notin Runs
  /\ IsFiniteSet(Cameras) /\ NoId \notin Cameras
  /\ NoModel \notin Models
  /\ Nothing \notin Cams /\ Nothing \notin Stores
  /\ Frames \in Nat \ {0}
  /\ MaxTemplates \in Nat
  /\ MaxCameras \in Nat
  /\ SealOn \in BOOLEAN /\ Together \in BOOLEAN /\ Hotplug \in BOOLEAN

VARIABLES
  store,     \* embeddings.bin
  list,      \* the cameras file: {} when missing
  plugged,   \* the camera behind the configured or detected node
  tpm,       \* whether the TPM seals and unseals
  pc,        \* where each enrolment is
  appends,   \* whether it improves the store or replaces it
  cam,       \* the camera it captures from
  model,     \* the model it runs
  buf,       \* the templates it holds
  ids,       \* the camera list it is about to write
  torn,      \* history: an enrolment ended after one file of the two
  spc,       \* where each scan is
  smodel,    \* the model it runs
  bound,     \* the camera list it read
  enrolled,  \* whether it found the account enrolled
  view,      \* the templates it loaded
  scam       \* the camera it opened

files == <<store, list>>
world == <<plugged, tpm>>
runs  == <<pc, appends, cam, model, buf, ids, torn>>
scans == <<spc, smodel, bound, enrolled, view, scam>>
vars  == <<store, list, plugged, tpm, pc, appends, cam, model, buf, ids, torn,
           spc, smodel, bound, enrolled, view, scam>>

TypeOK ==
  /\ store \in Stores \cup {Nothing}
  /\ list \subseteq Cameras
  /\ plugged \in Cams
  /\ tpm \in BOOLEAN
  /\ pc \in [Runs -> {"start", "loaded", "capturing", "captured", "saved", "recording", "done",
                      "failed"}]
  /\ appends \in [Runs -> BOOLEAN]
  /\ cam \in [Runs -> Cams]
  /\ model \in [Runs -> Models]
  /\ buf \in [Runs -> Stores]
  /\ ids \in [Runs -> SUBSET Cameras]
  /\ torn \in BOOLEAN
  /\ spc \in [Scans -> {"start", "listed", "allowed", "preparing", "scanning", "unsealed",
                        "failed"}]
  /\ smodel \in [Scans -> Models]
  /\ bound \in [Scans -> SUBSET Cameras]
  /\ enrolled \in [Scans -> BOOLEAN]
  /\ view \in [Scans -> Stores \cup {Nothing}]
  /\ scam \in [Scans -> Cams \cup {Nothing}]

\* A new account, or one enrolled before stores had model tags and cameras.
Init ==
  /\ store \in {Nothing, [Empty EXCEPT !.from = {Legacy}, !.size = 1]}
  /\ list = {}
  /\ plugged \in Cams
  /\ tpm \in BOOLEAN
  /\ pc = [r \in Runs |-> "start"]
  /\ appends = [r \in Runs |-> FALSE]
  /\ cam = [r \in Runs |-> NoId]
  /\ model \in [Runs -> Models]
  /\ buf = [r \in Runs |-> Empty]
  /\ ids = [r \in Runs |-> {}]
  /\ torn = FALSE
  /\ spc = [s \in Scans |-> "start"]
  /\ smodel \in [Scans -> Models]
  /\ bound = [s \in Scans |-> {}]
  /\ enrolled = [s \in Scans |-> FALSE]
  /\ view = [s \in Scans |-> Nothing]
  /\ scam = [s \in Scans |-> Nothing]

HoldsCamera(r) == pc[r] \in {"capturing", "captured", "saved", "recording"}
RunActive(r) == pc[r] = "loaded" \/ HoldsCamera(r)
ScanActive(s) == spc[s] \in {"listed", "allowed", "preparing", "scanning"}
Quiet == (\A r \in Runs : ~RunActive(r)) /\ (\A s \in Scans : ~ScanActive(s))

-----------------------------------------------------------------------------
(* The store file. *)

\* Sealing is tried only where there is a TPM, and without one the store is
\* written plain; unsealing has nothing to fall back to.
Seals   == SealOn /\ tpm
Unseals == tpm

\* A sealed store opens with the TPM that sealed it; a plain one always does.
Readable == store.sealed => Unseals

\* A store of unknown origin goes with any model.
TagMatches(tag, m) == tag \in {NoModel, m}

Room(existing, adding) == existing + adding <= MaxTemplates

\* What an append starts from.  A store it cannot read is not an empty one.
Base == IF store = Nothing THEN Empty ELSE store
Unreadable == IF store = Nothing THEN FALSE ELSE ~Readable
CanAppend(r) ==
  /\ store # Nothing => Readable
  /\ TagMatches(Base.tag, model[r])
  /\ Room(Base.size, Frames)

-----------------------------------------------------------------------------
(* Enrolments. *)

MayBegin(r) ==
  /\ pc[r] = "start"
  /\ Together \/ \A q \in Runs : ~RunActive(q)

\* enroll and a guided enrolment that replaces: nothing is read.
BeginFresh(r) ==
  /\ MayBegin(r)
  /\ Room(0, Frames)
  /\ pc' = [pc EXCEPT ![r] = "loaded"]
  /\ buf' = [buf EXCEPT ![r] = Empty]
  /\ UNCHANGED <<files, world, appends, cam, model, ids, torn, scans>>

BeginAppendFromNothing(r) ==
  /\ MayBegin(r)
  /\ CanAppend(r) \/ Unreadable
  /\ pc' = [pc EXCEPT ![r] = "loaded"]
  /\ appends' = [appends EXCEPT ![r] = TRUE]
  /\ buf' = [buf EXCEPT ![r] = IF Unreadable THEN Empty ELSE Base]
  /\ UNCHANGED <<files, world, cam, model, ids, torn, scans>>

\* enroll_append and a guided enrolment that adds: the store is loaded and its
\* model and room checked before the camera opens.
BeginAppend(r) ==
  /\ MayBegin(r)
  /\ CanAppend(r)
  /\ pc' = [pc EXCEPT ![r] = "loaded"]
  /\ appends' = [appends EXCEPT ![r] = TRUE]
  /\ buf' = [buf EXCEPT ![r] = Base]
  /\ UNCHANGED <<files, world, cam, model, ids, torn, scans>>

\* Camera::open asks for the buffers, which the driver gives to one process at
\* a time.  Cameras without identity may be two, and one taken out and put back
\* is opened anew.
CameraFree ==
  Hotplug \/ plugged = NoId \/ \A q \in Runs : HoldsCamera(q) => cam[q] # plugged

OpenCamera(r) ==
  /\ pc[r] = "loaded"
  /\ CameraFree
  /\ pc' = [pc EXCEPT ![r] = "capturing"]
  /\ cam' = [cam EXCEPT ![r] = plugged]
  /\ UNCHANGED <<files, world, appends, model, buf, ids, torn, scans>>

\* A run ends well with one template at least.
Capture(r) ==
  /\ pc[r] = "capturing"
  /\ \E n \in 1..Frames :
       buf' = [buf EXCEPT ![r].from = @ \cup {r}, ![r].size = @ + n]
  /\ pc' = [pc EXCEPT ![r] = "captured"]
  /\ UNCHANGED <<files, world, appends, cam, model, ids, torn, scans>>

\* save_with: the run's own tag, sealed when asked for and possible.
Saved(r) == [buf[r] EXCEPT !.tag = model[r], !.sealed = Seals]

SaveStore(r) ==
  /\ pc[r] = "captured"
  /\ buf[r].size <= MaxTemplates
  /\ store' = Saved(r)
  /\ buf' = [buf EXCEPT ![r] = Empty]
  /\ pc' = [pc EXCEPT ![r] = "saved"]
  /\ UNCHANGED <<list, world, appends, cam, model, ids, torn, scans>>

\* cameras::record: the camera is asked for its ID only now, and a fresh
\* enrolment forgets the cameras of the store it replaced.
RecordedAlways(r) == list \cup ({plugged} \cap Cameras)
RecordedOnce(r) == IF appends[r] /\ list # {} THEN list ELSE {plugged} \cap Cameras
Recorded(r) == (IF appends[r] THEN list ELSE {}) \cup ({plugged} \cap Cameras)

ReadList(r) ==
  /\ pc[r] = "saved"
  /\ Cardinality(Recorded(r)) <= MaxCameras
  /\ ids' = [ids EXCEPT ![r] = Recorded(r)]
  /\ pc' = [pc EXCEPT ![r] = "recording"]
  /\ UNCHANGED <<files, world, appends, cam, model, buf, torn, scans>>

WriteList(r) ==
  /\ pc[r] = "recording"
  /\ list' = ids[r]
  /\ ids' = [ids EXCEPT ![r] = {}]
  /\ pc' = [pc EXCEPT ![r] = "done"]
  /\ UNCHANGED <<store, world, appends, cam, model, buf, torn, scans>>

\* A check that refuses, an I/O error, a cancel or a kill: the run ends where
\* it is, and what it has written stays.
RunEnds(r) ==
  /\ pc[r] = "start" \/ RunActive(r)
  /\ pc' = [pc EXCEPT ![r] = "failed"]
  /\ torn' = (torn \/ pc[r] \in {"saved", "recording"})
  /\ buf' = [buf EXCEPT ![r] = Empty]
  /\ ids' = [ids EXCEPT ![r] = {}]
  /\ UNCHANGED <<files, world, appends, cam, model, scans>>

-----------------------------------------------------------------------------
(* Scans: scan_prelude, with bind_camera on. *)

ScanListed(s) ==
  /\ spc[s] = "start"
  /\ bound' = [bound EXCEPT ![s] = list]
  /\ spc' = [spc EXCEPT ![s] = "listed"]
  /\ UNCHANGED <<files, world, runs, smodel, enrolled, view, scam>>

\* cameras::check: an empty list allows any camera.
Allowed(s) == bound[s] = {} \/ plugged \in bound[s]

ScanAllowed(s) ==
  /\ spc[s] = "listed"
  /\ Allowed(s)
  /\ spc' = [spc EXCEPT ![s] = "allowed"]
  /\ UNCHANGED <<files, world, runs, smodel, bound, enrolled, view, scam>>

\* is_enrolled: a sealed header is enough, a plain store is read.
ScanLookup(s) ==
  /\ spc[s] = "allowed"
  /\ enrolled' = [enrolled EXCEPT ![s] = store # Nothing]
  /\ spc' = [spc EXCEPT ![s] = "preparing"]
  /\ UNCHANGED <<files, world, runs, smodel, bound, view, scam>>

\* load_with: the downgrade guard first, then the seal.
ScanLoad(s) ==
  /\ spc[s] = "preparing" /\ view[s] = Nothing
  /\ store # Nothing
  /\ SealOn => store.sealed
  /\ Readable
  /\ view' = [view EXCEPT ![s] = store]
  /\ UNCHANGED <<files, world, runs, spc, smodel, bound, enrolled, scam>>

ScanSealRequired(s) ==
  /\ spc[s] = "preparing" /\ view[s] = Nothing
  /\ store # Nothing
  /\ SealOn /\ ~store.sealed
  /\ view' = [view EXCEPT ![s] = store]
  /\ spc' = [spc EXCEPT ![s] = "unsealed"]
  /\ UNCHANGED <<files, world, runs, smodel, bound, enrolled, scam>>

\* The camera opens beside the load, or after it when nobody was enrolled.
ScanOpen(s) ==
  /\ spc[s] = "preparing" /\ scam[s] = Nothing
  /\ enrolled[s] \/ view[s] # Nothing
  /\ scam' = [scam EXCEPT ![s] = plugged]
  /\ UNCHANGED <<files, world, runs, spc, smodel, bound, enrolled, view>>

\* authenticate_prepared begins with check_model_tag.
ScanStart(s) ==
  /\ spc[s] = "preparing"
  /\ view[s] # Nothing /\ scam[s] # Nothing
  /\ TagMatches(view[s].tag, smodel[s])
  /\ spc' = [spc EXCEPT ![s] = "scanning"]
  /\ UNCHANGED <<files, world, runs, smodel, bound, enrolled, view, scam>>

\* A check that refuses, a lockout, an error or a kill; or the scan is over.
ScanEnds(s) ==
  /\ spc[s] = "start" \/ ScanActive(s)
  /\ spc' = [spc EXCEPT ![s] = "failed"]
  /\ bound' = [bound EXCEPT ![s] = {}]
  /\ enrolled' = [enrolled EXCEPT ![s] = FALSE]
  /\ view' = [view EXCEPT ![s] = Nothing]
  /\ scam' = [scam EXCEPT ![s] = Nothing]
  /\ UNCHANGED <<files, world, runs, smodel>>

-----------------------------------------------------------------------------
(* The machine around them. *)

Replug ==
  /\ Hotplug \/ Quiet
  /\ \E c \in Cams \ {plugged} : plugged' = c
  /\ UNCHANGED <<files, tpm, runs, scans>>

\* A TPM is cleared, switched off or comes back.
TpmTurns ==
  /\ tpm' = ~tpm
  /\ UNCHANGED <<files, plugged, runs, scans>>

RunStep(r) ==
  \/ BeginFresh(r) \/ BeginAppend(r) \/ OpenCamera(r) \/ Capture(r) \/ SaveStore(r)
  \/ ReadList(r) \/ WriteList(r) \/ RunEnds(r)

ScanStep(s) ==
  \/ ScanListed(s) \/ ScanAllowed(s) \/ ScanLookup(s) \/ ScanLoad(s)
  \/ ScanSealRequired(s) \/ ScanOpen(s) \/ ScanStart(s) \/ ScanEnds(s)

Next ==
  \/ \E r \in Runs : RunStep(r)
  \/ \E s \in Scans : ScanStep(s)
  \/ Replug
  \/ TpmTurns

Spec == Init /\ [][Next]_vars

-----------------------------------------------------------------------------
(* Properties. *)

RunsIn(st) == IF st = Nothing THEN {} ELSE st.from \cap Runs

\* Templates of two recognition models are never compared: the store holds one
\* model's only, whoever writes it and in whatever order (lib.rs:647), and a
\* scan compares its frames with templates of the model it runs (lib.rs:202).
\* A v1 store's own templates are of unknown origin and pass.
OneModel ==
  /\ \A r \in RunsIn(store) : model[r] = store.tag
  /\ \A s \in Scans : spc[s] = "scanning" =>
       \A r \in RunsIn(view[s]) : model[r] = smodel[s]

\* The downgrade guard (storage.rs:211): with sealing on, the templates a scan
\* compares with were sealed, however late the TPM came or went.
SealHolds == SealOn => \A s \in Scans : spc[s] = "scanning" => view[s].sealed

\* A run that found room before it opened the camera (storage.rs:32) is not
\* refused at the save, after the user has sat through it.
RoomHolds == \A r \in Runs : pc[r] = "captured" => buf[r].size <= MaxTemplates

\* An enrolment that adds keeps every template there is when it saves, those
\* of a store it could not read included.  lib.rs:638-640: an append "must not
\* silently discard what is already there".
ImprovesKeep ==
  [][\A r \in Runs : pc[r] = "captured" /\ pc'[r] = "saved" /\ appends[r] =>
       RunsIn(store) \subseteq RunsIn(store')]_vars

\* The same of what improves added and reported, whatever else runs beside them.
\* docs/tray.md:54: improve "captures more frames (new lighting, glasses) and
\* keeps the old ones".  False: the store is read before the camera opens.
ImprovesKeepEachOther ==
  [][\A r \in Runs : pc[r] = "captured" /\ pc'[r] = "saved" /\ appends[r] =>
       {q \in RunsIn(store) : appends[q] /\ pc[q] = "done"} \subseteq RunsIn(store')]_vars

\* Enrolments one at a time, cameras exchanged between them.
OneAtATime == ~Together /\ ~Hotplug

\* The two files agree once no enrolment is under way: the camera of every run
\* that completed is on the list, and nothing else is on it unless a run has
\* ended between the two files (cameras.rs:79-81).
FilesAgree ==
  (OneAtATime /\ \A r \in Runs : ~RunActive(r)) =>
    /\ \A r \in RunsIn(store) : pc[r] = "done" => cam[r] \in list \cup {NoId}
    /\ ~torn => list \subseteq {cam[r] : r \in RunsIn(store)}

\* A scan's frames come from a camera on the list it checked, whatever is
\* written meanwhile.  docs/security.md:130-131: "a scan from any other camera
\* is refused before it opens".
BoundScan ==
  \A s \in Scans : spc[s] = "scanning" =>
    bound[s] = {} \/ scam[s] \in bound[s]

\* And the templates it compares with include some from that camera: the list
\* and the store, read at different moments, speak of the same enrolments.
OwnCamera ==
  (OneAtATime /\ ~torn) => \A s \in Scans : spc[s] = "scanning" =>
    bound[s] = {} \/ scam[s] \in {cam[r] : r \in RunsIn(view[s])}
=============================================================================
