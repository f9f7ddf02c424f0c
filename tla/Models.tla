-------------------------------- MODULE Models --------------------------------
(***************************************************************************)
(* Which templates may be compared with which faces: the model tag of      *)
(* crates/face-auth-core/src/config.rs and storage.rs, as the enrolments   *)
(* and scans of lib.rs use it.  An embedding belongs to the space of the   *)
(* recognition model and the detector that made it.  A process reads its   *)
(* configuration once; which detector is the default it looks up at every  *)
(* use, by whether the file of the new one exists.  Its names are its own, *)
(* to stand beside Enrolment, which takes the tag for the models.          *)
(***************************************************************************)
CONSTANTS
  Processes,     \* the vinoauthface processes of one account
  Encoders,      \* the recognition models
  Scrfd, Slim,   \* DEFAULT_DETECTOR and LEGACY_DETECTOR
  Unset,         \* no detector_model_path
  Absent,        \* not loaded, not enrolled
  NoTag          \* the tag of a v1 store

Detectors == {Scrfd, Slim}
Spaces    == Encoders \X Detectors
Configs   == [encoder : Encoders, detector : Detectors \cup {Unset}]

\* The tag, what made the templates, and whether some came from a v1 store.
TaggedStores == [tag : Spaces \cup {NoTag}, made : SUBSET Spaces, old : BOOLEAN]
NewStore == [tag |-> NoTag, made |-> {}, old |-> FALSE]
Kinds  == {"enroll", "append", "scan"}

ASSUME ModelsAssumption ==
  /\ Scrfd # Slim /\ Unset \notin Detectors
  /\ Absent \notin Detectors \cup TaggedStores
  /\ NoTag \notin Spaces

VARIABLES
  there,    \* the detectors installed
  conf,     \* /etc/face-auth.toml
  tagged,   \* embeddings.bin
  at,       \* where each process is
  kind,     \* what it was started for
  config,   \* the configuration it read
  detector, \* the detector it loaded
  gallery,  \* the templates it read
  caught    \* history: the default detector changed under a process

tagVars == <<there, conf, tagged, at, kind, config, detector, gallery, caught>>

TagsTyped ==
  /\ there \subseteq Detectors
  /\ conf \in Configs
  /\ tagged \in TaggedStores \cup {Absent}
  /\ at \in [Processes -> {"start", "loading", "allowed", "refused", "done", "failed"}]
  /\ kind \in [Processes -> Kinds]
  /\ config \in [Processes -> Configs]
  /\ detector \in [Processes -> Detectors \cup {Absent}]
  /\ gallery \in [Processes -> TaggedStores \cup {Absent}]
  /\ caught \in BOOLEAN

\* An install from before SCRFD, a new one, or one that has both; a new account
\* or one with a v1 store.
TagInit ==
  /\ there \in SUBSET Detectors
  /\ conf \in Configs
  /\ tagged \in {Absent, [NewStore EXCEPT !.old = TRUE]}
  /\ at = [r \in Processes |-> "start"]
  /\ kind \in [Processes -> Kinds]
  /\ config = [r \in Processes |-> conf]
  /\ detector = [r \in Processes |-> Absent]
  /\ gallery = [r \in Processes |-> Absent]
  /\ caught = FALSE

-----------------------------------------------------------------------------
(* The identity. *)

\* The file names tell encoders and detectors apart.
DetectorPath(c) ==
  IF c.detector # Unset THEN c.detector
  ELSE IF Scrfd \in there THEN Scrfd ELSE Slim

ModelTagOfEncoder(c) == <<c.encoder, Slim>>
ModelTagReread(c) == <<conf.encoder, DetectorPath(conf)>>
ModelTag(c) == <<c.encoder, DetectorPath(c)>>

\* Aligned on the landmarks of SCRFD, or cropped to the box of the old one.
Space(r) == <<config[r].encoder, detector[r]>>

ModelTagMatches(tag, current) == tag \in {NoTag, current}

-----------------------------------------------------------------------------
(* The processes. *)

Running(r) == at[r] \in {"loading", "allowed"}

Start(r) ==
  /\ at[r] = "start"
  /\ at' = [at EXCEPT ![r] = "loading"]
  /\ config' = [config EXCEPT ![r] = conf]
  /\ UNCHANGED <<there, conf, tagged, kind, detector, gallery, caught>>

New(r) ==
  /\ at[r] = "loading" /\ detector[r] = Absent
  /\ DetectorPath(config[r]) \in there
  /\ detector' = [detector EXCEPT ![r] = DetectorPath(config[r])]
  /\ UNCHANGED <<there, conf, tagged, at, kind, config, gallery, caught>>

\* An append reads the store after its models are loaded, a scan beside it.
Load(r) ==
  /\ at[r] = "loading" /\ gallery[r] = Absent
  /\ kind[r] = "append" => detector[r] # Absent
  /\ kind[r] # "enroll"
  /\ tagged = Absent => kind[r] = "append"
  /\ gallery' = [gallery EXCEPT ![r] =
       IF tagged = Absent THEN NewStore ELSE tagged]
  /\ UNCHANGED <<there, conf, tagged, at, kind, config, detector, caught>>

\* A new enrolment starts from an empty store and checks nothing.
CheckModelTagOfScans(r) ==
  /\ at[r] = "loading" /\ detector[r] # Absent
  /\ kind[r] # "enroll"
  /\ gallery[r] # Absent
  /\ at' = [at EXCEPT ![r] =
       IF kind[r] = "append" \/ ModelTagMatches(gallery[r].tag, ModelTag(config[r]))
       THEN "allowed" ELSE "refused"]
  /\ UNCHANGED <<there, conf, tagged, kind, config, detector, gallery, caught>>
CheckModelTag(r) ==
  /\ at[r] = "loading" /\ detector[r] # Absent
  /\ kind[r] # "enroll"
  /\ gallery[r] # Absent
  /\ at' = [at EXCEPT ![r] =
       IF ModelTagMatches(gallery[r].tag, ModelTag(config[r])) THEN "allowed" ELSE "refused"]
  /\ UNCHANGED <<there, conf, tagged, kind, config, detector, gallery, caught>>

\* The templates of the run beside those it read, under the tag of now.
Save(r) ==
  /\ \/ kind[r] = "enroll" /\ at[r] = "loading" /\ detector[r] # Absent
     \/ kind[r] = "append" /\ at[r] = "allowed"
  /\ LET base == IF kind[r] = "append" THEN gallery[r] ELSE NewStore
     IN  tagged' = [base EXCEPT !.tag = ModelTag(config[r]), !.made = @ \cup {Space(r)}]
  /\ at' = [at EXCEPT ![r] = "done"]
  /\ UNCHANGED <<there, conf, kind, config, detector, gallery, caught>>

\* The scan has compared what its camera saw with what it read.
Verify(r) ==
  /\ kind[r] = "scan" /\ at[r] = "allowed"
  /\ at' = [at EXCEPT ![r] = "done"]
  /\ UNCHANGED <<there, conf, tagged, kind, config, detector, gallery, caught>>

\* No model at the path, no store, no camera, no face, or killed.
Fail(r) ==
  /\ Running(r)
  /\ at' = [at EXCEPT ![r] = "failed"]
  /\ UNCHANGED <<there, conf, tagged, kind, config, detector, gallery, caught>>

-----------------------------------------------------------------------------
(* deploy.sh, the settings window, an editor. *)

\* A process that has loaded the old detector for want of the new one goes on
\* with it, and from now on calls it by the name of the new one.
Deploy ==
  /\ Scrfd \notin there
  /\ there' = there \cup {Scrfd}
  /\ caught' = (caught \/ \E r \in Processes : Running(r) /\ config[r].detector = Unset /\ detector[r] = Slim)
  /\ UNCHANGED <<conf, tagged, at, kind, config, detector, gallery>>

Configure ==
  /\ \E c \in Configs \ {conf} : conf' = c
  /\ UNCHANGED <<there, tagged, at, kind, config, detector, gallery, caught>>

TagNext ==
  \/ \E r \in Processes :
       \/ Start(r) \/ New(r) \/ Load(r) \/ CheckModelTag(r)
       \/ Save(r) \/ Verify(r) \/ Fail(r)
  \/ Deploy
  \/ Configure

TagSpec == TagInit /\ [][TagNext]_tagVars

-----------------------------------------------------------------------------
(* Properties. *)

\* The tag of a store tells the truth: every template in it was made by the
\* models it names, but those of a v1 store, which are of unknown origin.  The
\* tag is computed when the store is saved, long after the detector was loaded;
\* a configured detector, or one that is there from the start, makes no odds.
TagTells ==
  (tagged # Absent /\ tagged.tag # NoTag) => caught \/ tagged.made = {tagged.tag}

\* No comparison across two spaces: what a scan compares its faces with was
\* made by the models it runs itself, whatever was configured, enrolled or
\* installed since it read its configuration.
ComparedAlike ==
  \A r \in Processes :
    (kind[r] = "scan" /\ at[r] \in {"allowed", "done"}) => caught \/ gallery[r].made \subseteq {Space(r)}

\* Nobody enrols again for nothing: a scan or an append that was refused held
\* templates its own models did not make.
RefusedRightly ==
  \A r \in Processes : at[r] = "refused" => caught \/ gallery[r].made # {Space(r)}

=============================================================================
