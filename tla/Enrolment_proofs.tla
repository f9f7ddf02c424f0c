--------------------------- MODULE Enrolment_proofs ---------------------------
(***************************************************************************)
(* What holds of the template store for every number of enrolments, scans, *)
(* cameras and models, and every limit; and of the tags in it, for every   *)
(* number of processes and encoders.                                       *)
(***************************************************************************)
EXTENDS Enrolment, Models, TLAPS

-----------------------------------------------------------------------------
(* The invariant. *)

\* What a run holds is of its own model, and fits even with what it may add.
\* The tag of a store with templates of known runs is known.
BufferOfOneModel(r) ==
  RunActive(r) => \A q \in buf[r].from \cap Runs : model[q] = model[r]
BufferHasRoom(r) ==
  /\ pc[r] \in {"loaded", "capturing"} => buf[r].size + Frames <= MaxTemplates
  /\ pc[r] = "captured" => buf[r].size <= MaxTemplates
StoreOfOneModel == \A r \in RunsIn(store) : model[r] = store.tag

\* What a scan holds is of one model, known when it is past the tag check.
ViewOfOneModel(s) == \A r \in RunsIn(view[s]) : model[r] = view[s].tag
ViewChecked(s) ==
  spc[s] = "scanning" =>
    /\ view[s] # Nothing
    /\ scam[s] # Nothing
    /\ TagMatches(view[s].tag, smodel[s])
ViewSealed(s) ==
  SealOn /\ spc[s] # "unsealed" /\ view[s] # Nothing => view[s].sealed

\* From the binding check on, and while no camera is exchanged, the camera
\* plugged in is one the scan allowed.
StillAllowed(s) ==
  /\ spc[s] \in {"allowed", "preparing", "scanning"} => Allowed(s)
  /\ scam[s] # Nothing => bound[s] = {} \/ scam[s] \in bound[s]
Unopened(s) == spc[s] \in {"start", "listed", "allowed"} => scam[s] = Nothing

ModelInv ==
  /\ StoreOfOneModel
  /\ \A r \in Runs : BufferOfOneModel(r)
  /\ \A s \in Scans : ViewOfOneModel(s) /\ ViewChecked(s)
RoomInv == \A r \in Runs : BufferHasRoom(r)
SealInv == \A s \in Scans : ViewSealed(s) /\ ViewChecked(s)
BoundInv ==
  \A s \in Scans : StillAllowed(s) /\ Unopened(s) /\ ViewChecked(s)

-----------------------------------------------------------------------------
(* Type correctness. *)

(* What the code does to a store in memory keeps it one. *)
LEMMA EmptyIsStore == Empty \in Stores
  BY DEF Empty, Stores

LEMMA BaseIsStore == TypeOK => Base \in Stores
  BY EmptyIsStore DEF TypeOK, Base

LEMMA AddedIsStore ==
  ASSUME NEW st \in Stores, NEW r \in Runs, NEW n \in 1..Frames
  PROVE  [st EXCEPT !.from = @ \cup {r}, !.size = @ + n] \in Stores
<1> DEFINE from == st.from \cup {r}
           size == st.size + n
<1>1. from \in SUBSET (Runs \cup {Legacy})
  BY DEF Stores
<1>2. size \in Nat
  <2>1. n \in Nat
    BY EnrolmentAssumption
  <2> QED
    BY <2>1 DEF Stores
<1> HIDE DEF from, size
<1>3. [st EXCEPT !.from = from, !.size = size] \in Stores
  BY <1>1, <1>2 DEF Stores
<1> QED
  BY <1>3 DEF from, size

LEMMA SavedIsStore ==
  ASSUME TypeOK, NEW r \in Runs
  PROVE  Saved(r) \in Stores
<1> DEFINE sealed == SealOn /\ tpm
<1>1. sealed \in BOOLEAN
  OBVIOUS
<1>2. buf[r] \in Stores /\ model[r] \in Models
  BY DEF TypeOK
<1> HIDE DEF sealed
<1>3. [buf[r] EXCEPT !.tag = model[r], !.sealed = sealed] \in Stores
  BY <1>1, <1>2 DEF Stores
<1> QED
  BY <1>3, Zenon DEF Saved, Seals, sealed

(* Every step keeps the variables within their types. *)
LEMMA TypeStep == TypeOK /\ [Next]_vars => TypeOK'
<1> SUFFICES ASSUME TypeOK, [Next]_vars PROVE TypeOK'
  OBVIOUS
<1> USE DEF TypeOK, files, world, runs, scans
<1>1. ASSUME NEW r \in Runs, RunStep(r) PROVE TypeOK'
  <2>1. CASE BeginFresh(r)
    BY <2>1, EmptyIsStore DEF BeginFresh, MayBegin
  <2>2. CASE BeginAppend(r)
    BY <2>2, BaseIsStore DEF BeginAppend, MayBegin
  <2>3. CASE Capture(r)
    <3>1. PICK n \in 1..Frames :
            buf' = [buf EXCEPT ![r].from = @ \cup {r}, ![r].size = @ + n]
      BY <2>3 DEF Capture
    <3>2. buf' = [buf EXCEPT ![r] = [buf[r] EXCEPT !.from = @ \cup {r}, !.size = @ + n]]
      BY <3>1, Zenon
    <3>3. buf' \in [Runs -> Stores]
      BY <3>2, AddedIsStore
    <3> QED
      BY <2>3, <3>3 DEF Capture
  <2>4. CASE SaveStore(r)
    BY <2>4, SavedIsStore, EmptyIsStore DEF SaveStore
  <2>5. CASE ReadList(r)
    BY <2>5 DEF ReadList, Recorded, Cams
  <2>6. CASE WriteList(r)
    BY <2>6 DEF WriteList
  <2>7. CASE RunEnds(r)
    BY <2>7, EmptyIsStore DEF RunEnds, RunActive, HoldsCamera
  <2>8. CASE OpenCamera(r)
    BY <2>8 DEF OpenCamera
  <2> QED
    BY <1>1, <2>1, <2>2, <2>3, <2>4, <2>5, <2>6, <2>7, <2>8 DEF RunStep
<1>2. ASSUME NEW s \in Scans, ScanStep(s) PROVE TypeOK'
  <2>1. CASE ScanListed(s)
    BY <2>1 DEF ScanListed
  <2>2. CASE ScanAllowed(s)
    BY <2>2 DEF ScanAllowed
  <2>3. CASE ScanLookup(s)
    BY <2>3 DEF ScanLookup
  <2>4. CASE ScanLoad(s)
    BY <2>4 DEF ScanLoad
  <2>5. CASE ScanSealRequired(s)
    BY <2>5 DEF ScanSealRequired
  <2>6. CASE ScanOpen(s)
    BY <2>6 DEF ScanOpen
  <2>7. CASE ScanStart(s)
    BY <2>7 DEF ScanStart
  <2>8. CASE ScanEnds(s)
    BY <2>8 DEF ScanEnds
  <2> QED
    BY <1>2, <2>1, <2>2, <2>3, <2>4, <2>5, <2>6, <2>7, <2>8 DEF ScanStep
<1>3. CASE Replug
  BY <1>3 DEF Replug
<1>4. CASE TpmTurns
  BY <1>4 DEF TpmTurns
<1>5. CASE UNCHANGED vars
  BY <1>5 DEF vars
<1> QED
  BY <1>1, <1>2, <1>3, <1>4, <1>5 DEF Next

(* Type correctness, of files and processes alike: the camera list holds USB
   identities only, and a store in memory stays one through every operation. *)
THEOREM TypeCorrect == Spec => []TypeOK
<1>1. Init => TypeOK
  <2>1. [Empty EXCEPT !.from = {Legacy}, !.size = 1] \in Stores
    BY DEF Empty, Stores
  <2>2. ASSUME Init PROVE store \in Stores \cup {Nothing}
    BY <2>1, <2>2 DEF Init
  <2>3. ASSUME Init PROVE buf \in [Runs -> Stores]
    BY <2>3, EmptyIsStore DEF Init
  <2> QED
    BY <2>2, <2>3 DEF Init, TypeOK, Cams
<1> QED
  BY <1>1, TypeStep, PTL DEF Spec

-----------------------------------------------------------------------------
(* Room, seal and binding. *)

(* Every step keeps what a run holds within the limit, and leaves room for
   what it may still add. *)
LEMMA RoomStep == TypeOK /\ RoomInv /\ [Next]_vars => RoomInv'
<1> SUFFICES ASSUME TypeOK, RoomInv, [Next]_vars PROVE RoomInv'
  OBVIOUS
<1> USE DEF RoomInv, BufferHasRoom, files, world, runs, scans
<1>1. ASSUME NEW r \in Runs, RunStep(r) PROVE RoomInv'
  <2>1. CASE BeginFresh(r)
    BY <2>1 DEF BeginFresh, MayBegin, Room, Empty, TypeOK
  <2>2. CASE BeginAppend(r)
    BY <2>2 DEF BeginAppend, MayBegin, CanAppend, Room, TypeOK
  <2>3. CASE Capture(r)
    <3>1. PICK n \in 1..Frames :
            buf' = [buf EXCEPT ![r].from = @ \cup {r}, ![r].size = @ + n]
      BY <2>3 DEF Capture
    <3>2. buf'[r].size = buf[r].size + n
      BY <3>1 DEF TypeOK, Stores
    <3>3. buf[r].size \in Nat /\ n <= Frames /\ n \in Nat
      BY EnrolmentAssumption DEF TypeOK, Stores
    <3>4. buf[r].size + n <= MaxTemplates
      BY <2>3, <3>3, EnrolmentAssumption DEF Capture
    <3>5. \A q \in Runs \ {r} : buf'[q] = buf[q]
      BY <3>1 DEF TypeOK
    <3> QED
      BY <2>3, <3>2, <3>4, <3>5 DEF Capture, TypeOK
  <2>4. CASE SaveStore(r)
    BY <2>4 DEF SaveStore, TypeOK
  <2>5. CASE ReadList(r)
    BY <2>5 DEF ReadList
  <2>6. CASE WriteList(r)
    BY <2>6 DEF WriteList
  <2>7. CASE RunEnds(r)
    BY <2>7 DEF RunEnds, TypeOK
  <2>8. CASE OpenCamera(r)
    BY <2>8 DEF OpenCamera, TypeOK
  <2> QED
    BY <1>1, <2>1, <2>2, <2>3, <2>4, <2>5, <2>6, <2>7, <2>8 DEF RunStep
<1>2. ASSUME NEW s \in Scans, ScanStep(s) PROVE RoomInv'
  <2>1. CASE ScanListed(s)
    BY <2>1 DEF ScanListed
  <2>2. CASE ScanAllowed(s)
    BY <2>2 DEF ScanAllowed
  <2>3. CASE ScanLookup(s)
    BY <2>3 DEF ScanLookup
  <2>4. CASE ScanLoad(s)
    BY <2>4 DEF ScanLoad
  <2>5. CASE ScanSealRequired(s)
    BY <2>5 DEF ScanSealRequired
  <2>6. CASE ScanOpen(s)
    BY <2>6 DEF ScanOpen
  <2>7. CASE ScanStart(s)
    BY <2>7 DEF ScanStart
  <2>8. CASE ScanEnds(s)
    BY <2>8 DEF ScanEnds
  <2> QED
    BY <1>2, <2>1, <2>2, <2>3, <2>4, <2>5, <2>6, <2>7, <2>8 DEF ScanStep
<1>3. CASE Replug
  BY <1>3 DEF Replug
<1>4. CASE TpmTurns
  BY <1>4 DEF TpmTurns
<1>5. CASE UNCHANGED vars
  BY <1>5 DEF vars
<1> QED
  BY <1>1, <1>2, <1>3, <1>4, <1>5 DEF Next

(* Every step keeps the templates a scan goes on with sealed, if they must be. *)
LEMMA SealStep == TypeOK /\ SealInv /\ [Next]_vars => SealInv'
<1> SUFFICES ASSUME TypeOK, SealInv, [Next]_vars PROVE SealInv'
  OBVIOUS
<1> USE DEF SealInv, ViewSealed, ViewChecked, files, world, runs, scans
<1>1. ASSUME NEW r \in Runs, RunStep(r) PROVE SealInv'
  <2>1. CASE BeginFresh(r)
    BY <2>1 DEF BeginFresh
  <2>2. CASE BeginAppend(r)
    BY <2>2 DEF BeginAppend
  <2>3. CASE Capture(r)
    BY <2>3 DEF Capture
  <2>4. CASE SaveStore(r)
    BY <2>4 DEF SaveStore
  <2>5. CASE ReadList(r)
    BY <2>5 DEF ReadList
  <2>6. CASE WriteList(r)
    BY <2>6 DEF WriteList
  <2>7. CASE RunEnds(r)
    BY <2>7 DEF RunEnds
  <2>8. CASE OpenCamera(r)
    BY <2>8 DEF OpenCamera
  <2> QED
    BY <1>1, <2>1, <2>2, <2>3, <2>4, <2>5, <2>6, <2>7, <2>8 DEF RunStep
<1>2. ASSUME NEW s \in Scans, ScanStep(s) PROVE SealInv'
  <2>1. CASE ScanListed(s)
    BY <2>1 DEF ScanListed
  <2>2. CASE ScanAllowed(s)
    BY <2>2 DEF ScanAllowed
  <2>3. CASE ScanLookup(s)
    BY <2>3 DEF ScanLookup
  <2>4. CASE ScanLoad(s)
    BY <2>4 DEF ScanLoad
  <2>5. CASE ScanSealRequired(s)
    BY <2>5 DEF ScanSealRequired, TypeOK
  <2>6. CASE ScanOpen(s)
    BY <2>6 DEF ScanOpen
  <2>7. CASE ScanStart(s)
    BY <2>7 DEF ScanStart
  <2>8. CASE ScanEnds(s)
    BY <2>8 DEF ScanEnds, ScanActive, TypeOK
  <2> QED
    BY <1>2, <2>1, <2>2, <2>3, <2>4, <2>5, <2>6, <2>7, <2>8 DEF ScanStep
<1>3. CASE Replug
  BY <1>3 DEF Replug
<1>4. CASE TpmTurns
  BY <1>4 DEF TpmTurns
<1>5. CASE UNCHANGED vars
  BY <1>5 DEF vars
<1> QED
  BY <1>1, <1>2, <1>3, <1>4, <1>5 DEF Next

(* No step moves a scan from the cameras it allowed, unless cameras are
   exchanged under a running process. *)
LEMMA BoundStep == ~Hotplug /\ TypeOK /\ BoundInv /\ [Next]_vars => BoundInv'
<1> SUFFICES ASSUME ~Hotplug, TypeOK, BoundInv, [Next]_vars PROVE BoundInv'
  OBVIOUS
<1> USE DEF BoundInv, StillAllowed, Allowed, Unopened, ViewChecked, files, world, runs, scans
<1>1. ASSUME NEW r \in Runs, RunStep(r) PROVE BoundInv'
  <2>1. CASE BeginFresh(r)
    BY <2>1 DEF BeginFresh
  <2>2. CASE BeginAppend(r)
    BY <2>2 DEF BeginAppend
  <2>3. CASE Capture(r)
    BY <2>3 DEF Capture
  <2>4. CASE SaveStore(r)
    BY <2>4 DEF SaveStore
  <2>5. CASE ReadList(r)
    BY <2>5 DEF ReadList
  <2>6. CASE WriteList(r)
    BY <2>6 DEF WriteList
  <2>7. CASE RunEnds(r)
    BY <2>7 DEF RunEnds
  <2>8. CASE OpenCamera(r)
    BY <2>8 DEF OpenCamera
  <2> QED
    BY <1>1, <2>1, <2>2, <2>3, <2>4, <2>5, <2>6, <2>7, <2>8 DEF RunStep
<1>2. ASSUME NEW s \in Scans, ScanStep(s) PROVE BoundInv'
  <2>1. CASE ScanListed(s)
    BY <2>1 DEF ScanListed
  <2>2. CASE ScanAllowed(s)
    BY <2>2 DEF ScanAllowed
  <2>3. CASE ScanLookup(s)
    BY <2>3 DEF ScanLookup
  <2>4. CASE ScanLoad(s)
    BY <2>4 DEF ScanLoad
  <2>5. CASE ScanSealRequired(s)
    BY <2>5 DEF ScanSealRequired
  <2>6. CASE ScanOpen(s)
    BY <2>6 DEF ScanOpen
  <2>7. CASE ScanStart(s)
    BY <2>7 DEF ScanStart
  <2>8. CASE ScanEnds(s)
    BY <2>8 DEF ScanEnds, ScanActive, TypeOK
  <2> QED
    BY <1>2, <2>1, <2>2, <2>3, <2>4, <2>5, <2>6, <2>7, <2>8 DEF ScanStep
<1>3. CASE Replug
  BY <1>3 DEF Replug, Quiet, ScanActive, TypeOK
<1>4. CASE TpmTurns
  BY <1>4 DEF TpmTurns
<1>5. CASE UNCHANGED vars
  BY <1>5 DEF vars
<1> QED
  BY <1>1, <1>2, <1>3, <1>4, <1>5 DEF Next

(* Every step keeps every gallery, on disk, in a run or in a scan, of one model. *)
LEMMA ModelStep == TypeOK /\ ModelInv /\ [Next]_vars => ModelInv'
<1> SUFFICES ASSUME TypeOK, ModelInv, [Next]_vars PROVE ModelInv'
  OBVIOUS
<1> USE DEF ModelInv, StoreOfOneModel, BufferOfOneModel, ViewOfOneModel, ViewChecked, TagMatches,
           RunsIn, RunActive, HoldsCamera, files, world, runs, scans
<1>1. ASSUME NEW r \in Runs, RunStep(r) PROVE ModelInv'
  <2>1. CASE BeginFresh(r)
    BY <2>1 DEF BeginFresh, Empty, TypeOK
  <2>2. CASE BeginAppend(r)
    <3>1. \A q \in Base.from \cap Runs : model[q] = model[r]
      BY <2>2, EnrolmentAssumption DEF BeginAppend, CanAppend, Base, Empty, TypeOK
    <3> QED
      BY <2>2, <3>1 DEF BeginAppend, TypeOK
  <2>3. CASE Capture(r)
    <3>1. PICK n \in 1..Frames :
            buf' = [buf EXCEPT ![r].from = @ \cup {r}, ![r].size = @ + n]
      BY <2>3 DEF Capture
    <3>2. buf'[r].from = buf[r].from \cup {r}
      BY <3>1 DEF TypeOK, Stores
    <3>3. \A q \in Runs \ {r} : buf'[q] = buf[q]
      BY <3>1 DEF TypeOK
    <3> QED
      BY <2>3, <3>2, <3>3 DEF Capture, TypeOK
  <2>4. CASE SaveStore(r)
    <3>1. /\ Saved(r).from = buf[r].from
          /\ Saved(r).tag = model[r]
      BY DEF Saved, TypeOK, Stores
    <3>2. Saved(r) # Nothing
      BY SavedIsStore, EnrolmentAssumption
    <3>3. StoreOfOneModel'
      BY <2>4, <3>1, <3>2 DEF SaveStore
    <3>4. \A q \in Runs : BufferOfOneModel(q)'
      BY <2>4 DEF SaveStore, Empty, TypeOK
    <3> QED
      BY <2>4, <3>3, <3>4 DEF SaveStore
  <2>5. CASE ReadList(r)
    BY <2>5 DEF ReadList
  <2>6. CASE WriteList(r)
    BY <2>6 DEF WriteList
  <2>7. CASE RunEnds(r)
    BY <2>7 DEF RunEnds, Empty, TypeOK
  <2>8. CASE OpenCamera(r)
    BY <2>8 DEF OpenCamera, TypeOK
  <2> QED
    BY <1>1, <2>1, <2>2, <2>3, <2>4, <2>5, <2>6, <2>7, <2>8 DEF RunStep
<1>2. ASSUME NEW s \in Scans, ScanStep(s) PROVE ModelInv'
  <2>1. CASE ScanListed(s)
    BY <2>1 DEF ScanListed
  <2>2. CASE ScanAllowed(s)
    BY <2>2 DEF ScanAllowed
  <2>3. CASE ScanLookup(s)
    BY <2>3 DEF ScanLookup
  <2>4. CASE ScanLoad(s)
    BY <2>4 DEF ScanLoad
  <2>5. CASE ScanSealRequired(s)
    BY <2>5 DEF ScanSealRequired
  <2>6. CASE ScanOpen(s)
    BY <2>6 DEF ScanOpen
  <2>7. CASE ScanStart(s)
    BY <2>7 DEF ScanStart
  <2>8. CASE ScanEnds(s)
    BY <2>8 DEF ScanEnds, ScanActive, TypeOK
  <2> QED
    BY <1>2, <2>1, <2>2, <2>3, <2>4, <2>5, <2>6, <2>7, <2>8 DEF ScanStep
<1>3. CASE Replug
  BY <1>3 DEF Replug
<1>4. CASE TpmTurns
  BY <1>4 DEF TpmTurns
<1>5. CASE UNCHANGED vars
  BY <1>5 DEF vars
<1> QED
  BY <1>1, <1>2, <1>3, <1>4, <1>5 DEF Next

-----------------------------------------------------------------------------
(* What follows for every reachable state. *)

(* No gallery of two models is ever stored or compared with, however the
   enrolments and scans interleave. *)
THEOREM ModelsNeverMix == Spec => []OneModel
<1>1. ASSUME Init PROVE ModelInv
  <2>1. RunsIn(store) = {}
    <3>1. store = Nothing \/ store.from = {Legacy}
      BY <1>1 DEF Init, Empty
    <3>2. {Legacy} \cap Runs = {}
      BY EnrolmentAssumption
    <3> QED
      BY <3>1, <3>2 DEF RunsIn
  <2>2. \A s \in Scans : RunsIn(view[s]) = {} /\ spc[s] = "start"
    BY <1>1 DEF Init, RunsIn
  <2>3. \A r \in Runs : ~RunActive(r)
    BY <1>1 DEF Init, RunActive, HoldsCamera
  <2> QED
    BY <2>1, <2>2, <2>3 DEF ModelInv, StoreOfOneModel, BufferOfOneModel,
       ViewOfOneModel, ViewChecked
<1>2. TypeOK /\ ModelInv => OneModel
  BY EnrolmentAssumption DEF TypeOK, ModelInv, StoreOfOneModel, ViewOfOneModel,
     ViewChecked, TagMatches, OneModel, RunsIn
<1> QED
  BY <1>1, <1>2, TypeCorrect, ModelStep, PTL DEF Spec

(* The room checked before the camera opens is enough for the save. *)
THEOREM SaveHasRoom == Spec => []RoomHolds
<1>1. Init => RoomInv
  BY DEF Init, RoomInv, BufferHasRoom
<1>2. RoomInv => RoomHolds
  BY DEF RoomInv, BufferHasRoom, RoomHolds
<1> QED
  BY <1>1, <1>2, TypeCorrect, RoomStep, PTL DEF Spec

(* With sealing on, no scan ever compares with a store that was not sealed. *)
THEOREM SealAlwaysHolds == Spec => []SealHolds
<1>1. Init => SealInv
  BY DEF Init, SealInv, ViewSealed, ViewChecked
<1>2. SealInv => SealHolds
  BY DEF SealInv, ViewSealed, ViewChecked, SealHolds
<1> QED
  BY <1>1, <1>2, TypeCorrect, SealStep, PTL DEF Spec

(* While no camera is exchanged under a running process, a scan reads frames
   from a camera on the list it checked, and no other. *)
THEOREM ScansAreBound == ~Hotplug /\ Spec => []BoundScan
<1>1. Init => BoundInv
  BY DEF Init, BoundInv, StillAllowed, Unopened, ViewChecked
<1>2. BoundInv => BoundScan
  BY DEF BoundInv, StillAllowed, ViewChecked, BoundScan
<1>3. ~Hotplug => (TypeOK /\ BoundInv /\ [Next]_vars => BoundInv')
  BY BoundStep
<1> QED
  <2>1. CASE Hotplug
    BY <2>1
  <2>2. CASE ~Hotplug
    <3>1. TypeOK /\ BoundInv /\ [Next]_vars => BoundInv'
      BY <2>2, <1>3
    <3> QED
      BY <1>1, <1>2, <3>1, TypeCorrect, PTL DEF Spec
  <2> QED
    BY <2>1, <2>2

-----------------------------------------------------------------------------
(* Enrolments one at a time.  While a run is under way nobody else writes,  *)
(* so what it holds is still what is stored, and its own.                   *)

OneRun == \A q, r \in Runs : RunActive(q) /\ RunActive(r) => q = r

\* What a run starts from, of the store as it is now and of the list.
KeptRuns(r) == IF appends[r] THEN RunsIn(store) ELSE {}
KeptList(r) == IF appends[r] THEN list ELSE {}

HoldsKept(r) ==
  /\ pc[r] = "start" => ~appends[r]
  /\ pc[r] \in {"loaded", "capturing"} => RunsIn(buf[r]) = KeptRuns(r)
  /\ pc[r] = "captured" => RunsIn(buf[r]) = KeptRuns(r) \cup {r}

AloneInv == OneRun /\ \A r \in Runs : HoldsKept(r)

\* And cameras exchanged only between processes.  A run is stored with the
\* camera it has had from its start, and not before it saves.
OwnCam(r) ==
  /\ HoldsCamera(r) => cam[r] = plugged
  /\ pc[r] \in {"saved", "recording"} => r \in RunsIn(store)
  /\ r \in RunsIn(store) => pc[r] \notin {"start", "loaded", "capturing", "captured"}

StoredCams == {cam[q] : q \in RunsIn(store)}

\* A list accounts for the runs in the store: it has the cameras of those that
\* completed, and of no others unless one ended between the files.
Accounts(l) ==
  /\ \A q \in RunsIn(store) : pc[q] = "done" => cam[q] \in l \cup {NoId}
  /\ ~torn => l \subseteq StoredCams

Between(r) == pc[r] \in {"saved", "recording"}

\* Between the files it is what the run keeps of the list that accounts for the
\* store, and then what it is about to write.
ListFits(r) ==
  /\ Between(r) => Accounts(KeptList(r))
  /\ pc[r] = "recording" =>
       Accounts(ids[r]) /\ cam[r] \in ids[r] \cup {NoId}

FilesInv ==
  /\ \A r \in Runs : OwnCam(r) /\ ListFits(r)
  /\ (\A r \in Runs : ~Between(r)) => Accounts(list)

\* A scan whose camera is on the list it read has templates of that camera:
\* in the store, from then on, and in what it loaded.
CameraStored(s) ==
  ScanActive(s) /\ plugged \in bound[s] /\ ~torn =>
    /\ plugged \in StoredCams
    /\ view[s] # Nothing => plugged \in {cam[q] : q \in RunsIn(view[s])}

ViewKnown(s) ==
  /\ \A q \in RunsIn(view[s]) : pc[q] \notin {"start", "loaded"}
  /\ spc[s] \in {"start", "listed", "allowed"} => view[s] = Nothing

CameraKept(s) ==
  /\ ScanActive(s) => scam[s] \in {Nothing, plugged}
  /\ spc[s] \in {"allowed", "preparing", "scanning"} => Allowed(s)
  /\ spc[s] \in {"start", "listed", "allowed"} => scam[s] = Nothing
  /\ spc[s] = "scanning" => view[s] # Nothing /\ scam[s] # Nothing

ScansInv == \A s \in Scans : CameraStored(s) /\ ViewKnown(s) /\ CameraKept(s)

(* Runs in a store in memory: those it is made of. *)
LEMMA RunsInStores == \A st \in Stores : RunsIn(st) = st.from \cap Runs
  BY EnrolmentAssumption DEF RunsIn

LEMMA RunsInBase == TypeOK => RunsIn(Base) = RunsIn(store)
  BY DEF Base, Empty, RunsIn, TypeOK

LEMMA RunsInAdded ==
  ASSUME TypeOK, NEW r \in Runs, Capture(r)
  PROVE  /\ RunsIn(buf'[r]) = RunsIn(buf[r]) \cup {r}
         /\ \A q \in Runs \ {r} : buf'[q] = buf[q]
<1>1. PICK n \in 1..Frames :
        buf' = [buf EXCEPT ![r] = [buf[r] EXCEPT !.from = @ \cup {r}, !.size = @ + n]]
  BY Zenon DEF Capture
<1> DEFINE added == [buf[r] EXCEPT !.from = @ \cup {r}, !.size = @ + n]
<1>2. buf[r] \in Stores /\ added \in Stores
  BY AddedIsStore DEF TypeOK
<1>3. added.from = buf[r].from \cup {r}
  BY <1>2 DEF Stores
<1>4. buf'[r] = added /\ \A q \in Runs \ {r} : buf'[q] = buf[q]
  BY <1>1 DEF TypeOK
<1> HIDE DEF added
<1>5. RunsIn(added) = RunsIn(buf[r]) \cup {r}
  BY <1>2, <1>3, RunsInStores
<1> QED
  BY <1>4, <1>5

LEMMA RunsInSaved ==
  ASSUME TypeOK, NEW r \in Runs, SaveStore(r)
  PROVE  RunsIn(store') = RunsIn(buf[r])
<1>1. Saved(r) \in Stores /\ buf[r] \in Stores
  BY SavedIsStore DEF TypeOK
<1>2. Saved(r).from = buf[r].from
  BY <1>1 DEF Saved, Stores
<1> QED
  BY <1>1, <1>2, RunsInStores DEF SaveStore

(* A scan leaves what enrolments hold and the files alone. *)
LEMMA ScansOnlyRead ==
  ASSUME NEW s \in Scans, ScanStep(s)
  PROVE  UNCHANGED <<files, world, runs>>
BY DEF ScanStep, ScanListed, ScanAllowed, ScanLookup, ScanLoad, ScanSealRequired,
       ScanOpen, ScanStart, ScanEnds

(* One at a time, a run holds what is stored. *)
LEMMA AloneStep == ~Together /\ TypeOK /\ AloneInv /\ [Next]_vars => AloneInv'
<1> SUFFICES ASSUME ~Together, TypeOK, AloneInv, [Next]_vars PROVE AloneInv'
  OBVIOUS
<1> USE DEF AloneInv, OneRun, HoldsKept, KeptRuns, RunActive, HoldsCamera, runs, files
<1>1. ASSUME NEW r \in Runs, RunStep(r) PROVE AloneInv'
  <2>1. CASE BeginFresh(r)
    <3>1. RunsIn(Empty) = {}
      BY DEF RunsIn, Empty
    <3> QED
      BY <2>1, <3>1 DEF BeginFresh, MayBegin, TypeOK
  <2>2. CASE BeginAppend(r)
    <3>1. pc[r] = "start" /\ \A q \in Runs : ~RunActive(q)
      BY <2>2 DEF BeginAppend, MayBegin
    <3>2. /\ pc' = [pc EXCEPT ![r] = "loaded"]
          /\ appends' = [appends EXCEPT ![r] = TRUE]
          /\ buf' = [buf EXCEPT ![r] = Base]
          /\ store' = store
      BY <2>2 DEF BeginAppend
    <3> HIDE DEF Base
    <3> QED
      BY <3>1, <3>2, RunsInBase DEF TypeOK
  <2>3. CASE Capture(r)
    <3>1. /\ pc[r] = "capturing" /\ pc' = [pc EXCEPT ![r] = "captured"]
          /\ UNCHANGED <<store, appends>>
      BY <2>3 DEF Capture
    <3>2. /\ RunsIn(buf'[r]) = RunsIn(buf[r]) \cup {r}
          /\ \A q \in Runs \ {r} : buf'[q] = buf[q]
      BY <2>3, RunsInAdded
    <3>3. OneRun'
      BY <3>1 DEF TypeOK
    <3>4. \A q \in Runs \ {r} : HoldsKept(q)'
      BY <3>1, <3>2 DEF TypeOK
    <3>5. HoldsKept(r)'
      <4>1. RunsIn(buf[r]) = KeptRuns(r) /\ KeptRuns(r)' = KeptRuns(r)
        BY <3>1
      <4>2. pc'[r] = "captured"
        BY <3>1 DEF TypeOK
      <4> HIDE DEF KeptRuns
      <4> QED
        BY <3>2, <4>1, <4>2
    <3> QED
      BY <3>3, <3>4, <3>5
  <2>4. CASE SaveStore(r)
    BY <2>4 DEF SaveStore, TypeOK
  <2>5. CASE ReadList(r)
    BY <2>5 DEF ReadList, TypeOK
  <2>6. CASE WriteList(r)
    BY <2>6 DEF WriteList, TypeOK
  <2>7. CASE RunEnds(r)
    BY <2>7 DEF RunEnds, TypeOK
  <2>8. CASE OpenCamera(r)
    BY <2>8 DEF OpenCamera, TypeOK
  <2> QED
    BY <1>1, <2>1, <2>2, <2>3, <2>4, <2>5, <2>6, <2>7, <2>8 DEF RunStep
<1>2. ASSUME NEW s \in Scans, ScanStep(s) PROVE AloneInv'
  BY <1>2, ScansOnlyRead
<1>3. CASE Replug \/ TpmTurns \/ UNCHANGED vars
  BY <1>3 DEF Replug, TpmTurns, vars
<1> QED
  BY <1>1, <1>2, <1>3 DEF Next

(* Enrolments that run one at a time lose no template to an improve. *)
THEOREM ImprovesAreKept == ASSUME ~Together PROVE Spec => ImprovesKeep
<1>1. Init => AloneInv
  BY DEF Init, AloneInv, OneRun, HoldsKept, RunActive, HoldsCamera
<1>2. TypeOK /\ AloneInv /\ [Next]_vars => AloneInv'
  BY AloneStep
<1>3. TypeOK /\ AloneInv /\ [Next]_vars =>
        [\A r \in Runs : pc[r] = "captured" /\ pc'[r] = "saved" /\ appends[r] =>
           RunsIn(store) \subseteq RunsIn(store')]_vars
  <2> SUFFICES ASSUME TypeOK, AloneInv, Next, NEW r \in Runs,
                      pc[r] = "captured", pc'[r] = "saved", appends[r]
               PROVE  RunsIn(store) \subseteq RunsIn(store')
    BY DEF vars
  <2>1. SaveStore(r)
    BY ZenonT(60) DEF Next, RunStep, BeginFresh, BeginAppend, MayBegin, OpenCamera, Capture,
           SaveStore, ReadList, WriteList, RunEnds, ScanStep, ScanListed, ScanAllowed, ScanLookup,
           ScanLoad, ScanSealRequired, ScanOpen, ScanStart, ScanEnds, Replug, TpmTurns, runs, TypeOK
  <2> QED
    BY <2>1, RunsInSaved DEF AloneInv, HoldsKept, KeptRuns
<1> QED
  BY <1>1, <1>2, <1>3, TypeCorrect, PTL DEF Spec, ImprovesKeep

(* One at a time, and with cameras exchanged between processes only, the    *)
(* list accounts for the store whenever no run is between the two.          *)
LEMMA FilesStep ==
  ASSUME ~Together, ~Hotplug, TypeOK, AloneInv, FilesInv, [Next]_vars
  PROVE  FilesInv'
<1> USE DEF files, world, runs, scans
<1> DEFINE Alone(r) == \A q \in Runs \ {r} : ~RunActive(q)
<1>1. ASSUME NEW r \in Runs, RunStep(r) PROVE FilesInv'
  <2>1. CASE BeginFresh(r) \/ BeginAppend(r) \/ OpenCamera(r)
    <3>1. /\ pc[r] \in {"start", "loaded"} /\ pc'[r] \in {"loaded", "capturing"}
          /\ HoldsCamera(r)' => cam'[r] = plugged
          /\ \A q \in Runs \ {r} : pc'[q] = pc[q] /\ cam'[q] = cam[q]
          /\ UNCHANGED <<store, list, plugged, ids, torn>>
      BY <2>1 DEF BeginFresh, BeginAppend, MayBegin, OpenCamera, HoldsCamera, TypeOK
    <3>2. \A q \in Runs \ {r} : ~RunActive(q)
      BY <2>1 DEF BeginFresh, BeginAppend, MayBegin, OpenCamera, AloneInv, OneRun, RunActive
    <3>3. Accounts(list) /\ r \notin RunsIn(store)
      BY <3>1, <3>2 DEF FilesInv, Between, RunActive, HoldsCamera, OwnCam
    <3>4. RunsIn(store') = RunsIn(store) /\ StoredCams' = StoredCams
      BY <3>1, <3>3 DEF StoredCams, RunsIn
    <3>5. Accounts(list)'
      BY <3>1, <3>3, <3>4 DEF Accounts, RunsIn
    <3>6. \A q \in Runs : ~Between(q)'
      BY <3>1, <3>2 DEF Between, RunActive, HoldsCamera
    <3>7. \A q \in Runs : OwnCam(q)'
      BY <3>1, <3>2, <3>3, <3>4 DEF FilesInv, OwnCam, RunActive, HoldsCamera
    <3> QED
      BY <3>5, <3>6, <3>7 DEF FilesInv, ListFits, Between
  <2>2. CASE Capture(r)
    <3>1. /\ pc[r] = "capturing" /\ pc' = [pc EXCEPT ![r] = "captured"]
          /\ UNCHANGED <<store, list, plugged, appends, cam, ids, torn>>
      BY <2>2 DEF Capture
    <3> QED
      BY <3>1 DEF FilesInv, OwnCam, ListFits, Between, Accounts, KeptList, StoredCams,
                  RunActive, HoldsCamera, TypeOK
  <2>3. CASE SaveStore(r)
    <3>1. /\ pc[r] = "captured" /\ pc' = [pc EXCEPT ![r] = "saved"]
          /\ UNCHANGED <<list, plugged, appends, cam, ids, torn>>
      BY <2>3 DEF SaveStore
    <3>2. RunsIn(store') = KeptRuns(r) \cup {r}
      BY <3>1, <2>3, RunsInSaved DEF AloneInv, HoldsKept
    <3>3. Alone(r)
      BY <3>1 DEF AloneInv, OneRun, RunActive, HoldsCamera
    <3>4. Accounts(list) /\ cam[r] = plugged
      BY <3>1, <3>3 DEF FilesInv, Between, RunActive, HoldsCamera, OwnCam
    <3>5. KeptRuns(r) \subseteq RunsIn(store)
      BY DEF KeptRuns
    <3>6. \A q \in Runs : OwnCam(q)'
      BY <3>1, <3>2, <3>3, <3>4, <3>5 DEF FilesInv, OwnCam, RunActive, HoldsCamera, TypeOK
    <3>7. Accounts(KeptList(r))'
      <4>1. CASE appends[r]
        <5>1. RunsIn(store') = RunsIn(store) \cup {r} /\ KeptList(r)' = list
          BY <3>1, <3>2, <4>1 DEF KeptRuns, KeptList
        <5> QED
          BY <3>1, <3>4, <5>1 DEF Accounts, StoredCams, TypeOK
      <4>2. CASE ~appends[r]
        <5>1. RunsIn(store') = {r} /\ KeptList(r)' = {}
          BY <3>1, <3>2, <4>2 DEF KeptRuns, KeptList
        <5> QED
          BY <3>1, <5>1 DEF Accounts, TypeOK
      <4> QED
        BY <4>1, <4>2
    <3>8. \A q \in Runs \ {r} : ~Between(q)'
      BY <3>1, <3>3 DEF Between, RunActive, HoldsCamera
    <3>9. Between(r)' /\ pc'[r] # "recording"
      BY <3>1 DEF Between, TypeOK
    <3> QED
      BY <3>6, <3>7, <3>8, <3>9 DEF FilesInv, ListFits, Between
  <2>4. CASE ReadList(r)
    <3>1. /\ pc[r] = "saved" /\ pc' = [pc EXCEPT ![r] = "recording"]
          /\ ids' = [ids EXCEPT ![r] = KeptList(r) \cup ({plugged} \cap Cameras)]
          /\ UNCHANGED <<store, list, plugged, appends, cam, torn>>
      BY <2>4 DEF ReadList, Recorded, KeptList
    <3>2. Alone(r)
      BY <3>1 DEF AloneInv, OneRun, RunActive, HoldsCamera
    <3>3. cam[r] = plugged /\ r \in RunsIn(store) /\ Accounts(KeptList(r))
      BY <3>1 DEF FilesInv, OwnCam, ListFits, Between, RunActive, HoldsCamera
    <3>4. /\ RunsIn(store)' = RunsIn(store) /\ StoredCams' = StoredCams
          /\ KeptList(r)' = KeptList(r)
      BY <3>1 DEF StoredCams, RunsIn, KeptList
    <3>5. ids'[r] = KeptList(r) \cup ({plugged} \cap Cameras)
      BY <3>1 DEF TypeOK
    <3>6. Accounts(KeptList(r))' /\ Accounts(ids[r])'
      BY <3>1, <3>3, <3>4, <3>5 DEF Accounts, StoredCams, TypeOK
    <3>7. cam'[r] \in ids'[r] \cup {NoId}
      BY <3>1, <3>3, <3>5 DEF TypeOK, Cams
    <3>8. \A q \in Runs : OwnCam(q)'
      BY <3>1, <3>4 DEF FilesInv, OwnCam, RunActive, HoldsCamera, TypeOK
    <3>9. Between(r)' /\ \A q \in Runs \ {r} : ~Between(q)'
      BY <3>1, <3>2 DEF Between, RunActive, HoldsCamera, TypeOK
    <3> QED
      BY <3>6, <3>7, <3>8, <3>9 DEF FilesInv, ListFits, Between
  <2>5. CASE WriteList(r)
    <3>1. /\ pc[r] = "recording" /\ pc' = [pc EXCEPT ![r] = "done"]
          /\ list' = ids[r]
          /\ UNCHANGED <<store, plugged, appends, cam, torn>>
      BY <2>5 DEF WriteList
    <3>2. Alone(r)
      BY <3>1 DEF AloneInv, OneRun, RunActive, HoldsCamera
    <3>3. Accounts(ids[r]) /\ cam[r] \in ids[r] \cup {NoId}
      BY <3>1 DEF FilesInv, ListFits
    <3>4. RunsIn(store)' = RunsIn(store) /\ StoredCams' = StoredCams
      BY <3>1 DEF StoredCams, RunsIn
    <3>5. Accounts(list)'
      BY <3>1, <3>3, <3>4 DEF Accounts, TypeOK, RunsIn
    <3>6. \A q \in Runs : OwnCam(q)'
      BY <3>1, <3>4 DEF FilesInv, OwnCam, RunActive, HoldsCamera, TypeOK
    <3>7. \A q \in Runs : ~Between(q)'
      BY <3>1, <3>2 DEF Between, RunActive, HoldsCamera, TypeOK
    <3> QED
      BY <3>5, <3>6, <3>7 DEF FilesInv, ListFits, Between
  <2>6. CASE RunEnds(r)
    <3>1. /\ pc' = [pc EXCEPT ![r] = "failed"]
          /\ torn' = (torn \/ Between(r))
          /\ \A q \in Runs \ {r} : ids'[q] = ids[q]
          /\ UNCHANGED <<store, list, plugged, appends, cam>>
          /\ pc[r] # "done"
      BY <2>6 DEF RunEnds, Between, RunActive, HoldsCamera, TypeOK
    <3>2. RunsIn(store)' = RunsIn(store) /\ StoredCams' = StoredCams
      BY <3>1 DEF StoredCams, RunsIn
    <3>3. \A q \in Runs : OwnCam(q)'
      BY <3>1, <3>2 DEF FilesInv, OwnCam, RunActive, HoldsCamera, TypeOK
    <3>4. CASE Between(r)
      <4>1. \A q \in Runs \ {r} : ~Between(q)
        BY <3>4 DEF AloneInv, OneRun, RunActive, HoldsCamera, Between
      <4>2. \A q \in Runs : ~Between(q)'
        BY <3>1, <4>1 DEF Between, TypeOK
      <4>3. KeptList(r) \subseteq list /\ Accounts(KeptList(r)) /\ torn'
        BY <3>1, <3>4 DEF FilesInv, ListFits, KeptList
      <4>4. Accounts(list)'
        BY <3>1, <3>2, <4>3 DEF Accounts, TypeOK, RunsIn
      <4> QED
        BY <3>3, <4>2, <4>4 DEF FilesInv, ListFits, Between
    <3>5. CASE ~Between(r)
      <4>1. torn' = torn /\ \A q \in Runs : Between(q)' = Between(q)
        BY <3>1, <3>5 DEF Between, TypeOK
      <4>2. \A l : Accounts(l) => Accounts(l)'
        BY <3>1, <3>2, <4>1 DEF Accounts, TypeOK, RunsIn
      <4>3. ASSUME NEW q \in Runs PROVE ListFits(q)'
        <5>1. CASE q = r
          BY <3>5, <4>1, <5>1 DEF ListFits, Between
        <5>2. CASE q # r
          <6>1. /\ ids'[q] = ids[q] /\ pc'[q] = pc[q] /\ cam'[q] = cam[q]
                /\ KeptList(q)' = KeptList(q)
            BY <3>1, <5>2 DEF KeptList, TypeOK
          <6>2. Between(q) => Accounts(KeptList(q))'
            BY <4>2, <6>1 DEF FilesInv, ListFits
          <6>3. pc[q] = "recording" => Accounts(ids[q])'
            BY <4>2, <6>1 DEF FilesInv, ListFits
          <6> QED
            BY <4>1, <6>1, <6>2, <6>3 DEF FilesInv, ListFits
        <5> QED
          BY <5>1, <5>2
      <4>4. (\A q \in Runs : ~Between(q)') => Accounts(list)'
        BY <3>1, <4>1, <4>2 DEF FilesInv
      <4> QED
        BY <3>3, <4>3, <4>4 DEF FilesInv
    <3> QED
      BY <3>4, <3>5
  <2> QED
    BY <1>1, <2>1, <2>2, <2>3, <2>4, <2>5, <2>6 DEF RunStep
<1>2. ASSUME NEW s \in Scans, ScanStep(s) PROVE FilesInv'
  BY <1>2, ScansOnlyRead DEF FilesInv, OwnCam, ListFits, Between, Accounts, KeptList,
                             StoredCams, RunActive, HoldsCamera
<1>3. CASE Replug
  BY <1>3 DEF Replug, Quiet, FilesInv, OwnCam, ListFits, Between, Accounts, KeptList,
              StoredCams, RunActive, HoldsCamera
<1>4. CASE TpmTurns \/ UNCHANGED vars
  BY <1>4 DEF TpmTurns, vars, FilesInv, OwnCam, ListFits, Between, Accounts, KeptList,
              StoredCams, RunActive, HoldsCamera
<1> QED
  BY <1>1, <1>2, <1>3, <1>4 DEF Next

(* Nothing is enrolled at the start that a list would have to account for.  *)
LEMMA FilesStart == Init => AloneInv /\ FilesInv
<1> SUFFICES ASSUME Init PROVE AloneInv /\ FilesInv
  OBVIOUS
<1>1. store = Nothing \/ RunsIn(store) = {Legacy} \cap Runs
  BY DEF Init, Empty, RunsIn
<1>2. RunsIn(store) = {}
  BY <1>1, EnrolmentAssumption DEF RunsIn
<1>3. \A r \in Runs : pc[r] = "start" /\ ~appends[r]
  BY DEF Init
<1> QED
  BY <1>2, <1>3 DEF Init, AloneInv, OneRun, HoldsKept, RunActive, HoldsCamera, FilesInv, OwnCam,
                    ListFits, Between, Accounts

(* The list and the store agree whenever nobody is enrolling, if enrolments *)
(* run one at a time and cameras are exchanged between them.                *)
THEOREM FilesAlwaysAgree == Spec => []FilesAgree
<1>1. TypeOK /\ FilesInv => FilesAgree
  BY DEF FilesInv, Accounts, StoredCams, Between, RunActive, HoldsCamera, FilesAgree
<1> QED
  <2>1. CASE ~OneAtATime
    <3>1. FilesAgree
      BY <2>1 DEF FilesAgree
    <3> QED
      BY <2>1, PTL DEF FilesAgree
  <2>2. CASE OneAtATime
    <3>1. TypeOK /\ AloneInv /\ [Next]_vars => AloneInv'
      BY <2>2, AloneStep DEF OneAtATime
    <3>2. TypeOK /\ AloneInv /\ FilesInv /\ [Next]_vars => FilesInv'
      BY <2>2, FilesStep DEF OneAtATime
    <3> QED
      BY <1>1, <3>1, <3>2, FilesStart, TypeCorrect, PTL DEF Spec
  <2> QED
    BY <2>1, <2>2

(* One at a time, a scan bound to its camera has templates of that camera,  *)
(* although it read the list and the store at different moments.            *)
LEMMA ScansStep ==
  ASSUME ~Together, ~Hotplug, TypeOK, AloneInv, FilesInv, ScansInv, [Next]_vars
  PROVE  ScansInv'
<1> USE DEF files, world, runs, scans
<1>1. ASSUME NEW r \in Runs, RunStep(r) PROVE ScansInv'
  <2>1. UNCHANGED <<plugged, scans>>
    BY <1>1 DEF RunStep, BeginFresh, BeginAppend, OpenCamera, Capture, SaveStore, ReadList,
                WriteList, RunEnds
  <2>2. torn => torn'
    BY <1>1 DEF RunStep, BeginFresh, BeginAppend, OpenCamera, Capture, SaveStore, ReadList,
                WriteList, RunEnds
  <2>3. \A q \in Runs : pc[q] \notin {"start", "loaded"} => pc'[q] \notin {"start", "loaded"}
    <3>1. \E p \in {"loaded", "capturing", "captured", "saved", "recording", "done", "failed"} :
            pc' = [pc EXCEPT ![r] = p] /\ (p = "loaded" => pc[r] = "start")
      BY <1>1 DEF RunStep, BeginFresh, BeginAppend, MayBegin, OpenCamera, Capture, SaveStore,
                  ReadList, WriteList, RunEnds
    <3> QED
      BY <3>1 DEF TypeOK
  <2>4. \A q \in Runs : pc[q] \notin {"start", "loaded"} => cam'[q] = cam[q]
    BY <1>1 DEF RunStep, BeginFresh, BeginAppend, MayBegin, OpenCamera, Capture, SaveStore,
                ReadList, WriteList, RunEnds, TypeOK
  <2>5. plugged \in StoredCams => plugged \in StoredCams'
    <3>1. CASE SaveStore(r)
      <4>1. pc[r] = "captured" /\ cam' = cam
        BY <3>1 DEF SaveStore
      <4>2. RunsIn(store') = KeptRuns(r) \cup {r}
        BY <3>1, <4>1, RunsInSaved DEF AloneInv, HoldsKept
      <4>3. cam[r] = plugged
        BY <4>1 DEF FilesInv, OwnCam, RunActive, HoldsCamera
      <4> QED
        BY <4>1, <4>2, <4>3 DEF StoredCams
    <3>2. CASE ~SaveStore(r)
      <4>1. RunsIn(store') = RunsIn(store)
        BY <1>1, <3>2 DEF RunStep, BeginFresh, BeginAppend, OpenCamera, Capture, ReadList,
                          WriteList, RunEnds, RunsIn
      <4>2. \A q \in RunsIn(store) : q \in Runs /\ pc[q] \notin {"start", "loaded"}
        BY DEF FilesInv, OwnCam, RunsIn
      <4> QED
        BY <2>4, <4>1, <4>2 DEF StoredCams
    <3> QED
      BY <3>1, <3>2
  <2>6. ASSUME NEW s \in Scans
        PROVE  CameraStored(s)' /\ ViewKnown(s)' /\ CameraKept(s)'
    <3>1. RunsIn(view[s])' = RunsIn(view[s]) /\ RunsIn(view[s]) \subseteq Runs
      BY <2>1 DEF RunsIn
    <3>2. ViewKnown(s)'
      BY <2>1, <2>3, <3>1 DEF ScansInv, ViewKnown
    <3>3. {cam[q] : q \in RunsIn(view[s])}' = {cam[q] : q \in RunsIn(view[s])}
      BY <2>4, <3>1 DEF ScansInv, ViewKnown
    <3>4. CameraStored(s)'
      BY <2>1, <2>2, <2>5, <3>3 DEF ScansInv, CameraStored, ScanActive
    <3>5. CameraKept(s)'
      BY <2>1 DEF ScansInv, CameraKept, ScanActive, Allowed
    <3> QED
      BY <3>2, <3>4, <3>5
  <2> QED
    BY <2>6 DEF ScansInv
<1>2. ASSUME NEW s \in Scans, ScanStep(s) PROVE ScansInv'
  <2>1. UNCHANGED <<files, world, runs>>
    BY <1>2, ScansOnlyRead
  <2>2. StoredCams' = StoredCams /\ \A st : RunsIn(st)' = RunsIn(st)
    BY <2>1 DEF StoredCams, RunsIn
  <2>3. ASSUME NEW t \in Scans \ {s}
        PROVE  CameraStored(t)' /\ ViewKnown(t)' /\ CameraKept(t)'
    <3>1. /\ spc'[t] = spc[t] /\ bound'[t] = bound[t]
          /\ view'[t] = view[t] /\ scam'[t] = scam[t]
      BY <1>2 DEF ScanStep, ScanListed, ScanAllowed, ScanLookup, ScanLoad, ScanSealRequired,
                  ScanOpen, ScanStart, ScanEnds, TypeOK
    <3> QED
      BY <2>1, <2>2, <3>1 DEF ScansInv, CameraStored, ViewKnown, CameraKept, ScanActive, Allowed
  <2>4. CameraStored(s)' /\ ViewKnown(s)' /\ CameraKept(s)'
    <3> USE DEF ScansInv
    <3>1. CASE ScanListed(s)
      <4>1. /\ spc[s] = "start" /\ spc'[s] = "listed" /\ bound'[s] = list
            /\ view' = view /\ scam' = scam
        BY <3>1 DEF ScanListed, TypeOK
      <4>2. plugged \in list /\ ~torn => plugged \in StoredCams
        <5>1. CASE \E r \in Runs : Between(r)
          BY <5>1 DEF FilesInv, OwnCam, Between, RunActive, HoldsCamera, StoredCams
        <5>2. CASE \A r \in Runs : ~Between(r)
          BY <5>2 DEF FilesInv, Accounts
        <5> QED
          BY <5>1, <5>2
      <4>3. view[s] = Nothing /\ scam[s] = Nothing
        BY <4>1 DEF ViewKnown, CameraKept
      <4> QED
        BY <2>1, <2>2, <4>1, <4>2, <4>3 DEF CameraStored, ViewKnown, CameraKept
    <3>2. CASE ScanAllowed(s) \/ ScanLookup(s)
      <4>1. /\ bound' = bound /\ view' = view /\ scam' = scam
            /\ spc[s] \in {"listed", "allowed"} /\ spc'[s] \in {"allowed", "preparing"}
            /\ Allowed(s)
        BY <3>2 DEF ScanAllowed, ScanLookup, CameraKept, TypeOK
      <4> QED
        BY <2>1, <2>2, <4>1 DEF CameraStored, ViewKnown, CameraKept, ScanActive, Allowed
    <3>3. CASE ScanLoad(s) \/ ScanSealRequired(s)
      <4>1. /\ bound' = bound /\ scam' = scam /\ view'[s] = store
            /\ spc[s] = "preparing" /\ spc'[s] \in {"preparing", "unsealed"}
        BY <3>3 DEF ScanLoad, ScanSealRequired, TypeOK
      <4>2. \A q \in RunsIn(store) : pc[q] \notin {"start", "loaded"}
        BY DEF FilesInv, OwnCam, RunsIn
      <4>3. CameraStored(s)'
        BY <2>1, <2>2, <4>1 DEF CameraStored, ScanActive, StoredCams
      <4>4. ViewKnown(s)' /\ CameraKept(s)'
        BY <2>1, <2>2, <4>1, <4>2 DEF ViewKnown, CameraKept, ScanActive, Allowed
      <4> QED
        BY <4>3, <4>4
    <3>4. CASE ScanOpen(s)
      <4>1. /\ bound' = bound /\ view' = view /\ scam'[s] = plugged
            /\ spc[s] = "preparing" /\ spc' = spc
        BY <3>4 DEF ScanOpen, TypeOK
      <4> QED
        BY <2>1, <2>2, <4>1 DEF CameraStored, ViewKnown, CameraKept, ScanActive, Allowed
    <3>5. CASE ScanStart(s)
      <4>1. /\ bound' = bound /\ view' = view /\ scam' = scam
            /\ spc[s] = "preparing" /\ spc'[s] = "scanning"
            /\ view[s] # Nothing /\ scam[s] # Nothing
        BY <3>5 DEF ScanStart, TypeOK
      <4> QED
        BY <2>1, <2>2, <4>1 DEF CameraStored, ViewKnown, CameraKept, ScanActive, Allowed
    <3>6. CASE ScanEnds(s)
      <4>1. spc'[s] = "failed" /\ view'[s] = Nothing
        BY <3>6 DEF ScanEnds, TypeOK
      <4>2. RunsIn(Nothing) = {}
        BY DEF RunsIn
      <4> QED
        BY <2>2, <4>1, <4>2 DEF CameraStored, ViewKnown, CameraKept, ScanActive
    <3> QED
      BY <1>2, <3>1, <3>2, <3>3, <3>4, <3>5, <3>6 DEF ScanStep
  <2> QED
    BY <2>3, <2>4 DEF ScansInv
<1>3. CASE Replug
  <2>1. UNCHANGED <<files, tpm, runs, scans>> /\ \A s \in Scans : ~ScanActive(s)
    BY <1>3 DEF Replug, Quiet
  <2> QED
    BY <2>1 DEF ScansInv, CameraStored, ViewKnown, CameraKept, ScanActive, RunsIn
<1>4. CASE TpmTurns \/ UNCHANGED vars
  BY <1>4 DEF TpmTurns, vars, ScansInv, CameraStored, ViewKnown, CameraKept, ScanActive,
              StoredCams, Allowed
<1> QED
  BY <1>1, <1>2, <1>3, <1>4 DEF Next

(* The templates a scan compares with include some from its own camera, if  *)
(* enrolments run one at a time, none ended between the two files, and      *)
(* cameras are exchanged between processes.                                 *)
THEOREM ScansHaveOwnCamera == Spec => []OwnCamera
<1>1. Init => ScansInv
  <2>1. RunsIn(Nothing) = {}
    BY DEF RunsIn
  <2> QED
    BY <2>1 DEF Init, ScansInv, CameraStored, ViewKnown, CameraKept, ScanActive
<1>2. TypeOK /\ ScansInv => OwnCamera
  BY DEF ScansInv, CameraStored, CameraKept, ScanActive, Allowed, OwnCamera
<1> QED
  <2>1. CASE ~OneAtATime
    <3>1. OwnCamera
      BY <2>1 DEF OwnCamera
    <3> QED
      BY <2>1, PTL DEF OwnCamera
  <2>2. CASE OneAtATime
    <3>1. TypeOK /\ AloneInv /\ [Next]_vars => AloneInv'
      BY <2>2, AloneStep DEF OneAtATime
    <3>2. TypeOK /\ AloneInv /\ FilesInv /\ [Next]_vars => FilesInv'
      BY <2>2, FilesStep DEF OneAtATime
    <3>3. TypeOK /\ AloneInv /\ FilesInv /\ ScansInv /\ [Next]_vars => ScansInv'
      BY <2>2, ScansStep DEF OneAtATime
    <3> QED
      BY <1>1, <1>2, <3>1, <3>2, <3>3, FilesStart, TypeCorrect, PTL DEF Spec
  <2> QED
    BY <2>1, <2>2

-----------------------------------------------------------------------------
(* What Enrolment takes for granted is that a model tag names the models of  *)
(* the templates; Models is about that.                                      *)

\* A tag is of all the templates that are not of a v1 store.
ToldBy(st) == IF st.tag = NoTag THEN st.made = {} ELSE st.made = {st.tag}

StoreTold == tagged # Absent => caught \/ ToldBy(tagged)
GalleryTold(r) == gallery[r] # Absent => caught \/ ToldBy(gallery[r])

\* A process would still tag with the models it runs.
RunsItsTag(r) ==
  /\ at[r] = "start" => detector[r] = Absent
  /\ Running(r) /\ detector[r] # Absent
       => caught \/ Space(r) = ModelTag(config[r])

\* A process that is past the tag check has all it compares.
Checked(r) == at[r] = "allowed" \/ (kind[r] = "scan" /\ at[r] = "done")
HoldsBoth(r) ==
  /\ Checked(r) \/ at[r] = "refused" => detector[r] # Absent /\ gallery[r] # Absent
  /\ at[r] = "allowed" => kind[r] # "enroll"
Alike(r) == Checked(r) => caught \/ gallery[r].made \subseteq {Space(r)}

Rightly(r) == at[r] = "refused" => caught \/ gallery[r].made # {Space(r)}

ProcessInv(r) ==
  GalleryTold(r) /\ RunsItsTag(r) /\ HoldsBoth(r) /\ Alike(r) /\ Rightly(r)

TagInv == StoreTold /\ \A r \in Processes : ProcessInv(r)

(* Every step of the processes that share a tagged store is well typed. *)
LEMMA TagTypeStep ==
  ASSUME TagsTyped, TagInv, [TagNext]_tagVars
  PROVE  TagsTyped'
<1> USE DEF TagsTyped
<1>1. ASSUME NEW c \in Configs
      PROVE  DetectorPath(c) \in Detectors
    BY DEF DetectorPath, Configs, Detectors
<1>2. ASSUME NEW c \in Configs
      PROVE  ModelTag(c) \in Spaces
    BY <1>1 DEF ModelTag, Spaces, Configs
<1>3. NewStore \in TaggedStores
    BY DEF NewStore, TaggedStores
<1>4. ASSUME NEW r \in Processes, Start(r) PROVE TagsTyped'
    BY <1>4 DEF Start
<1>5. ASSUME NEW r \in Processes, New(r) PROVE TagsTyped'
    BY <1>1, <1>5 DEF New
<1>6. ASSUME NEW r \in Processes, Load(r) PROVE TagsTyped'
    BY <1>3, <1>6 DEF Load
<1>7. ASSUME NEW r \in Processes, CheckModelTag(r) PROVE TagsTyped'
    BY <1>7 DEF CheckModelTag
<1>8. ASSUME NEW r \in Processes, Save(r) PROVE TagsTyped'
  <2> DEFINE base == IF kind[r] = "append" THEN gallery[r] ELSE NewStore
             saved == [base EXCEPT !.tag = ModelTag(config[r]), !.made = @ \cup {Space(r)}]
  <2>1. detector[r] \in Detectors /\ base \in TaggedStores
    BY <1>3, <1>8 DEF Save, TagInv, ProcessInv, HoldsBoth, Checked
  <2>2. Space(r) \in Spaces /\ ModelTag(config[r]) \in Spaces
    BY <2>1, <1>2 DEF Space, Spaces, Configs
  <2>3. saved \in TaggedStores
    <3> HIDE DEF base
    <3> QED
      BY <2>1, <2>2 DEF TaggedStores
  <2>4. tagged' = saved /\ at' = [at EXCEPT ![r] = "done"]
        /\ UNCHANGED <<there, conf, kind, config, detector, gallery, caught>>
    BY <1>8 DEF Save
  <2> HIDE DEF saved
  <2> QED
    BY <2>3, <2>4
<1>9. ASSUME NEW r \in Processes, Verify(r) \/ Fail(r) PROVE TagsTyped'
    BY <1>9 DEF Verify, Fail
<1>10. ASSUME Deploy \/ Configure \/ UNCHANGED tagVars PROVE TagsTyped'
    BY <1>10 DEF Deploy, Configure, tagVars, Detectors
<1> QED
  BY <1>4, <1>5, <1>6, <1>7, <1>8, <1>9, <1>10 DEF TagNext

(* What is known of a process stays, while it does nothing itself and the   *)
(* detectors stay; and an account's store is told by its tag while it stays. *)
LEMMA ProcessStays ==
  ASSUME NEW r \in Processes, ProcessInv(r), UNCHANGED <<there, caught>>,
         at'[r] = at[r], kind'[r] = kind[r], config'[r] = config[r],
         detector'[r] = detector[r], gallery'[r] = gallery[r]
  PROVE  ProcessInv(r)'
  BY DEF ProcessInv, GalleryTold, ToldBy, RunsItsTag, HoldsBoth, Checked, Alike, Rightly,
         Running, Space, ModelTag, DetectorPath

LEMMA OthersStay ==
  ASSUME TagInv, NEW r \in Processes, UNCHANGED <<there, tagged, caught>>, ProcessInv(r)',
         \A q \in Processes \ {r} :
           /\ at'[q] = at[q] /\ kind'[q] = kind[q] /\ config'[q] = config[q]
           /\ detector'[q] = detector[q] /\ gallery'[q] = gallery[q]
  PROVE  TagInv'
<1>1. StoreTold'
  BY DEF TagInv, StoreTold, ToldBy
<1>2. ASSUME NEW q \in Processes, q # r PROVE ProcessInv(q)'
  BY <1>2, ProcessStays DEF TagInv
<1> QED
  BY <1>1, <1>2 DEF TagInv

(* While a process runs, it tags with the models it runs, unless it is       *)
(* caught: only the arrival of the new detector changes the tag it would     *)
(* write, and only of a process that has loaded the old one by default.      *)
LEMMA TagStep ==
  ASSUME TagsTyped, TagInv, [TagNext]_tagVars
  PROVE  TagInv'
<1> USE DEF TagsTyped
<1>1. ASSUME NEW r \in Processes, Start(r) PROVE TagInv'
  <2>1. ProcessInv(r)'
    BY <1>1 DEF TagInv, Start, ProcessInv, GalleryTold, ToldBy, RunsItsTag,
                HoldsBoth, Checked, Alike, Rightly
  <2> QED
    BY <1>1, <2>1, OthersStay DEF Start
<1>2. ASSUME NEW r \in Processes, New(r) PROVE TagInv'
  <2>1. Space(r)' = ModelTag(config[r])'
    BY <1>2 DEF New, Space, ModelTag, DetectorPath
  <2>2. ProcessInv(r)'
    BY <1>2, <2>1 DEF TagInv, New, ProcessInv, GalleryTold, ToldBy, RunsItsTag,
                HoldsBoth, Checked, Alike, Rightly
  <2> QED
    BY <1>2, <2>2, OthersStay DEF New
<1>3. ASSUME NEW r \in Processes, Load(r) PROVE TagInv'
  <2>1. gallery'[r] = IF tagged = Absent THEN NewStore ELSE tagged
    BY <1>3 DEF Load
  <2>2. GalleryTold(r)'
    BY <1>3, <2>1 DEF Load, TagInv, StoreTold, GalleryTold, ToldBy, NewStore
  <2>3. ProcessInv(r)'
    BY <1>3, <2>2 DEF TagInv, Load, ProcessInv, RunsItsTag, Running, Space,
             ModelTag, DetectorPath, HoldsBoth, Checked, Alike, Rightly
  <2> QED
    BY <1>3, <2>3, OthersStay DEF Load
<1>4. ASSUME NEW r \in Processes, CheckModelTag(r) PROVE TagInv'
  <2>1. ProcessInv(r) /\ detector[r] # Absent /\ gallery[r] # Absent
        /\ at[r] = "loading" /\ kind[r] # "enroll"
        /\ UNCHANGED <<there, conf, tagged, kind, config, detector, gallery, caught>>
    BY <1>4 DEF CheckModelTag, TagInv
  <2>2. Space(r)' = Space(r)
    BY <2>1 DEF Space
  <2>3. caught \/ (ToldBy(gallery[r]) /\ Space(r) = ModelTag(config[r]))
    BY <2>1 DEF ProcessInv, GalleryTold, RunsItsTag, Running
  <2>4. CASE ModelTagMatches(gallery[r].tag, ModelTag(config[r]))
    <3>1. at'[r] = "allowed"
      BY <1>4, <2>4 DEF CheckModelTag
    <3>2. caught \/ gallery[r].made \subseteq {Space(r)}
      BY <2>3, <2>4 DEF ToldBy, ModelTagMatches
    <3>3. RunsItsTag(r)'
      BY <2>1, <2>2, <3>1 DEF ProcessInv, RunsItsTag, Running, Space,
                              ModelTag, DetectorPath
    <3>4. GalleryTold(r)' /\ HoldsBoth(r)' /\ Alike(r)' /\ Rightly(r)'
      BY <2>1, <2>2, <3>1, <3>2
         DEF ProcessInv, GalleryTold, ToldBy, HoldsBoth, Checked, Alike, Rightly
    <3> QED
      BY <1>4, <3>3, <3>4, OthersStay DEF ProcessInv, CheckModelTag
  <2>5. CASE ~ModelTagMatches(gallery[r].tag, ModelTag(config[r]))
    <3>1. at'[r] = "refused"
      BY <1>4, <2>5 DEF CheckModelTag
    <3>2. caught \/ gallery[r].made # {Space(r)}
      BY <2>3, <2>5 DEF ToldBy, ModelTagMatches
    <3>3. ProcessInv(r)'
      BY <2>1, <2>2, <3>1, <3>2
         DEF ProcessInv, GalleryTold, ToldBy, RunsItsTag, Running, HoldsBoth, Checked,
             Alike, Rightly
    <3> QED
      BY <1>4, <3>3, OthersStay DEF CheckModelTag
  <2> QED
    BY <2>4, <2>5
<1>5. ASSUME NEW r \in Processes, Save(r) PROVE TagInv'
  <2> DEFINE base == IF kind[r] = "append" THEN gallery[r] ELSE NewStore
  <2>1. /\ tagged' = [base EXCEPT !.tag = ModelTag(config[r]),
                                  !.made = @ \cup {Space(r)}]
        /\ at' = [at EXCEPT ![r] = "done"] /\ Running(r) /\ kind[r] # "scan"
        /\ UNCHANGED <<there, conf, kind, config, detector, gallery, caught>>
    BY <1>5 DEF Save, Running
  <2>2. ProcessInv(r) /\ detector[r] # Absent /\ base \in TaggedStores
    BY <1>5 DEF Save, TagInv, ProcessInv, HoldsBoth, Checked, NewStore, TaggedStores
  <2>3. caught \/ base.made \subseteq {Space(r)}
    BY <1>5, <2>2 DEF Save, ProcessInv, Alike, Checked, NewStore
  <2>4. caught \/ Space(r) = ModelTag(config[r])
    BY <2>1, <2>2 DEF ProcessInv, RunsItsTag
  <2>5. tagged'.tag = ModelTag(config[r])
        /\ tagged'.made = base.made \cup {Space(r)}
    <3> HIDE DEF base
    <3> QED
      BY <2>1, <2>2 DEF TaggedStores
  <2>6. ModelTag(config[r]) # NoTag
    BY ModelsAssumption DEF ModelTag, DetectorPath, Configs, Spaces, Detectors
  <2>7. StoreTold'
    BY <2>1, <2>3, <2>4, <2>5, <2>6 DEF StoreTold, ToldBy
  <2>8. ProcessInv(r)'
    BY <2>1, <2>2 DEF ProcessInv, GalleryTold, ToldBy, RunsItsTag, Running, HoldsBoth,
                      Checked, Alike, Rightly
  <2>9. ASSUME NEW q \in Processes, q # r PROVE ProcessInv(q)'
    BY <2>1, <2>9, ProcessStays DEF TagInv
  <2> QED
    BY <2>7, <2>8, <2>9 DEF TagInv
<1>6. ASSUME NEW r \in Processes, Verify(r) \/ Fail(r) PROVE TagInv'
  <2>1. ProcessInv(r)'
    BY <1>6 DEF TagInv, Verify, Fail, ProcessInv, GalleryTold, ToldBy, RunsItsTag,
                Running, HoldsBoth, Checked, Alike, Rightly, Space
  <2> QED
    BY <1>6, <2>1, OthersStay DEF Verify, Fail
<1>7. CASE Deploy
  <2>1. /\ Scrfd \notin there /\ there' = there \cup {Scrfd}
        /\ UNCHANGED <<conf, tagged, at, kind, config, detector, gallery>>
        /\ caught => caught'
    BY <1>7 DEF Deploy
  <2>2. StoreTold'
    BY <2>1 DEF TagInv, StoreTold, ToldBy
  <2>3. ASSUME NEW r \in Processes PROVE ProcessInv(r)'
    <3>1. Space(r)' = Space(r) /\ Running(r)' = Running(r)
      BY <2>1 DEF Space, Running
    <3>2. GalleryTold(r)' /\ HoldsBoth(r)' /\ Alike(r)' /\ Rightly(r)'
      BY <2>1, <3>1 DEF TagInv, ProcessInv, GalleryTold, ToldBy, HoldsBoth, Checked, Alike, Rightly
    <3>3. ASSUME Running(r), detector[r] # Absent, ~caught'
          PROVE  Space(r) = ModelTag(config[r])'
      <4>1. Space(r) = ModelTag(config[r])
        BY <2>1, <3>3 DEF TagInv, ProcessInv, RunsItsTag
      <4>2. ~(config[r].detector = Unset /\ detector[r] = Slim)
        BY <1>7, <3>3 DEF Deploy
      <4>3. config[r].detector # Unset
        BY <2>1, <4>1, <4>2 DEF Space, ModelTag, DetectorPath
      <4> QED
        BY <2>1, <4>1, <4>3 DEF ModelTag, DetectorPath
    <3>4. RunsItsTag(r)'
      BY <2>1, <3>1, <3>3 DEF TagInv, ProcessInv, RunsItsTag
    <3> QED
      BY <3>2, <3>4 DEF ProcessInv
  <2> QED
    BY <2>2, <2>3 DEF TagInv
<1>8. CASE Configure \/ UNCHANGED tagVars
  <2>1. UNCHANGED <<there, tagged, at, kind, config, detector, gallery, caught>>
    BY <1>8 DEF Configure, tagVars
  <2>2. StoreTold'
    BY <2>1 DEF TagInv, StoreTold, ToldBy
  <2> QED
    BY <2>1, <2>2, ProcessStays DEF TagInv
<1> QED
  BY <1>1, <1>2, <1>3, <1>4, <1>5, <1>6, <1>7, <1>8 DEF TagNext

LEMMA TagStart ==
  ASSUME TagInit
  PROVE  TagsTyped /\ TagInv
<1>1. TagsTyped
  BY ModelsAssumption DEF TagInit, TagsTyped, TaggedStores, NewStore
<1>2. StoreTold
  BY DEF TagInit, NewStore, StoreTold, ToldBy
<1> QED
  BY <1>1, <1>2 DEF TagInit, TagInv, ProcessInv, GalleryTold, RunsItsTag, Running,
                    HoldsBoth, Checked, Alike, Rightly

(* Enrolments, scans, deployments and changes of the configuration keep the *)
(* state well typed and the tags told.                                      *)
THEOREM TagsAreTold == TagSpec => [](TagsTyped /\ TagInv)
<1>1. TagsTyped /\ TagInv /\ [TagNext]_tagVars => TagsTyped' /\ TagInv'
  BY TagTypeStep, TagStep
<1> QED
  BY <1>1, TagStart, PTL DEF TagSpec

(* The tag of a store names what made the templates in it, unless a process *)
(* was caught by the arrival of the new detector.                           *)
THEOREM TagsTell == TagSpec => []TagTells
<1>1. TagInv => TagTells
  BY DEF TagInv, StoreTold, ToldBy, TagTells
<1> QED
  BY <1>1, TagsAreTold, PTL

(* No scan compares across two spaces, under the same condition. *)
THEOREM ScansCompareAlike == TagSpec => []ComparedAlike
<1>1. TagInv => ComparedAlike
  BY DEF TagInv, ProcessInv, Alike, Checked, ComparedAlike
<1> QED
  BY <1>1, TagsAreTold, PTL

(* Nobody is refused templates of its own models, under the same condition. *)
THEOREM RefusalsAreRight == TagSpec => []RefusedRightly
<1>1. TagInv => RefusedRightly
  BY DEF TagInv, ProcessInv, Rightly, RefusedRightly
<1> QED
  BY <1>1, TagsAreTold, PTL
=============================================================================
