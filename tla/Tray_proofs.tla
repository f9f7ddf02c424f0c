----------------------------- MODULE Tray_proofs -----------------------------
(***************************************************************************)
(* What holds of the tray for any number of workers, releases and delays,  *)
(* and without the bounds on what happens.                                 *)
(***************************************************************************)
EXTENDS Tray, TLAPS

LEMMA MoreSaves ==
  ASSUME NEW m \in Nat, NEW n \in Nat, m <= n
  PROVE  /\ TrayRecords(m) \subseteq TrayRecords(n)
         /\ LoopRecords(m) \subseteq LoopRecords(n)
         /\ WindowRecords(m) \subseteq WindowRecords(n)
<1>1. 0..m \subseteq 0..n
  OBVIOUS
<1>2. TrayRecords(m) \subseteq TrayRecords(n)
  BY <1>1 DEF TrayRecords
<1>3. LoopRecords(m) \subseteq LoopRecords(n)
  <2>1. [enrolled : Answers, looked : 0..m] \subseteq [enrolled : Answers, looked : 0..n]
    BY <1>1
  <2> QED
    BY <2>1 DEF LoopRecords
<1>4. WindowRecords(m) \subseteq WindowRecords(n)
  BY <1>1 DEF WindowRecords
<1> QED
  BY <1>2, <1>3, <1>4

LEMMA StateTyped == ASSUME NEW t PROVE State(t) \in {"scanning", "ready", "attention"}
  BY DEF State

LEMMA IdleTyped == Idle \in WorkerRecords /\ Idle.job \in Jobs /\ Idle.pc = "none"
  BY TrayAssumption DEF Idle, WorkerRecords, Jobs, Kinds

(* The records the actions make. *)
LEMMA FreshTyped ==
  ASSUME NEW answer \in Answers, NEW delay \in Delays \cup {0}, saves \in Nat
  PROVE  FreshTray(answer, delay) \in TrayRecords(saves)
  BY DEF FreshTray, TrayRecords, Found

LEMMA NoTrayTyped == ASSUME NEW n \in Nat PROVE NoTray \in TrayRecords(n)
<1>1. FreshTray("unknown", 0) \in [enrolled : Answers, looked : {saves}, scanning : BOOLEAN,
          busy : BOOLEAN, update : Found, hidden : BOOLEAN, delay : {0}]
  BY DEF FreshTray, Found, Answers
<1> QED
  BY <1>1 DEF NoTray, TrayRecords

LEMMA FreshLoopTyped ==
  ASSUME NEW t, NEW n \in Nat PROVE FreshLoop(t) \in LoopRecords(n)
  BY StateTyped DEF FreshLoop, NoAnswer, LoopRecords, Found, Answers

LEMMA NoLoopTyped == ASSUME NEW n \in Nat PROVE NoLoop \in LoopRecords(n)
<1>1. FreshLoop(NoTray) \in LoopRecords(n)
  BY FreshLoopTyped
<1> QED
  BY <1>1 DEF NoLoop, LoopRecords

LEMMA NoWindowTyped == ASSUME NEW n \in Nat PROVE NoWindow \in WindowRecords(n)
  BY IdleTyped DEF NoWindow, WindowRecords, Answers

LEMMA OpenedTyped ==
  ASSUME NEW n \in Nat, NEW answer \in Answers
  PROVE  [NoWindow EXCEPT !.open = TRUE, !.enrolled = answer, !.looked = n] \in WindowRecords(n)
<1>1. NoWindow \in WindowRecords(n) /\ n \in 0..n
  BY NoWindowTyped
<1> QED
  BY <1>1 DEF WindowRecords

LEMMA MsgKinds ==
  ASSUME NEW m \in Msgs
  PROVE  /\ m.type = "run" => m.job \in Jobs
         /\ m.type = "update" => m.tag \in Found
         /\ m.type = "minutes" => m.delay \in Delays
  BY DEF Msgs

LEMMA JobTyped ==
  ASSUME NEW act \in Kinds \cup {"start", "replace", "add"}, NEW view,
         view.looked \in 0..saves, saves \in 0..MaxSaves, MaxSaves \in Nat
  PROVE  Job(act, view) \in Jobs
  BY DEF Job, Jobs

LEMMA QueueGrows ==
  ASSUME NEW S, queue \in Seq(S), NEW r \in Seq(S), Send(r)
  PROVE  queue' \in Seq(S)
  BY DEF Send

LEMMA QueueShrinks ==
  ASSUME NEW S, queue \in Seq(S), queue # <<>>
  PROVE  Head(queue) \in S /\ Tail(queue) \in Seq(S)
  OBVIOUS

-----------------------------------------------------------------------------
(* Type correctness. *)

(* An enrolment that saves, or the store removed by hand. *)
StoreMoves ==
  \/ \E act \in Kinds \cup {"start", "replace", "add"} : Saves(act)
  \/ UNCHANGED <<templates, saves>>
  \/ templates' = 0 /\ saves' = saves

LEMMA StoreTyped ==
  ASSUME TypeOK, StoreMoves
  PROVE  saves' \in 0..MaxSaves /\ templates' \in 0..saves' /\ saves <= saves'
  BY TrayAssumption DEF TypeOK, StoreMoves, Saves

(* What does not move the store, and what moves only it and the jobs. *)
LEMMA StoreTypes ==
  ASSUME TypeOK, StoreMoves, tray' = tray, loop' = loop
  PROVE  /\ saves' \in 0..MaxSaves /\ templates' \in 0..saves'
         /\ tray' \in TrayRecords(saves') /\ loop' \in LoopRecords(saves')
         /\ window \in WindowRecords(saves')
<1>1. saves' \in 0..MaxSaves /\ templates' \in 0..saves' /\ saves <= saves' /\ saves \in 0..MaxSaves
  BY StoreTyped DEF TypeOK
<1>2. /\ TrayRecords(saves) \subseteq TrayRecords(saves')
      /\ LoopRecords(saves) \subseteq LoopRecords(saves')
      /\ WindowRecords(saves) \subseteq WindowRecords(saves')
  BY <1>1, MoreSaves, TrayAssumption
<1> QED
  BY <1>1, <1>2 DEF TypeOK

LEMMA WorkersTyped ==
  ASSUME TypeOK, NEW w \in Workers,
         NEW pc \in {"none", "started", "asking", "acted", "failed", "cleared", "upgraded"},
         Goes(w, pc)
  PROVE  workers' \in [Workers -> WorkerRecords]
  BY DEF TypeOK, Goes, WorkerRecords

LEMMA ToldTyped ==
  ASSUME TypeOK, NEW answer \in Answers, Told(answer)
  PROVE  failures' \in 0..MaxFailures
  BY TrayAssumption DEF TypeOK, Told

(* The loop's record, moved on. *)
LEMMA LoopMoves ==
  ASSUME TypeOK, NEW pc \in {"off", "recv", "read", "tail", "poll", "rest"}
  PROVE  [loop EXCEPT !.pc = pc] \in LoopRecords(saves)
  BY DEF TypeOK, LoopRecords

LEMMA LoopTouched ==
  ASSUME TypeOK, NEW pc \in {"off", "recv", "read", "tail", "poll", "rest"}, NEW since \in Nat
  PROVE  [loop EXCEPT !.pc = pc, !.since = since] \in LoopRecords(saves)
  BY DEF TypeOK, LoopRecords

LEMMA ReadTyped ==
  ASSUME TypeOK, NEW pc \in {"read", "poll"}, ReadStatus(pc)
  PROVE  failures' \in 0..MaxFailures /\ loop' \in LoopRecords(saves)
<1>1. PICK answer \in Answers :
        Told(answer) /\ loop' = [loop EXCEPT !.pc = pc, !.held = [enrolled |-> answer, looked |-> saves]]
  BY Zenon DEF ReadStatus
<1>2. saves \in Nat
  BY TrayAssumption DEF TypeOK
<1>3. [enrolled |-> answer, looked |-> saves] \in [enrolled : Answers, looked : 0..saves]
  BY <1>2
<1> DEFINE held == [enrolled |-> answer, looked |-> saves]
<1> HIDE DEF held
<1>4. loop' = [loop EXCEPT !.pc = pc, !.held = held]
  BY <1>1 DEF held
<1>5. held \in [enrolled : Answers, looked : 0..saves]
  BY <1>3 DEF held
<1> QED
  BY <1>1, <1>4, <1>5, ToldTyped DEF TypeOK, LoopRecords

LEMMA TypeStart == TypeOK /\ Start => TypeOK'
<1> SUFFICES ASSUME TypeOK, Start PROVE TypeOK'
  OBVIOUS
<1> USE TrayAssumption
<1>1. PICK answer \in Answers, delay \in Delays :
        Told(answer) /\ tray' = FreshTray(answer, delay) /\ loop' = FreshLoop(tray')
  BY DEF Start
<1>2. saves \in Nat /\ saves' = saves
  BY DEF TypeOK, Start
<1>3. tray' \in TrayRecords(saves') /\ loop' \in LoopRecords(saves')
  BY <1>1, <1>2, FreshTyped, FreshLoopTyped
<1>4. failures' \in 0..MaxFailures
  BY <1>1, ToldTyped
<1> QED
  BY <1>2, <1>3, <1>4 DEF TypeOK, Start, store, past

(* What the menu and the update check send. *)
LEMMA MenuSends ==
  ASSUME TypeOK, MenuStep \/ UpdateChecked
  PROVE  \E r \in Seq(Msgs) : Send(r)
<1>1. ASSUME NEW act \in Kinds, Click(act) PROVE \E r \in Seq(Msgs) : Send(r)
  <2>1. Job(act, tray) \in Jobs
    BY JobTyped, TrayAssumption DEF TypeOK, TrayRecords
  <2>2. Msg("touch") \in Msgs /\ [type |-> "run", job |-> Job(act, tray)] \in Msgs
    BY <2>1 DEF Msg, Msgs
  <2> DEFINE r == (IF act = "change" THEN <<>> ELSE <<Msg("touch")>>)
                  \o <<[type |-> "run", job |-> Job(act, tray)]>>
  <2>3. r \in Seq(Msgs)
    BY <2>2
  <2>4. Send(r)
    BY <1>1 DEF Click
  <2> HIDE DEF r
  <2> QED
    BY <2>3, <2>4
<1>2. ASSUME ClickOther PROVE \E r \in Seq(Msgs) : Send(r)
  <2>1. Msg("touch") \in Msgs /\ Msg("quit") \in Msgs
        /\ \A delay \in Delays : [type |-> "minutes", delay |-> delay] \in Msgs
    BY DEF Msg, Msgs
  <2> DEFINE touch == <<Msg("touch")>>
             quit == <<Msg("touch"), Msg("quit")>>
             minutes(delay) == <<[type |-> "minutes", delay |-> delay]>>
  <2>2. touch \in Seq(Msgs) /\ quit \in Seq(Msgs) /\ \A delay \in Delays : minutes(delay) \in Seq(Msgs)
    BY <2>1
  <2>3. Send(touch) \/ Send(quit) \/ \E delay \in Delays : Send(minutes(delay))
    BY <1>2 DEF ClickOther
  <2> HIDE DEF touch, quit, minutes
  <2> QED
    BY <2>2, <2>3
<1>3. ASSUME UpdateChecked PROVE \E r \in Seq(Msgs) : Send(r)
  <2>1. \A tag \in Found : [type |-> "update", tag |-> tag] \in Msgs
    BY DEF Msgs
  <2>2. PICK tag \in Found : Send(<<[type |-> "update", tag |-> tag]>>)
    BY <1>3 DEF UpdateChecked
  <2>3. <<[type |-> "update", tag |-> tag]>> \in Seq(Msgs)
    BY <2>1, <2>2
  <2> QED
    BY <2>2, <2>3
<1> QED
  BY <1>1, <1>2, <1>3 DEF MenuStep

\* The steps that leave the store, the loop's records and the window alone.
LEMMA TypeMenu == TypeOK /\ (MenuStep \/ UpdateChecked) => TypeOK'
<1> SUFFICES ASSUME TypeOK, MenuStep \/ UpdateChecked PROVE TypeOK'
  OBVIOUS
<1>1. events' \in Nat
  <2>1. Event
    BY DEF MenuStep, UpdateChecked, Click, ClickOther
  <2> QED
    BY <2>1 DEF TypeOK, Event
<1>2. queue' \in Seq(Msgs)
  BY MenuSends, QueueGrows DEF TypeOK
<1> QED
  BY <1>1, <1>2 DEF TypeOK, MenuStep, UpdateChecked, Click, ClickOther, store

LEMMA ReceiveTyped ==
  ASSUME TypeOK, NEW type, Receive(type)
  PROVE  Head(queue) \in Msgs /\ Head(queue).type = type /\ queue' \in Seq(Msgs)
  BY QueueShrinks DEF TypeOK, Receive

LEMMA TypeLoop == TypeOK /\ LoopStep => TypeOK'
<1> SUFFICES ASSUME TypeOK, LoopStep PROVE TypeOK'
  OBVIOUS
<1> USE TrayAssumption
<1>0. saves \in Nat
  BY DEF TypeOK
<1>1. CASE RecvTimeout
  BY <1>1 DEF TypeOK, RecvTimeout, Proceed, LoopRecords, store, past
<1>2. CASE RecvTouch
  BY <1>2, ReceiveTyped DEF TypeOK, RecvTouch, LoopRecords, store
<1>3. CASE RecvMinutes
  <2>1. Head(queue).delay \in Delays /\ queue' \in Seq(Msgs)
    BY <1>3, ReceiveTyped, MsgKinds DEF RecvMinutes
  <2>2. tray' \in TrayRecords(saves)
    BY <1>3, <2>1 DEF TypeOK, RecvMinutes, TrayRecords
  <2>3. loop' \in LoopRecords(saves)
    <3>1. CASE loop' = [loop EXCEPT !.pc = "tail", !.since = 0]
      BY <3>1, LoopTouched
    <3>2. CASE Proceed("tail")
      BY <3>2, LoopMoves DEF Proceed
    <3> QED
      BY <1>3, <3>1, <3>2 DEF RecvMinutes
  <2> QED
    BY <1>3, <2>1, <2>2, <2>3 DEF TypeOK, RecvMinutes, store, past
<1>4. CASE RecvUpdate
  <2>1. Head(queue).tag \in Found /\ queue' \in Seq(Msgs)
    BY <1>4, ReceiveTyped, MsgKinds DEF RecvUpdate
  <2>2. tray' \in TrayRecords(saves)
    BY <1>4, <2>1 DEF TypeOK, RecvUpdate, TrayRecords
  <2>3. loop' \in LoopRecords(saves)
    BY <1>4, <2>1 DEF TypeOK, RecvUpdate, LoopRecords
  <2> QED
    BY <1>4, <2>1, <2>2, <2>3 DEF TypeOK, RecvUpdate, store
<1>5. CASE RecvRun
  <2>1. Head(queue).job \in Jobs /\ queue' \in Seq(Msgs)
    BY <1>5, ReceiveTyped, MsgKinds DEF RecvRun
  <2>2. tray' \in TrayRecords(saves)
    BY <1>5 DEF TypeOK, RecvRun, TrayRecords
  <2>3. loop' \in LoopRecords(saves)
    BY <1>5 DEF TypeOK, RecvRun, LoopRecords
  <2>4. [pc |-> "started", job |-> Head(queue).job] \in WorkerRecords
    BY <2>1 DEF WorkerRecords
  <2>5. workers' \in [Workers -> WorkerRecords]
    BY <1>5, <2>4 DEF TypeOK, RecvRun
  <2> QED
    BY <1>5, <2>1, <2>2, <2>3, <2>5 DEF TypeOK, RecvRun, store
<1>6. CASE RecvDone
  <2>1. failures' \in 0..MaxFailures /\ loop' \in LoopRecords(saves)
    BY <1>6, ReadTyped DEF RecvDone
  <2>2. queue' \in Seq(Msgs)
    BY <1>6, ReceiveTyped DEF RecvDone
  <2> QED
    BY <1>6, <2>1, <2>2 DEF TypeOK, RecvDone, past
<1>7. CASE RecvQuit
  <2>1. /\ tray' \in TrayRecords(saves) /\ loop' \in LoopRecords(saves)
        /\ workers' \in [Workers -> WorkerRecords]
    BY <1>0, <1>7, NoTrayTyped, NoLoopTyped, IdleTyped DEF RecvQuit, Ends
  <2>2. orphans' \subseteq Jobs
    BY <1>7 DEF TypeOK, RecvQuit, Ends, Working, WorkerRecords
  <2>3. queue' \in Seq(Msgs)
    BY <1>7 DEF RecvQuit, Ends
  <2> QED
    BY <1>7, <2>1, <2>2, <2>3 DEF TypeOK, RecvQuit, Ends, store
<1>8. CASE Show
  <2>1. tray' \in TrayRecords(saves)
    BY <1>8 DEF TypeOK, Show, TrayRecords, LoopRecords
  <2>2. loop' \in LoopRecords(saves)
    <3>1. NoAnswer \in [enrolled : Answers, looked : 0..saves]
      BY <1>0 DEF NoAnswer, Answers
    <3>2. PICK pc \in {"tail", "rest"} : loop' = [loop EXCEPT !.pc = pc, !.age = 0, !.held = NoAnswer]
      BY <1>8 DEF Show
    <3> QED
      BY <3>1, <3>2 DEF TypeOK, LoopRecords
  <2> QED
    BY <1>8, <2>1, <2>2 DEF TypeOK, Show, Seen, store
<1>9. CASE Look
  <2>1. failures' \in 0..MaxFailures /\ loop' \in LoopRecords(saves)
    <3>1. CASE ReadStatus("poll")
      BY <3>1, ReadTyped
    <3>2. CASE failures' = failures /\ Proceed("rest")
      BY <3>2, LoopMoves DEF TypeOK, Proceed
    <3> QED
      BY <1>9, <3>1, <3>2 DEF Look
  <2>2. Scanning \in BOOLEAN
    BY Zenon DEF Scanning, TypeOK
  <2>3. tray' \in TrayRecords(saves)
    <3>1. tray' = [tray EXCEPT !.scanning = Scanning]
      BY <1>9 DEF Look
    <3> QED
      BY <2>2, <3>1 DEF TypeOK, TrayRecords
  <2>4. quiet' \in Nat
    BY <1>9 DEF TypeOK, Look, Seen
  <2>5. UNCHANGED <<templates, saves, scan, queue, workers, window, orphans, doubled, events>>
    BY <1>9 DEF Look
  <2> QED
    BY <2>1, <2>3, <2>4, <2>5 DEF TypeOK
<1>10. CASE Rest
  <2>1. \A since : Tucked(since) \in BOOLEAN
    BY DEF Tucked
  <2>2. tray' \in TrayRecords(saves)
    <3>1. PICK since : tray' = [tray EXCEPT !.hidden = Tucked(since)]
      BY <1>10 DEF Rest
    <3> QED
      BY <2>1, <3>1 DEF TypeOK, TrayRecords
  <2>3. loop' \in LoopRecords(saves)
    BY <1>10, StateTyped DEF TypeOK, Rest, LoopRecords
  <2> QED
    BY <1>10, <2>2, <2>3 DEF TypeOK, Rest, store, past
<1> QED
  BY <1>1, <1>2, <1>3, <1>4, <1>5, <1>6, <1>7, <1>8, <1>9, <1>10 DEF LoopStep

LEMMA TypeWorker == ASSUME NEW w \in Workers PROVE TypeOK /\ WorkerStep(w) => TypeOK'
<1> SUFFICES ASSUME TypeOK, WorkerStep(w) PROVE TypeOK'
  OBVIOUS
<1>1. CASE SetBusy(w)
  <2>1. tray' \in TrayRecords(saves)
    BY <1>1 DEF TypeOK, SetBusy, TrayRecords
  <2>2. workers' \in [Workers -> WorkerRecords]
    BY <1>1, WorkersTyped DEF SetBusy
  <2> QED
    BY <1>1, <2>1, <2>2 DEF TypeOK, SetBusy, store
<1>2. CASE Acts(w)
  <2>1. StoreMoves
    BY <1>2 DEF Acts, StoreMoves, Kinds
  <2>2. workers' \in [Workers -> WorkerRecords]
    BY <1>2, WorkersTyped DEF Acts
  <2> QED
    BY <1>2, <2>1, <2>2, StoreTypes DEF TypeOK, Acts, past
<1>3. CASE Fails(w)
  BY <1>3, WorkersTyped DEF TypeOK, Fails, store, past
<1>4. CASE Finish(w)
  <2>1. tray' \in TrayRecords(saves)
    BY <1>4 DEF TypeOK, Finish, TrayRecords
  <2>2. workers' \in [Workers -> WorkerRecords]
    BY <1>4, WorkersTyped DEF Finish
  <2> QED
    BY <1>4, <2>1, <2>2 DEF TypeOK, Finish, store, past
<1>5. CASE Report(w)
  <2> DEFINE last == Msg(IF workers[w].pc = "upgraded" THEN "restart" ELSE "done")
  <2>1. last \in Msgs
    BY DEF Msg, Msgs
  <2>2. Send(<<last>>)
    BY <1>5 DEF Report
  <2> HIDE DEF last
  <2>3. <<last>> \in Seq(Msgs)
    BY <2>1
  <2>4. queue' \in Seq(Msgs)
    BY <2>2, <2>3, QueueGrows DEF TypeOK
  <2>5. workers' \in [Workers -> WorkerRecords]
    BY <1>5, IdleTyped DEF TypeOK, Report
  <2> QED
    BY <1>5, <2>4, <2>5 DEF TypeOK, Report, store, past
<1> QED
  BY <1>1, <1>2, <1>3, <1>4, <1>5 DEF WorkerStep

LEMMA TypeWindow == TypeOK /\ WindowStep => TypeOK'
<1> SUFFICES ASSUME TypeOK, WindowStep PROVE TypeOK'
  OBVIOUS
<1> USE TrayAssumption
<1>0. saves \in Nat
  BY DEF TypeOK
<1>1. CASE WindowOpens
  <2>1. PICK answer \in Answers :
          /\ Told(answer)
          /\ window' = [NoWindow EXCEPT !.open = TRUE, !.enrolled = answer, !.looked = saves]
    BY <1>1, Zenon DEF WindowOpens
  <2>2. failures' \in 0..MaxFailures
    BY <2>1, ToldTyped
  <2>3. window' \in WindowRecords(saves)
    <3>1. [NoWindow EXCEPT !.open = TRUE, !.enrolled = answer, !.looked = saves] \in WindowRecords(saves)
      BY <1>0, OpenedTyped, Zenon
    <3> QED
      BY <2>1, <3>1
  <2>4. events' \in Nat
    BY <1>1 DEF TypeOK, WindowOpens, Event
  <2> QED
    BY <1>1, <2>2, <2>3, <2>4 DEF TypeOK, WindowOpens
<1>2. CASE WindowAsks
  <2>1. window' \in WindowRecords(saves)
    BY <1>2 DEF TypeOK, WindowAsks, WindowRecords
  <2> QED
    BY <1>2, <2>1 DEF TypeOK, WindowAsks, PageStep, store
<1>3. ASSUME NEW act \in {"start", "replace", "add"}, WindowStarts(act) PROVE TypeOK'
  <2>1. Job(act, window) \in Jobs
    BY JobTyped DEF TypeOK, WindowRecords
  <2>2. window' \in WindowRecords(saves)
    <3>1. window' = [window EXCEPT !.confirm = FALSE, !.pc = "running", !.job = Job(act, window)]
      BY <1>3 DEF WindowStarts
    <3> QED
      BY <2>1, <3>1 DEF TypeOK, WindowRecords
  <2>3. events' \in Nat
    BY <1>3 DEF TypeOK, WindowStarts, Event
  <2> QED
    BY <1>3, <2>2, <2>3 DEF TypeOK, WindowStarts, PageStep, store
<1>4. CASE GuidedEnds
  <2>1. window.job.act \in Kinds \cup {"start", "replace", "add"}
    BY DEF TypeOK, WindowRecords, Jobs
  <2>2. StoreMoves
    BY <1>4, <2>1 DEF GuidedEnds, StoreMoves
  <2>3. window \in WindowRecords(saves')
    BY <1>4, <2>2, StoreTypes DEF GuidedEnds
  <2>4. window' \in WindowRecords(saves')
    BY <1>4, <2>3, IdleTyped DEF GuidedEnds, WindowRecords
  <2> QED
    BY <1>4, <2>2, <2>4, StoreTypes DEF TypeOK, GuidedEnds, past
<1>5. CASE WindowShows
  <2>1. PICK answer \in Answers :
          /\ Told(answer)
          /\ window' = [window EXCEPT !.pc = "none", !.enrolled = answer, !.looked = saves]
    BY <1>5, Zenon DEF WindowShows
  <2>2. failures' \in 0..MaxFailures
    BY <2>1, ToldTyped
  <2>3. saves \in 0..saves
    BY <1>0
  <2>4. window' \in WindowRecords(saves)
    BY <2>1, <2>3 DEF TypeOK, WindowRecords
  <2> QED
    BY <1>5, <2>2, <2>4 DEF TypeOK, WindowShows, past
<1>6. CASE WindowCloses
  <2>1. window' \in WindowRecords(saves)
    BY <1>0, <1>6, NoWindowTyped DEF WindowCloses
  <2>2. orphans' \subseteq Jobs
    BY <1>6 DEF TypeOK, WindowCloses, WindowRecords
  <2>3. events' \in Nat
    BY <1>6 DEF TypeOK, WindowCloses, Event
  <2> QED
    BY <1>6, <2>1, <2>2, <2>3 DEF TypeOK, WindowCloses, store
<1> QED
  BY <1>1, <1>2, <1>3, <1>4, <1>5, <1>6 DEF WindowStep

LEMMA TypeRest == TypeOK /\ (SecondTray \/ OrphanEnds \/ Shell \/ ScanTurns \/ Tick) => TypeOK'
<1> SUFFICES ASSUME TypeOK, SecondTray \/ OrphanEnds \/ Shell \/ ScanTurns \/ Tick PROVE TypeOK'
  OBVIOUS
<1> USE TrayAssumption
<1>1. CASE OrphanEnds
  <2>1. PICK job \in orphans : orphans' = orphans \ {job} /\ (Saves(job.act) \/ UNCHANGED <<templates, saves>>)
    BY <1>1 DEF OrphanEnds
  <2>2. job.act \in Kinds \cup {"start", "replace", "add"}
    BY DEF TypeOK, Jobs
  <2>3. StoreMoves
    BY <2>1, <2>2 DEF StoreMoves
  <2> QED
    BY <1>1, <2>1, <2>3, StoreTypes DEF TypeOK, OrphanEnds, past
<1>2. CASE Shell
  <2>1. StoreMoves
    BY <1>2 DEF Shell, StoreMoves
  <2>2. events' \in Nat
    BY <1>2 DEF TypeOK, Shell, Event
  <2> QED
    BY <1>2, <2>1, <2>2, StoreTypes DEF TypeOK, Shell
<1>3. CASE ScanTurns
  <2>1. scan' \in BOOLEAN
    BY <1>3, Zenon DEF ScanTurns
  <2>2. events' \in Nat
    BY <1>3 DEF TypeOK, ScanTurns, Event
  <2> QED
    BY <1>3, <2>1, <2>2 DEF TypeOK, ScanTurns, store
<1>4. CASE Tick
  <2> DEFINE Older(n, most) == IF n < most THEN n + 1 ELSE n
  <2>1. /\ loop' = [loop EXCEPT !.ran = FALSE, !.age = Older(@, StatusPoll), !.since = Older(@, MaxDelay)]
        /\ quiet' = IF tray.busy THEN 0 ELSE Older(quiet, MaxDelay)
    BY <1>4 DEF Tick
  <2>2. quiet' \in Nat
    BY <2>1 DEF TypeOK
  <2>3. loop.age \in Nat /\ loop.since \in Nat
    BY DEF TypeOK, LoopRecords
  <2>4. Older(loop.age, StatusPoll) \in Nat /\ Older(loop.since, MaxDelay) \in Nat
    BY <2>3
  <2>5. loop' \in LoopRecords(saves)
    BY <2>1, <2>4 DEF TypeOK, LoopRecords
  <2> QED
    BY <1>4, <2>2, <2>5 DEF TypeOK, Tick, store
<1>5. CASE SecondTray
  <2>1. PICK answer \in Answers :
          /\ Told(answer)
          /\ orphans' = orphans \cup {Job(IF answer = "no" THEN "enrol" ELSE "retrain",
                                          [enrolled |-> answer, looked |-> saves])}
    BY <1>5, Zenon DEF SecondTray
  <2>2. failures' \in 0..MaxFailures
    BY <2>1, ToldTyped
  <2>3. Job(IF answer = "no" THEN "enrol" ELSE "retrain",
            [enrolled |-> answer, looked |-> saves]) \in Jobs
    BY DEF TypeOK, Job, Jobs, Kinds
  <2>4. orphans' \subseteq Jobs
    BY <2>1, <2>3 DEF TypeOK
  <2>5. events' \in Nat
    BY <1>5 DEF TypeOK, SecondTray, Event
  <2> QED
    BY <1>5, <2>2, <2>4, <2>5 DEF TypeOK, SecondTray
<1> QED
  BY <1>1, <1>2, <1>3, <1>4, <1>5

LEMMA TypeInit == Init => TypeOK
<1> SUFFICES ASSUME Init PROVE TypeOK
  OBVIOUS
<1> USE TrayAssumption
<1>1. templates \in 0..1 /\ saves = templates /\ saves \in 0..MaxSaves /\ saves \in Nat
  BY DEF Init
<1>2. tray \in TrayRecords(saves) /\ loop \in LoopRecords(saves)
  BY <1>1, NoTrayTyped, NoLoopTyped DEF Init
<1>3. window \in WindowRecords(saves)
  <2>1. CASE window = NoWindow
    BY <1>1, <2>1, NoWindowTyped
  <2>2. CASE window = [NoWindow EXCEPT !.open = TRUE, !.enrolled = Enrolled, !.looked = saves]
    <3>1. Enrolled \in Answers
      BY DEF Enrolled, Answers
    <3>2. \A n \in Nat, answer \in Answers :
            [NoWindow EXCEPT !.open = TRUE, !.enrolled = answer, !.looked = n] \in WindowRecords(n)
      BY OpenedTyped
    <3>3. [NoWindow EXCEPT !.open = TRUE, !.enrolled = Enrolled, !.looked = saves] \in WindowRecords(saves)
      BY <1>1, <3>1, <3>2, Zenon
    <3> QED
      BY <2>2, <3>3
  <2> QED
    BY <2>1, <2>2 DEF Init
<1>4. workers \in [Workers -> WorkerRecords] /\ queue \in Seq(Msgs)
  BY IdleTyped DEF Init
<1>5. templates \in 0..saves /\ failures \in 0..MaxFailures /\ quiet \in Nat /\ events \in Nat
  BY <1>1 DEF Init
<1>6. scan \in BOOLEAN /\ doubled \in BOOLEAN /\ orphans \subseteq Jobs
  BY Zenon DEF Init
<1> QED
  BY <1>1, <1>2, <1>3, <1>4, <1>5, <1>6 DEF TypeOK

LEMMA TypeStep == TypeOK /\ [Next]_vars => TypeOK'
<1> SUFFICES ASSUME TypeOK, [Next]_vars PROVE TypeOK'
  OBVIOUS
<1>1. CASE Next
  BY <1>1, TypeStart, TypeLoop, TypeMenu, TypeWindow, TypeWorker, TypeRest DEF Next
<1>2. CASE UNCHANGED vars
  BY <1>2 DEF TypeOK, vars, store, past
<1> QED
  BY <1>1, <1>2

(* Type correctness: what the tray, its loop and the window have seen of   *)
(* the store is never later than the store, and every job is a known one.  *)
THEOREM TypeCorrect == Spec => []TypeOK
  BY TypeInit, TypeStep, PTL DEF Spec

-----------------------------------------------------------------------------
(* KnownReplace.  What was seen of the store stays sound as the store      *)
(* moves: it is emptied, or filled by a save later than any look.          *)

Sound(view, t, s) ==
  view.looked <= s /\ (view.enrolled = "no" => t = 0 \/ t > view.looked)
Knows(job, t, s) ==
  job.looked <= s /\ (OneClick(job) => t = 0 \/ t > job.looked)
KnownMsgs(t, s) == {m \in Msgs : m.type = "run" => Knows(m.job, t, s)}

KnownInv ==
  /\ Sound(tray, templates, saves) /\ Sound(loop.held, templates, saves)
  /\ Sound(window, templates, saves)
  /\ queue \in Seq(KnownMsgs(templates, saves))
  /\ \A w \in Workers : Knows(workers[w].job, templates, saves)
  /\ Knows(window.job, templates, saves)
  /\ \A job \in orphans : Knows(job, templates, saves)

LEMMA SeqMonotone == ASSUME NEW S, NEW T, S \subseteq T PROVE Seq(S) \subseteq Seq(T)
  OBVIOUS

LEMMA Kept ==
  ASSUME TypeOK, StoreMoves
  PROVE  /\ \A view : view.looked \in Nat /\ Sound(view, templates, saves)
                        => Sound(view, templates', saves')
         /\ \A job \in Jobs : Knows(job, templates, saves) => Knows(job, templates', saves')
         /\ Seq(KnownMsgs(templates, saves)) \subseteq Seq(KnownMsgs(templates', saves'))
<1> USE TrayAssumption
<1>1. saves \in Nat /\ templates \in Nat
  BY DEF TypeOK
<1>2. \/ templates' = templates /\ saves' = saves
      \/ templates' = saves + 1 /\ saves' = saves + 1
      \/ templates' = 0 /\ saves' = saves
  BY DEF StoreMoves, Saves
<1>3. ASSUME NEW looked \in Nat, looked <= saves
      PROVE  looked <= saves' /\ (templates = 0 \/ templates > looked
                                   => templates' = 0 \/ templates' > looked)
  <2>1. CASE templates' = templates /\ saves' = saves
    BY <2>1, <1>3
  <2>2. CASE templates' = saves + 1 /\ saves' = saves + 1
    BY <1>1, <2>2, <1>3
  <2>3. CASE templates' = 0 /\ saves' = saves
    BY <2>3, <1>3
  <2> QED
    BY <1>2, <2>1, <2>2, <2>3
<1>4. \A view : view.looked \in Nat /\ Sound(view, templates, saves) => Sound(view, templates', saves')
  BY <1>3 DEF Sound
<1>5. \A job \in Jobs : Knows(job, templates, saves) => Knows(job, templates', saves')
  <2>1. \A job \in Jobs : job.looked \in Nat
    BY DEF Jobs
  <2> QED
    BY <1>3, <2>1 DEF Knows
<1>6. KnownMsgs(templates, saves) \subseteq KnownMsgs(templates', saves')
  BY <1>5, MsgKinds DEF KnownMsgs
<1> HIDE DEF KnownMsgs
<1> QED
  BY <1>4, <1>5, <1>6, SeqMonotone

(* What a step keeps of the invariant when it leaves these things alone. *)
LEMMA KeptViews ==
  ASSUME TypeOK, KnownInv, StoreMoves
  PROVE  /\ tray' = tray => Sound(tray', templates', saves')
         /\ loop' = loop => Sound(loop'.held, templates', saves')
         /\ window' = window => /\ Sound(window', templates', saves')
                                /\ Knows(window'.job, templates', saves')
         /\ queue' = queue => queue' \in Seq(KnownMsgs(templates', saves'))
         /\ \A w \in Workers : Knows(workers[w].job, templates', saves')
         /\ \A job \in orphans : Knows(job, templates', saves')
<1>1. tray.looked \in Nat /\ loop.held.looked \in Nat /\ window.looked \in Nat
  BY TrayAssumption DEF TypeOK, TrayRecords, LoopRecords, WindowRecords
<1>2. window.job \in Jobs /\ (\A w \in Workers : workers[w].job \in Jobs) /\ orphans \subseteq Jobs
  BY DEF TypeOK, WindowRecords, WorkerRecords
<1> QED
  BY <1>1, <1>2, Kept DEF KnownInv

LEMMA SoundAnswer ==
  ASSUME TypeOK, NEW answer \in Answers, Told(answer)
  PROVE  \A view : view.enrolled = answer /\ view.looked = saves => Sound(view, templates, saves)
<1>1. templates \in Nat /\ saves \in Nat
  BY TrayAssumption DEF TypeOK
<1>2. answer = "no" => templates = 0
  BY <1>1 DEF Told, Enrolled
<1> QED
  BY <1>1, <1>2 DEF Sound

LEMMA NothingKnown ==
  ASSUME TypeOK
  PROVE  /\ Sound(NoTray, templates, saves) /\ Sound(NoAnswer, templates, saves)
         /\ Sound(NoWindow, templates, saves)
         /\ Knows(Idle.job, templates, saves) /\ NoWindow.job = Idle.job
<1>1. saves \in Nat
  BY TrayAssumption DEF TypeOK
<1>2. NoTray.looked = 0 /\ NoTray.enrolled = "unknown"
  BY DEF NoTray, FreshTray
<1>3. NoAnswer.looked = 0 /\ NoAnswer.enrolled = "unknown"
  BY DEF NoAnswer
<1>4. NoWindow.looked = 0 /\ NoWindow.enrolled = "unknown" /\ NoWindow.job = Idle.job
  BY DEF NoWindow
<1>5. Idle.job.looked = 0 /\ Idle.job.act = "test"
  BY DEF Idle
<1> QED
  BY <1>1, <1>2, <1>3, <1>4, <1>5 DEF Sound, Knows, OneClick

LEMMA HeldFresh == \A t : FreshLoop(t).held = NoAnswer /\ NoLoop.held = NoAnswer
  BY DEF FreshLoop, NoLoop

LEMMA KnownJob ==
  ASSUME TypeOK, NEW view, Sound(view, templates, saves), NEW act,
         act = "enrol" => view.enrolled = "no"
  PROVE  Knows(Job(act, view), templates, saves)
  BY DEF Job, Knows, OneClick, Sound

LEMMA KnownInit == Init => KnownInv
<1> SUFFICES ASSUME Init PROVE KnownInv
  OBVIOUS
<1>1. TypeOK
  BY TypeInit
<1>2. Sound(tray, templates, saves) /\ Sound(loop.held, templates, saves)
  BY <1>1, NothingKnown, HeldFresh DEF Init
<1>3. templates \in Nat /\ saves \in Nat
  BY DEF Init
<1>4. Sound(window, templates, saves) /\ Knows(window.job, templates, saves)
  <2>1. CASE window = NoWindow
    BY <1>1, <2>1, NothingKnown
  <2>2. CASE window = [NoWindow EXCEPT !.open = TRUE, !.enrolled = Enrolled, !.looked = saves]
    <3>1. window.enrolled = Enrolled /\ window.looked = saves /\ window.job = NoWindow.job
      BY <2>2 DEF NoWindow
    <3>2. Sound(window, templates, saves)
      BY <1>3, <3>1 DEF Sound, Enrolled
    <3> QED
      BY <1>1, <3>1, <3>2, NothingKnown
  <2> QED
    BY <2>1, <2>2 DEF Init
<1>5. queue \in Seq(KnownMsgs(templates, saves))
  BY DEF Init
<1>6. \A w \in Workers : Knows(workers[w].job, templates, saves)
  BY <1>1, NothingKnown DEF Init
<1> QED
  BY <1>2, <1>4, <1>5, <1>6 DEF KnownInv, Init

LEMMA KnownStart == TypeOK /\ KnownInv /\ Start => KnownInv'
<1> SUFFICES ASSUME TypeOK, KnownInv, Start PROVE KnownInv'
  OBVIOUS
<1>1. PICK answer \in Answers, delay \in Delays :
        Told(answer) /\ tray' = FreshTray(answer, delay) /\ loop' = FreshLoop(tray')
  BY DEF Start
<1>2. Sound(tray', templates, saves)
  BY <1>1, SoundAnswer DEF FreshTray
<1>3. Sound(loop'.held, templates, saves)
  BY <1>1, HeldFresh, NothingKnown
<1> QED
  BY <1>2, <1>3 DEF KnownInv, Start

LEMMA KnownMenu == TypeOK /\ KnownInv /\ (MenuStep \/ UpdateChecked) => KnownInv'
<1> SUFFICES ASSUME TypeOK, KnownInv, MenuStep \/ UpdateChecked PROVE KnownInv'
  OBVIOUS
<1> DEFINE known == KnownMsgs(templates, saves)
<1>0. queue \in Seq(known)
  BY DEF KnownInv
<1>1. \A m \in Msgs : m.type # "run" => m \in known
  BY DEF KnownMsgs
<1> HIDE DEF known
<1>2. queue' \in Seq(known)
  <2>1. ASSUME NEW act \in Kinds, Click(act) PROVE queue' \in Seq(known)
    <3>1. act = "enrol" => tray.enrolled = "no"
      BY <2>1 DEF Click, Entries, EnrolEntries
    <3>2. Job(act, tray) \in Jobs
      BY JobTyped, TrayAssumption DEF TypeOK, TrayRecords
    <3>3. Knows(Job(act, tray), templates, saves)
      BY <3>1, KnownJob DEF KnownInv
    <3>4. [type |-> "run", job |-> Job(act, tray)] \in known
      BY <3>2, <3>3 DEF known, KnownMsgs, Msgs
    <3>5. Msg("touch") \in known
      BY <1>1 DEF Msg, Msgs
    <3> DEFINE r == (IF act = "change" THEN <<>> ELSE <<Msg("touch")>>)
                    \o <<[type |-> "run", job |-> Job(act, tray)]>>
    <3>6. r \in Seq(known)
      BY <3>4, <3>5
    <3>7. Send(r)
      BY <2>1 DEF Click
    <3> HIDE DEF r
    <3> QED
      BY <1>0, <3>6, <3>7, QueueGrows
  <2>2. ASSUME ClickOther PROVE queue' \in Seq(known)
    <3>1. Msg("touch") \in known /\ Msg("quit") \in known
          /\ \A delay \in Delays : [type |-> "minutes", delay |-> delay] \in known
      BY <1>1 DEF Msg, Msgs
    <3> DEFINE touch == <<Msg("touch")>>
               quit == <<Msg("touch"), Msg("quit")>>
               minutes(delay) == <<[type |-> "minutes", delay |-> delay]>>
    <3>2. touch \in Seq(known) /\ quit \in Seq(known) /\ \A delay \in Delays : minutes(delay) \in Seq(known)
      BY <3>1
    <3>3. Send(touch) \/ Send(quit) \/ \E delay \in Delays : Send(minutes(delay))
      BY <2>2 DEF ClickOther
    <3> HIDE DEF touch, quit, minutes
    <3>4. CASE Send(touch)
      BY <1>0, <3>2, <3>4, QueueGrows
    <3>5. CASE Send(quit)
      BY <1>0, <3>2, <3>5, QueueGrows
    <3>6. CASE \E delay \in Delays : Send(minutes(delay))
      <4>1. PICK delay \in Delays : Send(minutes(delay))
        BY <3>6
      <4> QED
        BY <1>0, <3>2, <4>1, QueueGrows
    <3> QED
      BY <3>3, <3>4, <3>5, <3>6
  <2>3. ASSUME UpdateChecked PROVE queue' \in Seq(known)
    <3>1. \A tag \in Found : [type |-> "update", tag |-> tag] \in known
      BY <1>1 DEF Msgs
    <3>2. PICK tag \in Found : Send(<<[type |-> "update", tag |-> tag]>>)
      BY <2>3 DEF UpdateChecked
    <3>3. <<[type |-> "update", tag |-> tag]>> \in Seq(known)
      BY <3>1, <3>2
    <3> QED
      BY <1>0, <3>2, <3>3, QueueGrows
  <2> QED
    BY <2>1, <2>2, <2>3 DEF MenuStep
<1>3. UNCHANGED <<templates, saves, tray, loop, workers, window, orphans>>
  BY DEF MenuStep, UpdateChecked, Click, ClickOther, store
<1> QED
  BY <1>2, <1>3 DEF KnownInv, known
LEMMA KnownReceive ==
  ASSUME KnownInv, NEW type, Receive(type)
  PROVE  /\ queue' \in Seq(KnownMsgs(templates, saves))
         /\ Head(queue).type = "run" => Knows(Head(queue).job, templates, saves)
<1> DEFINE known == KnownMsgs(templates, saves)
<1>1. queue \in Seq(known) /\ queue # <<>> /\ queue' = Tail(queue)
  BY DEF KnownInv, Receive
<1> HIDE DEF known
<1>2. Head(queue) \in known /\ queue' \in Seq(known)
  BY <1>1, QueueShrinks
<1> QED
  BY <1>2 DEF known, KnownMsgs

LEMMA KnownRead ==
  ASSUME TypeOK, NEW pc \in {"read", "poll"}, ReadStatus(pc)
  PROVE  Sound(loop'.held, templates, saves)
<1>1. PICK answer \in Answers :
        Told(answer) /\ loop' = [loop EXCEPT !.pc = pc, !.held = [enrolled |-> answer, looked |-> saves]]
  BY Zenon DEF ReadStatus
<1>2. loop'.held.enrolled = answer /\ loop'.held.looked = saves
  BY <1>1 DEF TypeOK, LoopRecords
<1> QED
  BY <1>1, <1>2, SoundAnswer

LEMMA KnownLoop == TypeOK /\ KnownInv /\ LoopStep => KnownInv'
<1> SUFFICES ASSUME TypeOK, KnownInv, LoopStep PROVE KnownInv'
  OBVIOUS
<1>0. templates' = templates /\ saves' = saves
  BY DEF LoopStep, RecvTimeout, RecvTouch, RecvMinutes, RecvUpdate, RecvRun, RecvDone, RecvQuit,
         Show, Look, Rest, store
<1>1. ASSUME Sound(tray', templates, saves), Sound(loop'.held, templates, saves),
             queue' \in Seq(KnownMsgs(templates, saves)), window' = window,
             \A w \in Workers : Knows(workers'[w].job, templates, saves),
             \A job \in orphans' : Knows(job, templates, saves)
      PROVE  KnownInv'
  BY <1>0, <1>1 DEF KnownInv
<1>2. CASE RecvTimeout
  <2>1. loop'.held = loop.held
    BY <1>2 DEF RecvTimeout, Proceed, TypeOK, LoopRecords
  <2> QED
    BY <1>1, <1>2, <2>1 DEF RecvTimeout, KnownInv
<1>3. CASE RecvTouch
  <2>1. loop'.held = loop.held
    BY <1>3 DEF RecvTouch, TypeOK, LoopRecords
  <2>2. queue' \in Seq(KnownMsgs(templates, saves))
    BY <1>3, KnownReceive DEF RecvTouch
  <2> QED
    BY <1>1, <1>3, <2>1, <2>2 DEF RecvTouch, KnownInv
<1>4. CASE RecvMinutes
  <2>1. loop'.held = loop.held /\ tray'.enrolled = tray.enrolled /\ tray'.looked = tray.looked
    BY <1>4 DEF RecvMinutes, Proceed, TypeOK, LoopRecords, TrayRecords
  <2>2. queue' \in Seq(KnownMsgs(templates, saves))
    BY <1>4, KnownReceive DEF RecvMinutes
  <2>3. Sound(tray', templates, saves)
    BY <2>1 DEF KnownInv, Sound
  <2> QED
    BY <1>1, <1>4, <2>1, <2>2, <2>3 DEF RecvMinutes, KnownInv, past
<1>5. CASE RecvUpdate
  <2>1. loop'.held = loop.held /\ tray'.enrolled = tray.enrolled /\ tray'.looked = tray.looked
    BY <1>5 DEF RecvUpdate, TypeOK, LoopRecords, TrayRecords
  <2>2. queue' \in Seq(KnownMsgs(templates, saves))
    BY <1>5, KnownReceive DEF RecvUpdate
  <2>3. Sound(tray', templates, saves)
    BY <2>1 DEF KnownInv, Sound
  <2> QED
    BY <1>1, <1>5, <2>1, <2>2, <2>3 DEF RecvUpdate, KnownInv
<1>6. CASE RecvRun
  <2>1. loop'.held = loop.held /\ tray'.enrolled = tray.enrolled /\ tray'.looked = tray.looked
    BY <1>6 DEF RecvRun, TypeOK, LoopRecords, TrayRecords
  <2>2. /\ queue' \in Seq(KnownMsgs(templates, saves))
        /\ Knows(Head(queue).job, templates, saves)
    BY <1>6, KnownReceive DEF RecvRun, Receive
  <2>3. Sound(tray', templates, saves)
    BY <2>1 DEF KnownInv, Sound
  <2>4. \A w \in Workers : workers'[w].job \in {workers[w].job, Head(queue).job}
    BY <1>6 DEF RecvRun, TypeOK
  <2>5. \A w \in Workers : Knows(workers'[w].job, templates, saves)
    BY <2>2, <2>4 DEF KnownInv
  <2> QED
    BY <1>1, <1>6, <2>1, <2>2, <2>3, <2>5 DEF RecvRun, KnownInv
<1>7. CASE RecvDone
  <2>1. Sound(loop'.held, templates, saves)
    BY <1>7, KnownRead DEF RecvDone
  <2>2. queue' \in Seq(KnownMsgs(templates, saves))
    BY <1>7, KnownReceive DEF RecvDone
  <2> QED
    BY <1>1, <1>7, <2>1, <2>2 DEF RecvDone, KnownInv
<1>8. CASE RecvQuit
  <2>1. Sound(tray', templates, saves) /\ Sound(loop'.held, templates, saves)
    BY <1>8, NothingKnown, HeldFresh DEF RecvQuit, Ends
  <2>2. queue' \in Seq(KnownMsgs(templates, saves))
    BY <1>8 DEF RecvQuit, Ends
  <2>3. \A w \in Workers : Knows(workers'[w].job, templates, saves)
    BY <1>8, NothingKnown DEF RecvQuit, Ends
  <2>4. \A job \in orphans' : job \in orphans \/ \E w \in Workers : job = workers[w].job
    BY <1>8, Zenon DEF RecvQuit, Ends, Working
  <2>5. \A job \in orphans' : Knows(job, templates, saves)
    BY <2>4 DEF KnownInv
  <2> QED
    BY <1>1, <1>8, <2>1, <2>2, <2>3, <2>5 DEF RecvQuit
<1>9. CASE Show
  <2>1. /\ tray'.enrolled = loop.held.enrolled /\ tray'.looked = loop.held.looked
        /\ loop'.held = NoAnswer
    BY <1>9 DEF Show, TypeOK, LoopRecords, TrayRecords
  <2>2. Sound(tray', templates, saves) /\ Sound(loop'.held, templates, saves)
    BY <2>1, NothingKnown DEF KnownInv, Sound
  <2> QED
    BY <1>1, <1>9, <2>2 DEF Show, KnownInv
<1>10. CASE Look
  <2>1. tray'.enrolled = tray.enrolled /\ tray'.looked = tray.looked
    BY <1>10 DEF Look, TypeOK, TrayRecords
  <2>2. Sound(tray', templates, saves)
    BY <2>1 DEF KnownInv, Sound
  <2>3. Sound(loop'.held, templates, saves)
    <3>1. CASE ReadStatus("poll")
      BY <3>1, KnownRead
    <3>2. CASE Proceed("rest")
      <4>1. loop'.held = loop.held
        BY <3>2 DEF Proceed, TypeOK, LoopRecords
      <4> QED
        BY <4>1 DEF KnownInv
    <3> QED
      BY <1>10, <3>1, <3>2 DEF Look
  <2> QED
    BY <1>1, <1>10, <2>2, <2>3 DEF Look, KnownInv
<1>11. CASE Rest
  <2>1. loop'.held = loop.held /\ tray'.enrolled = tray.enrolled /\ tray'.looked = tray.looked
    BY <1>11 DEF Rest, TypeOK, LoopRecords, TrayRecords
  <2>2. Sound(tray', templates, saves)
    BY <2>1 DEF KnownInv, Sound
  <2> QED
    BY <1>1, <1>11, <2>1, <2>2 DEF Rest, KnownInv, past
<1> QED
  BY <1>2, <1>3, <1>4, <1>5, <1>6, <1>7, <1>8, <1>9, <1>10, <1>11 DEF LoopStep

LEMMA KnownWorker == ASSUME NEW w \in Workers PROVE TypeOK /\ KnownInv /\ WorkerStep(w) => KnownInv'
<1> SUFFICES ASSUME TypeOK, KnownInv, WorkerStep(w) PROVE KnownInv'
  OBVIOUS
<1>1. StoreMoves /\ loop' = loop /\ window' = window /\ orphans' = orphans
  BY DEF WorkerStep, SetBusy, Acts, Fails, Finish, Report, StoreMoves, store, Kinds, past
<1>2. Sound(tray', templates', saves')
  <2>1. CASE tray' = tray
    BY <1>1, <2>1, KeptViews
  <2>2. CASE tray' = [tray EXCEPT !.busy = TRUE] \/ tray' = [tray EXCEPT !.busy = FALSE]
    <3>1. tray'.enrolled = tray.enrolled /\ tray'.looked = tray.looked /\ tray.looked \in Nat
      BY <2>2, TrayAssumption DEF TypeOK, TrayRecords
    <3>2. Sound(tray, templates', saves')
      BY <1>1, <3>1, Kept DEF KnownInv
    <3> QED
      BY <3>1, <3>2 DEF Sound
  <2> QED
    BY <2>1, <2>2 DEF WorkerStep, SetBusy, Acts, Fails, Finish, Report
<1>3. queue' \in Seq(KnownMsgs(templates', saves'))
  <2>1. CASE queue' = queue
    BY <1>1, <2>1, KeptViews
  <2>2. CASE Report(w)
    <3> DEFINE last == Msg(IF workers[w].pc = "upgraded" THEN "restart" ELSE "done")
               known == KnownMsgs(templates, saves)
    <3>1. last \in known
      BY DEF Msg, Msgs, KnownMsgs
    <3>2. Send(<<last>>) /\ queue \in Seq(known) /\ templates' = templates /\ saves' = saves
      BY <2>2 DEF Report, KnownInv, store
    <3> HIDE DEF last, known
    <3>3. <<last>> \in Seq(known)
      BY <3>1
    <3>4. queue' \in Seq(known)
      BY <3>2, <3>3, QueueGrows
    <3> QED
      BY <3>2, <3>4 DEF known
  <2> QED
    BY <2>1, <2>2 DEF WorkerStep, SetBusy, Acts, Fails, Finish, past
<1>4. \A v \in Workers : workers'[v].job \in {workers[v].job, Idle.job}
  BY DEF TypeOK, WorkerRecords, WorkerStep, SetBusy, Acts, Fails, Finish, Report, Goes
<1>5. Knows(Idle.job, templates', saves')
  <2>1. Idle.job \in Jobs /\ Knows(Idle.job, templates, saves)
    BY IdleTyped, NothingKnown
  <2> QED
    BY <1>1, <2>1, Kept
<1>6. \A v \in Workers : Knows(workers'[v].job, templates', saves')
  BY <1>1, <1>4, <1>5, KeptViews
<1> QED
  BY <1>1, <1>2, <1>3, <1>6, KeptViews DEF KnownInv

LEMMA KnownWindow == TypeOK /\ KnownInv /\ WindowStep => KnownInv'
<1> SUFFICES ASSUME TypeOK, KnownInv, WindowStep PROVE KnownInv'
  OBVIOUS
<1>1. StoreMoves /\ UNCHANGED <<tray, loop, queue, workers>>
  <2>1. window.job.act \in Kinds \cup {"start", "replace", "add"}
    BY DEF TypeOK, WindowRecords, Jobs
  <2> QED
    BY <2>1 DEF WindowStep, WindowOpens, WindowAsks, WindowStarts, GuidedEnds, WindowShows,
         WindowCloses, PageStep, StoreMoves, store
<1>2. ASSUME Sound(window', templates', saves'), Knows(window'.job, templates', saves'),
             orphans' \subseteq orphans \cup {window.job}
      PROVE  KnownInv'
  <2>1. window.job \in Jobs /\ Knows(window.job, templates, saves)
    BY DEF TypeOK, WindowRecords, KnownInv
  <2>2. Knows(window.job, templates', saves')
    BY <1>1, <2>1, Kept
  <2> QED
    BY <1>1, <1>2, <2>2, KeptViews DEF KnownInv
<1>3. ASSUME templates' = templates, saves' = saves, Sound(window', templates, saves),
             Knows(window'.job, templates, saves), orphans' \subseteq orphans \cup {window.job}
      PROVE  KnownInv'
  BY <1>2, <1>3
<1>4. CASE WindowOpens
  <2>1. PICK answer \in Answers :
          /\ Told(answer)
          /\ window' = [NoWindow EXCEPT !.open = TRUE, !.enrolled = answer, !.looked = saves]
    BY <1>4, Zenon DEF WindowOpens
  <2>2. window'.enrolled = answer /\ window'.looked = saves /\ window'.job = Idle.job
    BY <2>1 DEF NoWindow
  <2>3. Sound(window', templates, saves) /\ Knows(window'.job, templates, saves)
    BY <2>1, <2>2, SoundAnswer, NothingKnown
  <2> QED
    BY <1>3, <1>4, <2>3 DEF WindowOpens
<1>5. CASE WindowAsks
  <2>1. window'.enrolled = window.enrolled /\ window'.looked = window.looked /\ window'.job = window.job
    BY <1>5 DEF WindowAsks, TypeOK, WindowRecords
  <2>2. Sound(window', templates, saves) /\ Knows(window'.job, templates, saves)
    BY <2>1 DEF KnownInv, Sound
  <2> QED
    BY <1>3, <1>5, <2>2 DEF WindowAsks, PageStep, store
<1>6. ASSUME NEW act \in {"start", "replace", "add"}, WindowStarts(act) PROVE KnownInv'
  <2>1. window' = [window EXCEPT !.confirm = FALSE, !.pc = "running", !.job = Job(act, window)]
    BY <1>6 DEF WindowStarts
  <2>2. window'.enrolled = window.enrolled /\ window'.looked = window.looked
        /\ window'.job = Job(act, window)
    BY <2>1 DEF TypeOK, WindowRecords
  <2>3. Sound(window', templates, saves)
    BY <2>2 DEF KnownInv, Sound
  <2>4. Knows(window'.job, templates, saves)
    BY <2>2, KnownJob DEF KnownInv
  <2> QED
    BY <1>3, <1>6, <2>3, <2>4 DEF WindowStarts, PageStep, store
<1>7. CASE GuidedEnds
  <2>1. window'.enrolled = window.enrolled /\ window'.looked = window.looked
        /\ window'.job = Idle.job /\ window.looked \in Nat
    BY <1>7, TrayAssumption DEF GuidedEnds, TypeOK, WindowRecords
  <2>2. Sound(window, templates', saves')
    BY <1>1, <2>1, Kept DEF KnownInv
  <2>3. Sound(window', templates', saves')
    BY <2>1, <2>2 DEF Sound
  <2>4. Idle.job \in Jobs /\ Knows(Idle.job, templates, saves)
    BY IdleTyped, NothingKnown
  <2>5. Knows(window'.job, templates', saves')
    BY <1>1, <2>1, <2>4, Kept
  <2> QED
    BY <1>2, <1>7, <2>3, <2>5 DEF GuidedEnds
<1>8. CASE WindowShows
  <2>1. PICK answer \in Answers :
          /\ Told(answer)
          /\ window' = [window EXCEPT !.pc = "none", !.enrolled = answer, !.looked = saves]
    BY <1>8, Zenon DEF WindowShows
  <2>2. window'.enrolled = answer /\ window'.looked = saves /\ window'.job = window.job
    BY <2>1 DEF TypeOK, WindowRecords
  <2>3. Sound(window', templates, saves) /\ Knows(window'.job, templates, saves)
    BY <2>1, <2>2, SoundAnswer DEF KnownInv
  <2> QED
    BY <1>3, <1>8, <2>3 DEF WindowShows
<1>9. CASE WindowCloses
  <2>1. Sound(window', templates, saves) /\ Knows(window'.job, templates, saves)
    BY <1>9, NothingKnown DEF WindowCloses
  <2> QED
    BY <1>3, <1>9, <2>1 DEF WindowCloses, store
<1> QED
  BY <1>4, <1>5, <1>6, <1>7, <1>8, <1>9 DEF WindowStep

LEMMA KnownRest == TypeOK /\ KnownInv /\ (OrphanEnds \/ Shell \/ ScanTurns \/ Tick) => KnownInv'
<1> SUFFICES ASSUME TypeOK, KnownInv, OrphanEnds \/ Shell \/ ScanTurns \/ Tick PROVE KnownInv'
  OBVIOUS
<1>1. StoreMoves
  <2>1. CASE OrphanEnds
    <3>1. PICK job \in orphans : Saves(job.act) \/ UNCHANGED <<templates, saves>>
      BY <2>1 DEF OrphanEnds
    <3>2. job.act \in Kinds \cup {"start", "replace", "add"}
      BY DEF TypeOK, Jobs
    <3> QED
      BY <3>1, <3>2 DEF StoreMoves
  <2>2. CASE Shell
    BY <2>2 DEF Shell, StoreMoves
  <2>3. CASE ScanTurns \/ Tick
    BY <2>3 DEF ScanTurns, Tick, StoreMoves, store
  <2> QED
    BY <2>1, <2>2, <2>3
<1>2. UNCHANGED <<tray, queue, workers, window>> /\ orphans' \subseteq orphans
  BY DEF OrphanEnds, Shell, ScanTurns, Tick, past
<1>3. Sound(loop'.held, templates', saves')
  <2>1. loop' = loop \/ loop'.held = loop.held
    BY DEF OrphanEnds, Shell, ScanTurns, Tick, past, TypeOK, LoopRecords
  <2>2. loop.held.looked \in Nat
    BY TrayAssumption DEF TypeOK, LoopRecords
  <2>3. Sound(loop.held, templates', saves')
    BY <1>1, <2>2, Kept DEF KnownInv
  <2> QED
    BY <2>1, <2>3
<1> QED
  BY <1>1, <1>2, <1>3, KeptViews DEF KnownInv

(* The job of a second tray is begun on what it has just read. *)
LEMMA KnownSecond == TypeOK /\ KnownInv /\ SecondTray => KnownInv'
<1> SUFFICES ASSUME TypeOK, KnownInv, SecondTray PROVE KnownInv'
  OBVIOUS
<1>1. PICK answer \in Answers :
        /\ Told(answer)
        /\ orphans' = orphans \cup {Job(IF answer = "no" THEN "enrol" ELSE "retrain",
                                        [enrolled |-> answer, looked |-> saves])}
  BY Zenon DEF SecondTray
<1> DEFINE view == [enrolled |-> answer, looked |-> saves]
<1>2. view.enrolled = answer /\ view.looked = saves
  OBVIOUS
<1> HIDE DEF view
<1>3. Sound(view, templates, saves)
  BY <1>1, <1>2, SoundAnswer
<1>4. \A act \in {"enrol", "retrain"} :
        (act = "enrol" => answer = "no") => Knows(Job(act, view), templates, saves)
  BY <1>2, <1>3, KnownJob
<1>5. Knows(Job(IF answer = "no" THEN "enrol" ELSE "retrain", view), templates, saves)
  BY <1>4
<1>6. \A job \in orphans' : Knows(job, templates, saves)
  BY <1>1, <1>5 DEF KnownInv, view
<1> QED
  BY <1>6 DEF KnownInv, SecondTray

LEMMA KnownStep == TypeOK /\ KnownInv /\ [Next]_vars => KnownInv'
<1> SUFFICES ASSUME TypeOK, KnownInv, [Next]_vars PROVE KnownInv'
  OBVIOUS
<1>1. CASE Next
  BY <1>1, KnownStart, KnownLoop, KnownMenu, KnownWindow, KnownWorker, KnownRest, KnownSecond DEF Next
<1>2. CASE UNCHANGED vars
  BY <1>2 DEF KnownInv, vars, store, past
<1> QED
  BY <1>1, <1>2

LEMMA KnownImplies == KnownInv => KnownReplace
<1> SUFFICES ASSUME KnownInv, NEW job \in Pending, OneClick(job)
             PROVE  templates = 0 \/ templates > job.looked
  BY DEF KnownReplace
<1>1. \A i \in DOMAIN queue : queue[i].type = "run" => Knows(queue[i].job, templates, saves)
  BY DEF KnownInv, KnownMsgs
<1>2. Knows(job, templates, saves)
  <2>1. CASE \E i \in DOMAIN queue : queue[i].type = "run" /\ job = queue[i].job
    BY <1>1, <2>1
  <2>2. CASE \E w \in Workers : job = workers[w].job
    BY <2>2 DEF KnownInv
  <2>3. CASE job = window.job \/ job \in orphans
    BY <2>3 DEF KnownInv
  <2> QED
    BY <2>1, <2>2, <2>3 DEF Pending
<1> QED
  BY <1>2 DEF Knows

(* The promise of main.rs:432, for any number of clicks, restarts and      *)
(* windows' enrolments: an enrolment by one click replaces no templates    *)
(* that its answer had not seen the making of.                             *)
THEOREM KnownReplaceHolds == Spec => []KnownReplace
<1>1. Init => TypeOK /\ KnownInv
  BY TypeInit, KnownInit
<1>2. (TypeOK /\ KnownInv) /\ [Next]_vars => (TypeOK /\ KnownInv)'
  BY TypeStep, KnownStep
<1> QED
  BY <1>1, <1>2, KnownImplies, PTL DEF Spec

-----------------------------------------------------------------------------
(* BusyFollows.  A tray that is off has no worker and no message; one that *)
(* is up is busy while its one worker is at work, and after that only      *)
(* until it restarts.                                                      *)

Busy == tray.busy
Upgraded == \E w \in Workers : workers[w].pc = "upgraded"
Restarting(q) == \E i \in DOMAIN q : q[i].type = "restart"

BusyInv ==
  /\ ~Up => queue = <<>> /\ \A w \in Workers : workers[w].pc = "none"
  /\ Up => /\ Busy => Working # {} \/ Upgraded \/ Restarting(queue)
           /\ Working # {} /\ ~doubled => Busy
  /\ ~doubled => \A v, w \in Working : v = w

LEMMA RestartStays ==
  ASSUME NEW S, NEW q \in Seq(S)
  PROVE  /\ \A r \in Seq(S) : Restarting(q) => Restarting(q \o r)
         /\ q # <<>> /\ Head(q).type # "restart" /\ Restarting(q) => Restarting(Tail(q))
         /\ \A m \in S : m.type = "restart" => Restarting(q \o <<m>>)
<1>1. ASSUME NEW r \in Seq(S), Restarting(q) PROVE Restarting(q \o r)
  <2>1. PICK i \in DOMAIN q : q[i].type = "restart"
    BY <1>1 DEF Restarting
  <2>2. i \in DOMAIN (q \o r) /\ (q \o r)[i] = q[i]
    OBVIOUS
  <2> QED
    BY <2>1, <2>2 DEF Restarting
<1>2. ASSUME q # <<>>, Head(q).type # "restart", Restarting(q) PROVE Restarting(Tail(q))
  <2>1. PICK i \in DOMAIN q : q[i].type = "restart"
    BY <1>2 DEF Restarting
  <2>2. i # 1
    BY <1>2, <2>1
  <2>3. i - 1 \in DOMAIN Tail(q) /\ Tail(q)[i - 1] = q[i]
    BY <1>2, <2>1, <2>2
  <2> QED
    BY <2>1, <2>3 DEF Restarting
<1>3. ASSUME NEW m \in S, m.type = "restart" PROVE Restarting(q \o <<m>>)
  <2>1. Len(q) + 1 \in DOMAIN (q \o <<m>>) /\ (q \o <<m>>)[Len(q) + 1] = m
    OBVIOUS
  <2> QED
    BY <1>3, <2>1 DEF Restarting
<1> QED
  BY <1>1, <1>2, <1>3

(* The steps that leave the workers alone, and what busy there is. *)
LEMMA BusyKept ==
  ASSUME TypeOK, BusyInv, Up, Up', tray'.busy = tray.busy, workers' = workers, doubled' = doubled,
         Restarting(queue) => Restarting(queue')
  PROVE  BusyInv'
<1>1. Working' = Working /\ (Upgraded => Upgraded')
  BY DEF Working, Upgraded
<1> QED
  BY <1>1 DEF BusyInv, Busy

LEMMA BusyInit == Init => BusyInv
  BY IdleTyped DEF Init, BusyInv, Up, NoLoop, Working

LEMMA BusyStart == TypeOK /\ BusyInv /\ Start => BusyInv'
<1> SUFFICES ASSUME TypeOK, BusyInv, Start PROVE BusyInv'
  OBVIOUS
<1>1. tray'.busy = FALSE /\ loop'.pc = "recv"
  BY DEF Start, FreshTray, FreshLoop
<1>2. \A w \in Workers : workers'[w].pc = "none"
  BY DEF Start, LockFree, BusyInv
<1>3. Working' = {}
  BY <1>2 DEF Working
<1> QED
  BY <1>1, <1>3 DEF BusyInv, Busy, Up

LEMMA BusyMenu == TypeOK /\ BusyInv /\ (MenuStep \/ UpdateChecked) => BusyInv'
<1> SUFFICES ASSUME TypeOK, BusyInv, MenuStep \/ UpdateChecked PROVE BusyInv'
  OBVIOUS
<1>1. UNCHANGED <<tray, loop, workers, doubled>>
  BY DEF MenuStep, UpdateChecked, Click, ClickOther, store
<1>2. PICK r \in Seq(Msgs) : Send(r)
  BY MenuSends
<1>3. queue \in Seq(Msgs) /\ queue' = queue \o r
  BY <1>2 DEF Send, TypeOK
<1>4. Restarting(queue) => Restarting(queue')
  BY <1>2, <1>3, RestartStays
<1>5. Up /\ Up'
  BY <1>1, <1>2 DEF Send, Up
<1> QED
  BY <1>1, <1>4, <1>5, BusyKept
LEMMA BusyReceive ==
  ASSUME TypeOK, NEW type, type # "restart", Receive(type)
  PROVE  (Restarting(queue) => Restarting(queue')) /\ Up
<1>1. queue \in Seq(Msgs) /\ queue # <<>> /\ Head(queue).type # "restart" /\ queue' = Tail(queue)
  BY DEF TypeOK, Receive
<1>2. Up
  BY DEF Receive, Up
<1> QED
  BY <1>1, <1>2, RestartStays

LEMMA BusyLoop == TypeOK /\ BusyInv /\ LoopStep => BusyInv'
<1> SUFFICES ASSUME TypeOK, BusyInv, LoopStep PROVE BusyInv'
  OBVIOUS
<1>1. CASE RecvTimeout \/ Show \/ Look \/ Rest
  <2>1. tray'.busy = tray.busy
    BY <1>1 DEF RecvTimeout, Show, Look, Rest, TypeOK, TrayRecords
  <2>2. UNCHANGED <<queue, workers, doubled>>
    BY <1>1 DEF RecvTimeout, Show, Look, Rest, past
  <2>3. Up
    BY <1>1 DEF RecvTimeout, Show, Look, Rest, Up
  <2>4. Up'
    BY <1>1 DEF RecvTimeout, Show, Look, Rest, Up, Proceed, ReadStatus, TypeOK, LoopRecords
  <2> QED
    BY <2>1, <2>2, <2>3, <2>4, BusyKept
<1>2. CASE RecvTouch \/ RecvMinutes \/ RecvUpdate \/ RecvDone
  <2>1. tray'.busy = tray.busy
    BY <1>2 DEF RecvTouch, RecvMinutes, RecvUpdate, RecvDone, TypeOK, TrayRecords
  <2>2. UNCHANGED <<workers, doubled>>
    BY <1>2 DEF RecvTouch, RecvMinutes, RecvUpdate, RecvDone, past
  <2>3. Up'
    BY <1>2 DEF RecvTouch, RecvMinutes, RecvUpdate, RecvDone, Up, Proceed, ReadStatus, TypeOK, LoopRecords
  <2>4. (Restarting(queue) => Restarting(queue')) /\ Up
    BY <1>2, BusyReceive DEF RecvTouch, RecvMinutes, RecvUpdate, RecvDone
  <2> QED
    BY <2>1, <2>2, <2>3, <2>4, BusyKept
<1>3. CASE RecvRun
  <2>1. tray'.busy = TRUE
    BY <1>3 DEF RecvRun, TypeOK, TrayRecords
  <2>2. PICK w \in Workers : /\ workers[w].pc = "none"
                             /\ workers' = [workers EXCEPT ![w] = [pc |-> "started", job |-> Head(queue).job]]
    <3> DEFINE free == {w \in Workers : workers[w].pc = "none"}
               w    == CHOOSE w \in free : TRUE
    <3>1. free # {} /\ workers' = [workers EXCEPT ![w] = [pc |-> "started", job |-> Head(queue).job]]
      BY <1>3 DEF RecvRun
    <3>2. w \in free
      BY <3>1
    <3> QED
      BY <3>1, <3>2
  <2>3. Working' = Working \cup {w}
    BY <2>2 DEF Working, TypeOK
  <2>4. doubled' = (Working # {})
    BY <1>3 DEF RecvRun
  <2>5. Up'
    BY <1>3 DEF RecvRun, Receive, Up, TypeOK, LoopRecords
  <2> QED
    BY <2>1, <2>3, <2>4, <2>5 DEF BusyInv, Busy
<1>4. CASE RecvQuit
  <2>1. \A w \in Workers : workers'[w].pc = "none"
    BY <1>4, IdleTyped DEF RecvQuit, Ends
  <2>2. Working' = {} /\ queue' = <<>> /\ ~Up'
    BY <1>4, <2>1 DEF RecvQuit, Ends, Working, Up, NoLoop, FreshLoop
  <2> QED
    BY <2>1, <2>2 DEF BusyInv
<1> QED
  BY <1>1, <1>2, <1>3, <1>4 DEF LoopStep

LEMMA BusyWorker == ASSUME NEW w \in Workers PROVE TypeOK /\ BusyInv /\ WorkerStep(w) => BusyInv'
<1> SUFFICES ASSUME TypeOK, BusyInv, WorkerStep(w) PROVE BusyInv'
  OBVIOUS
<1>1. Up /\ Up' /\ doubled' = doubled
  <2>1. workers[w].pc # "none"
    BY DEF WorkerStep, SetBusy, Acts, Fails, Finish, Report
  <2>2. loop' = loop /\ doubled' = doubled
    BY DEF WorkerStep, SetBusy, Acts, Fails, Finish, Report, past
  <2> QED
    BY <2>1, <2>2 DEF BusyInv, Up
<1>2. ASSUME SetBusy(w) \/ Acts(w) \/ Fails(w) PROVE BusyInv'
  <2>1. \A v \in Workers : v # w => workers'[v] = workers[v]
    BY <1>2 DEF SetBusy, Acts, Fails, Goes, TypeOK
  <2>2. w \in Working /\ workers'[w].pc \in {"asking", "acted", "failed"} /\ workers[w].pc # "upgraded"
    BY <1>2 DEF SetBusy, Acts, Fails, Goes, Working, TypeOK, WorkerRecords
  <2>3. Working' = Working /\ (Upgraded => Upgraded')
    BY <2>1, <2>2 DEF Working, Upgraded
  <2>4. tray'.busy = TRUE \/ tray'.busy = tray.busy
    BY <1>2 DEF SetBusy, Acts, Fails, TypeOK, TrayRecords
  <2>5. queue' = queue
    BY <1>2 DEF SetBusy, Acts, Fails, past
  <2> QED
    BY <1>1, <2>2, <2>3, <2>4, <2>5 DEF BusyInv, Busy
<1>3. ASSUME Finish(w) PROVE BusyInv'
  <2>1. \A v \in Workers : v # w => workers'[v] = workers[v]
    BY <1>3 DEF Finish, Goes, TypeOK
  <2>2. w \in Working /\ workers'[w].pc \in {"cleared", "upgraded"}
    BY <1>3 DEF Finish, Goes, Working, TypeOK, WorkerRecords
  <2>3. Working' = Working \ {w}
    BY <2>1, <2>2 DEF Working
  <2>4. ~doubled => Working' = {}
    BY <2>2, <2>3 DEF BusyInv
  <2>5. tray'.busy = FALSE \/ Upgraded'
    BY <1>3 DEF Finish, Goes, Upgraded, TypeOK, TrayRecords, WorkerRecords
  <2> QED
    BY <1>1, <2>3, <2>4, <2>5 DEF BusyInv, Busy
<1>4. ASSUME Report(w) PROVE BusyInv'
  <2>1. \A v \in Workers : v # w => workers'[v] = workers[v]
    BY <1>4 DEF Report, TypeOK
  <2>2. workers[w].pc \in {"cleared", "upgraded"} /\ workers'[w].pc = "none"
    BY <1>4, IdleTyped DEF Report, TypeOK
  <2>3. Working' = Working
    BY <2>1, <2>2 DEF Working
  <2> DEFINE last == Msg(IF workers[w].pc = "upgraded" THEN "restart" ELSE "done")
  <2>4. last \in Msgs /\ (workers[w].pc = "upgraded" => last.type = "restart")
    BY DEF Msg, Msgs
  <2>5. queue \in Seq(Msgs) /\ queue' = queue \o <<last>>
    BY <1>4 DEF Report, Send, TypeOK
  <2> HIDE DEF last
  <2>6. Restarting(queue) \/ workers[w].pc = "upgraded" => Restarting(queue')
    <3>1. <<last>> \in Seq(Msgs)
      BY <2>4
    <3>2. Restarting(queue) => Restarting(queue')
      BY <2>5, <3>1, RestartStays
    <3>3. last.type = "restart" => Restarting(queue')
      BY <2>4, <2>5, RestartStays
    <3> QED
      BY <2>4, <3>2, <3>3
  <2>7. Upgraded => Upgraded' \/ workers[w].pc = "upgraded"
    BY <2>1 DEF Upgraded
  <2>8. tray' = tray
    BY <1>4 DEF Report
  <2> QED
    BY <1>1, <2>3, <2>6, <2>7, <2>8 DEF BusyInv, Busy
<1> QED
  BY <1>2, <1>3, <1>4 DEF WorkerStep

LEMMA BusyElsewhere ==
  TypeOK /\ BusyInv /\ (WindowStep \/ SecondTray \/ OrphanEnds \/ Shell \/ ScanTurns \/ Tick) => BusyInv'
<1> SUFFICES ASSUME TypeOK, BusyInv, WindowStep \/ SecondTray \/ OrphanEnds \/ Shell \/ ScanTurns \/ Tick
             PROVE  BusyInv'
  OBVIOUS
<1>1. UNCHANGED <<tray, queue, workers, doubled>>
  BY DEF WindowStep, WindowOpens, WindowAsks, WindowStarts, GuidedEnds, WindowShows, WindowCloses,
         PageStep, SecondTray, OrphanEnds, Shell, ScanTurns, Tick, past
<1>2. Up' = Up
  <2>1. CASE loop' = loop
    BY <2>1 DEF Up
  <2>2. CASE Tick
    BY <2>2 DEF Tick, Up, TypeOK, LoopRecords
  <2> QED
    BY <2>1, <2>2 DEF WindowStep, WindowOpens, WindowAsks, WindowStarts, GuidedEnds, WindowShows,
         WindowCloses, PageStep, SecondTray, OrphanEnds, Shell, ScanTurns
<1>3. Working' = Working /\ Upgraded' = Upgraded
  BY <1>1 DEF Working, Upgraded
<1> QED
  BY <1>1, <1>2, <1>3 DEF BusyInv, Busy

LEMMA BusyStep == TypeOK /\ BusyInv /\ [Next]_vars => BusyInv'
<1> SUFFICES ASSUME TypeOK, BusyInv, [Next]_vars PROVE BusyInv'
  OBVIOUS
<1>1. CASE Next
  BY <1>1, BusyStart, BusyLoop, BusyMenu, BusyWorker, BusyElsewhere DEF Next
<1>2. CASE UNCHANGED vars
  <2>1. UNCHANGED <<tray, loop, queue, workers, doubled>>
    BY <1>2 DEF vars, past
  <2>2. Up' = Up /\ Working' = Working /\ Upgraded' = Upgraded
    BY <2>1 DEF Up, Working, Upgraded
  <2> QED
    BY <2>1, <2>2 DEF BusyInv, Busy
<1> QED
  BY <1>1, <1>2

(* "Actions are refused while one runs" (main.rs:276), for any number of   *)
(* workers: the tray never stays busy when the last has gone, and is busy  *)
(* while one works, unless two clicks have outrun the loop.                *)
THEOREM BusyFollowsHolds == Spec => []BusyFollows
<1>1. Init => TypeOK /\ BusyInv
  BY TypeInit, BusyInit
<1>2. (TypeOK /\ BusyInv) /\ [Next]_vars => (TypeOK /\ BusyInv)'
  BY TypeStep, BusyStep
<1>3. BusyInv => BusyFollows
  BY DEF BusyInv, BusyFollows, Busy, Upgraded, Restarting
<1> QED
  BY <1>1, <1>2, <1>3, PTL DEF Spec

-----------------------------------------------------------------------------
(* HidesWhenQuiet.  The loop's count of ticks lags what there was to see   *)
(* by one at most, unless the state it shows has changed in this round:    *)
(* then Rest starts the count again.                                       *)

Same == State(tray) = loop.state
QuietInv ==
  Up =>
  /\ loop.pc \in {"recv", "read"} => Same
  /\ loop.pc = "tail" => Same \/ (loop.age = 0 /\ loop.state # "scanning" /\ ~tray.scanning)
  /\ loop.pc = "poll" => ~tray.scanning /\ (Same \/ loop.state = "scanning")
  /\ ~doubled /\ Same => loop.since <= quiet + 1
  /\ ~doubled /\ Busy => loop.since <= 1 /\ (loop.ran => loop.since = 0)

LEMMA ZeroLags == \A n \in Nat : 0 <= n + 1 /\ 0 <= 1
  OBVIOUS

LEMMA DelayTyped == \A delay \in Delays \cup {0} : delay \in Nat
  BY TrayAssumption

LEMMA LoopFields ==
  TypeOK => /\ loop.age \in Nat /\ loop.since \in Nat /\ quiet \in Nat
            /\ tray.busy \in BOOLEAN /\ tray.scanning \in BOOLEAN /\ loop.ran \in BOOLEAN
  BY DEF TypeOK, LoopRecords, TrayRecords

LEMMA QuietInit == Init => QuietInv
  BY DEF Init, QuietInv, Up, NoLoop, FreshLoop

LEMMA QuietStart == TypeOK /\ Start => QuietInv'
<1> SUFFICES ASSUME TypeOK, Start PROVE QuietInv'
  OBVIOUS
<1>1. /\ loop'.pc = "recv" /\ loop'.state = State(tray') /\ loop'.since = 0
      /\ quiet' = 0 /\ loop'.age = 0
  BY DEF Start, FreshLoop
<1> QED
  BY <1>1 DEF QuietInv, Same

(* Steps of others: they may clear busy, and set it where it is set. *)
LEMMA QuietElsewhere ==
  ASSUME TypeOK, QuietInv, Up, loop' = loop, doubled' = doubled,
         tray'.scanning = tray.scanning, tray'.enrolled = tray.enrolled,
         \/ quiet' = quiet
         \/ quiet' = 0 /\ (~doubled => Busy),
         tray'.busy => Busy \/ doubled
  PROVE  QuietInv'
<1>1. State(tray') = State(tray)
  BY DEF State
<1>2. loop.since \in Nat /\ quiet \in Nat
  BY LoopFields
<1>3. ASSUME ~doubled, Same PROVE loop.since <= quiet' + 1
  BY <1>2, <1>3 DEF QuietInv
<1>4. ASSUME ~doubled, tray'.busy PROVE loop.since <= 1 /\ (loop.ran => loop.since = 0)
  BY <1>4 DEF QuietInv
<1> QED
  BY <1>1, <1>3, <1>4 DEF QuietInv, Same, Busy, Up

(* Messages: the count goes on from where it was, or from zero. *)
LEMMA QuietReceive ==
  ASSUME TypeOK, QuietInv, loop.pc = "recv", NEW pc \in {"tail", "read"}, loop'.pc = pc,
         loop'.state = loop.state, loop'.age = loop.age, loop'.ran = loop.ran,
         tray'.scanning = tray.scanning, tray'.enrolled = tray.enrolled,
         \/ /\ loop'.since = loop.since /\ quiet' = quiet /\ doubled' = doubled
            /\ tray'.busy = tray.busy
         \/ loop'.since = 0 /\ quiet' \in Nat
  PROVE  QuietInv'
<1>1. State(tray') = State(tray) /\ Same
  BY DEF State, QuietInv, Up
<1>2. Up
  BY DEF Up
<1>0. Same' /\ loop'.pc \in {"tail", "read"}
  BY <1>1 DEF Same
<1>3. CASE loop'.since = 0 /\ quiet' \in Nat
  <2>1. loop'.since <= quiet' + 1 /\ loop'.since <= 1
    BY <1>3, ZeroLags, Zenon
  <2> QED
    BY <1>0, <1>3, <2>1 DEF QuietInv
<1>4. CASE /\ loop'.since = loop.since /\ quiet' = quiet /\ doubled' = doubled
           /\ tray'.busy = tray.busy
  BY <1>1, <1>2, <1>4 DEF QuietInv, Same, Busy
<1> QED
  BY <1>3, <1>4

LEMMA QuietLoop == TypeOK /\ QuietInv /\ LoopStep => QuietInv'
<1> SUFFICES ASSUME TypeOK, QuietInv, LoopStep PROVE QuietInv'
  OBVIOUS
<1>1. CASE RecvTimeout
  BY <1>1, QuietReceive DEF RecvTimeout, Proceed, TypeOK, LoopRecords, past
<1>2. CASE RecvTouch
  BY <1>2, QuietReceive DEF RecvTouch, Receive, TypeOK, LoopRecords
<1>3. CASE RecvMinutes
  <2>1. /\ tray'.scanning = tray.scanning /\ tray'.enrolled = tray.enrolled /\ tray'.busy = tray.busy
        /\ quiet' = quiet /\ doubled' = doubled /\ loop.pc = "recv"
    BY <1>3 DEF RecvMinutes, Receive, TypeOK, TrayRecords, past
  <2>2. /\ loop'.pc = "tail" /\ loop'.state = loop.state /\ loop'.age = loop.age /\ loop'.ran = loop.ran
        /\ loop'.since = loop.since \/ loop'.since = 0
    BY <1>3 DEF RecvMinutes, Proceed, TypeOK, LoopRecords
  <2> QED
    BY <2>1, <2>2, QuietReceive, LoopFields
<1>4. CASE RecvUpdate
  <2>1. /\ tray'.scanning = tray.scanning /\ tray'.enrolled = tray.enrolled /\ tray'.busy = tray.busy
        /\ doubled' = doubled /\ loop.pc = "recv"
    BY <1>4 DEF RecvUpdate, Receive, TypeOK, TrayRecords
  <2>2. /\ loop'.pc = "tail" /\ loop'.state = loop.state /\ loop'.age = loop.age /\ loop'.ran = loop.ran
        /\ \/ loop'.since = loop.since /\ quiet' = quiet
           \/ loop'.since = 0 /\ quiet' = 0
    BY <1>4 DEF RecvUpdate, TypeOK, LoopRecords
  <2> QED
    BY <2>1, <2>2, QuietReceive
<1>5. CASE RecvRun
  <2>1. /\ tray'.scanning = tray.scanning /\ tray'.enrolled = tray.enrolled
        /\ loop.pc = "recv" /\ quiet' = 0
    BY <1>5 DEF RecvRun, Receive, TypeOK, TrayRecords
  <2>2. /\ loop'.pc = "tail" /\ loop'.state = loop.state /\ loop'.age = loop.age /\ loop'.ran = loop.ran
        /\ loop'.since = 0
    BY <1>5 DEF RecvRun, TypeOK, LoopRecords
  <2> QED
    BY <2>1, <2>2, QuietReceive
<1>6. CASE RecvDone
  <2>1. UNCHANGED <<tray, quiet, doubled>> /\ loop.pc = "recv"
    BY <1>6 DEF RecvDone, Receive, past
  <2>2. /\ loop'.pc = "read" /\ loop'.state = loop.state /\ loop'.age = loop.age /\ loop'.ran = loop.ran
        /\ loop'.since = loop.since
    BY <1>6 DEF RecvDone, ReadStatus, TypeOK, LoopRecords
  <2> QED
    BY <2>1, <2>2, QuietReceive
<1>7. CASE RecvQuit
  BY <1>7 DEF RecvQuit, Ends, QuietInv, Up, NoLoop, FreshLoop
<1>8. CASE Show
  <2>1. /\ tray'.scanning = tray.scanning /\ tray'.busy = tray.busy /\ doubled' = doubled
        /\ quiet' = Seen(tray')
    BY <1>8 DEF Show, TypeOK, TrayRecords
  <2>2. /\ loop'.state = loop.state /\ loop'.age = 0 /\ loop'.ran = loop.ran /\ loop'.since = loop.since
        /\ \/ loop.pc = "read" /\ loop'.pc = "tail"
           \/ loop.pc = "poll" /\ loop'.pc = "rest"
    BY <1>8 DEF Show, TypeOK, LoopRecords
  <2>3. Up /\ Up'
    BY <2>2 DEF Up
  <2>4. loop.since \in Nat /\ quiet \in Nat
    BY LoopFields
  <2>5. tray.scanning => State(tray') = "scanning" /\ State(tray) = "scanning"
    BY <2>1 DEF State
  <2>6. ~tray.scanning => State(tray') \in {"ready", "attention"}
    BY <2>1 DEF State
  <2>7. Same' => Same
    BY <2>2, <2>3, <2>5, <2>6 DEF Same, QuietInv
  <2>8. ASSUME Same' PROVE quiet' = quiet
    BY <2>1, <2>2, <2>7, <2>8 DEF Same, Seen
  <2>9. loop'.pc = "tail" => Same' \/ (loop'.age = 0 /\ loop'.state # "scanning" /\ ~tray'.scanning)
    <3>1. ASSUME loop'.pc = "tail" PROVE Same
      BY <2>2, <2>3, <3>1 DEF QuietInv
    <3> QED
      BY <2>1, <2>2, <2>5, <3>1, StateTyped DEF Same, State
  <2>10. ~doubled' /\ Same' => loop'.since <= quiet' + 1
    BY <2>1, <2>2, <2>3, <2>4, <2>7, <2>8 DEF QuietInv
  <2>11. ~doubled' /\ Busy' => loop'.since <= 1 /\ (loop'.ran => loop'.since = 0)
    BY <2>1, <2>2, <2>3 DEF QuietInv, Busy
  <2> QED
    BY <2>2, <2>9, <2>10, <2>11 DEF QuietInv
<1>9. CASE Look
  <2>1. /\ tray'.enrolled = tray.enrolled /\ tray'.busy = tray.busy /\ doubled' = doubled
        /\ tray'.scanning = Scanning /\ quiet' = Seen(tray')
    BY <1>9 DEF Look, TypeOK, TrayRecords
  <2>2. /\ loop.pc = "tail" /\ loop'.state = loop.state /\ loop'.age = loop.age
        /\ loop'.ran = loop.ran /\ loop'.since = loop.since
        /\ \/ loop'.pc = "poll" /\ ~Scanning /\ loop.age >= StatusPoll
           \/ loop'.pc = "rest"
    BY <1>9 DEF Look, ReadStatus, Proceed, TypeOK, LoopRecords
  <2>3. Up /\ Up'
    BY <2>2 DEF Up
  <2>4. loop.since \in Nat /\ quiet \in Nat /\ loop.age \in Nat
    BY LoopFields
  <2>5. Same \/ (loop.age = 0 /\ loop.state # "scanning" /\ ~tray.scanning)
    BY <2>2, <2>3 DEF QuietInv
  <2>6. Same' => Same
    <3>1. ASSUME ~Same PROVE ~Same'
      BY <2>1, <2>2, <2>5, <3>1 DEF Same, State
    <3> QED
      BY <3>1
  <2>7. ASSUME Same' PROVE quiet' = quiet
    BY <2>1, <2>2, <2>6, <2>7 DEF Same, Seen
  <2>8. loop'.pc = "poll" => ~tray'.scanning /\ (Same' \/ loop'.state = "scanning")
    <3>1. ASSUME loop'.pc = "poll" PROVE Same
      BY <2>2, <2>4, <2>5, <3>1, TrayAssumption
    <3>2. ASSUME loop'.pc = "poll" PROVE ~tray'.scanning
      BY <2>1, <2>2, <3>2
    <3> QED
      BY <2>1, <2>2, <3>1, <3>2 DEF Same, State
  <2>9. ~doubled' /\ Same' => loop'.since <= quiet' + 1
    BY <2>1, <2>2, <2>3, <2>4, <2>6, <2>7 DEF QuietInv
  <2>10. ~doubled' /\ Busy' => loop'.since <= 1 /\ (loop'.ran => loop'.since = 0)
    BY <2>1, <2>2, <2>3 DEF QuietInv, Busy
  <2> QED
    BY <2>2, <2>8, <2>9, <2>10 DEF QuietInv
<1>10. CASE Rest
  <2>1. /\ tray'.enrolled = tray.enrolled /\ tray'.busy = tray.busy /\ tray'.scanning = tray.scanning
        /\ doubled' = doubled /\ quiet' = quiet
    BY <1>10 DEF Rest, TypeOK, TrayRecords, past
  <2>2. /\ loop.pc = "rest" /\ loop'.pc = "recv" /\ loop'.state = State(tray)
        /\ loop'.since = IF ~Same \/ Busy THEN 0 ELSE loop.since
    BY <1>10 DEF Rest, TypeOK, LoopRecords, Same, Busy
  <2>3. Up /\ Same'
    BY <2>1, <2>2 DEF Up, Same, State
  <2>4. quiet \in Nat /\ loop.since \in Nat
    BY LoopFields
  <2>5. ~doubled' => loop'.since <= quiet' + 1
    BY <2>1, <2>2, <2>3, <2>4 DEF QuietInv
  <2>6. Busy' => loop'.since = 0
    BY <2>1, <2>2 DEF Busy
  <2> QED
    BY <2>2, <2>3, <2>5, <2>6 DEF QuietInv
<1> QED
  BY <1>1, <1>2, <1>3, <1>4, <1>5, <1>6, <1>7, <1>8, <1>9, <1>10 DEF LoopStep

LEMMA QuietTick == TypeOK /\ QuietInv /\ Tick => QuietInv'
<1> SUFFICES ASSUME TypeOK, QuietInv, Tick PROVE QuietInv'
  OBVIOUS
<1> DEFINE Older(n, most) == IF n < most THEN n + 1 ELSE n
<1>1. /\ loop.pc = "recv" /\ loop.ran /\ loop'.pc = "recv" /\ loop'.ran = FALSE
      /\ loop'.state = loop.state /\ loop'.since = Older(loop.since, MaxDelay)
  BY DEF Tick, TypeOK, LoopRecords
<1>2. tray' = tray /\ doubled' = doubled /\ quiet' = IF tray.busy THEN 0 ELSE Older(quiet, MaxDelay)
  BY DEF Tick
<1>3. Up /\ Same /\ Same'
  BY <1>1, <1>2 DEF QuietInv, Up, Same
<1>4. loop.since \in Nat /\ quiet \in Nat /\ MaxDelay \in Nat
  BY LoopFields, TrayAssumption
<1>5. ~doubled => loop.since <= quiet + 1 /\ (tray.busy => loop.since = 0)
  BY <1>1, <1>3 DEF QuietInv, Busy
<1>6. ~doubled' => loop'.since <= quiet' + 1
  BY <1>1, <1>2, <1>4, <1>5
<1>7. ~doubled' /\ Busy' => loop'.since <= 1
  BY <1>1, <1>2, <1>4, <1>5 DEF Busy
<1> QED
  BY <1>1, <1>3, <1>6, <1>7 DEF QuietInv

LEMMA QuietWorker ==
  ASSUME NEW w \in Workers PROVE TypeOK /\ BusyInv /\ QuietInv /\ WorkerStep(w) => QuietInv'
<1> SUFFICES ASSUME TypeOK, BusyInv, QuietInv, WorkerStep(w) PROVE QuietInv'
  OBVIOUS
<1>1. workers[w].pc # "none" /\ loop' = loop /\ doubled' = doubled
  BY DEF WorkerStep, SetBusy, Acts, Fails, Finish, Report, past
<1>2. Up
  BY <1>1 DEF BusyInv
<1>3. tray'.scanning = tray.scanning /\ tray'.enrolled = tray.enrolled
  BY DEF WorkerStep, SetBusy, Acts, Fails, Finish, Report, TypeOK, TrayRecords
<1>4. CASE SetBusy(w)
  <2>1. w \in Working
    BY <1>4 DEF SetBusy, Working
  <2>2. ~doubled => Busy
    BY <1>2, <2>1 DEF BusyInv
  <2>3. quiet' = 0
    BY <1>4 DEF SetBusy
  <2> QED
    BY <1>1, <1>2, <1>3, <2>2, <2>3, QuietElsewhere
<1>5. CASE Acts(w) \/ Fails(w) \/ Finish(w) \/ Report(w)
  <2>1. quiet' = quiet
    BY <1>5 DEF Acts, Fails, Finish, Report, past
  <2>2. tray'.busy => Busy
    BY <1>5 DEF Acts, Fails, Finish, Report, Busy, TypeOK, TrayRecords
  <2> QED
    BY <1>1, <1>2, <1>3, <2>1, <2>2, QuietElsewhere
<1> QED
  BY <1>4, <1>5 DEF WorkerStep

LEMMA QuietOthers ==
  TypeOK /\ QuietInv
  /\ (MenuStep \/ UpdateChecked \/ WindowStep \/ SecondTray \/ OrphanEnds \/ Shell \/ ScanTurns)
    => QuietInv'
<1> SUFFICES ASSUME TypeOK, QuietInv,
                    \/ MenuStep \/ UpdateChecked \/ WindowStep
                    \/ SecondTray \/ OrphanEnds \/ Shell \/ ScanTurns
             PROVE  QuietInv'
  OBVIOUS
<1>1. UNCHANGED <<tray, loop, doubled, quiet>>
  BY DEF MenuStep, UpdateChecked, Click, ClickOther, WindowStep, WindowOpens, WindowAsks,
         WindowStarts, GuidedEnds, WindowShows, WindowCloses, PageStep, SecondTray, OrphanEnds, Shell,
         ScanTurns, past, store
<1>2. CASE Up
  BY <1>1, <1>2, QuietElsewhere DEF Busy
<1>3. CASE ~Up
  BY <1>1, <1>3 DEF QuietInv, Up
<1> QED
  BY <1>2, <1>3

LEMMA QuietStep == TypeOK /\ BusyInv /\ QuietInv /\ [Next]_vars => QuietInv'
<1> SUFFICES ASSUME TypeOK, BusyInv, QuietInv, [Next]_vars PROVE QuietInv'
  OBVIOUS
<1>1. CASE Next
  BY <1>1, QuietStart, QuietLoop, QuietTick, QuietWorker, QuietOthers DEF Next
<1>2. CASE UNCHANGED vars
  BY <1>2 DEF vars, past, QuietInv, Same, Busy, Up
<1> QED
  BY <1>1, <1>2

LEMMA QuietHides ==
  TypeOK /\ QuietInv /\ Rest /\ tray'.hidden /\ ~doubled => quiet + 1 >= tray.delay
<1> SUFFICES ASSUME TypeOK, QuietInv, Rest, tray'.hidden, ~doubled PROVE quiet + 1 >= tray.delay
  OBVIOUS
<1> DEFINE since == IF ~Same \/ Busy THEN 0 ELSE loop.since
<1>1. tray'.hidden = Tucked(since)
  BY DEF Rest, Same, Busy, TypeOK, TrayRecords
<1>2. Up
  BY DEF Rest, Up
<1>3. loop.since \in Nat /\ quiet \in Nat
  BY LoopFields
<1>4. tray.delay \in Nat
  <2>1. tray.delay \in Delays \cup {0}
    BY DEF TypeOK, TrayRecords
  <2> QED
    BY <2>1, DelayTyped
<1>5. since <= quiet + 1
  BY <1>2, <1>3 DEF QuietInv
<1>6. tray.delay > 0 /\ since >= tray.delay
  BY <1>1 DEF Tucked
<1> QED
  BY <1>3, <1>4, <1>5, <1>6

(* idle.rs:3-6 for any delays: the icon is tucked away only when nothing   *)
(* worth seeing has happened for the delay, to within one tick.            *)
THEOREM HidesWhenQuietHolds == Spec => HidesWhenQuiet
<1>1. Init => TypeOK /\ BusyInv /\ QuietInv
  BY TypeInit, BusyInit, QuietInit
<1>2. (TypeOK /\ BusyInv /\ QuietInv) /\ [Next]_vars => (TypeOK /\ BusyInv /\ QuietInv)'
  BY TypeStep, BusyStep, QuietStep
<1>3. (TypeOK /\ BusyInv /\ QuietInv) /\ [Next]_vars
        => [Rest /\ tray'.hidden /\ ~doubled => quiet + 1 >= tray.delay]_vars
  BY QuietHides
<1> QED
  BY <1>1, <1>2, <1>3, PTL DEF Spec, HidesWhenQuiet
=============================================================================
