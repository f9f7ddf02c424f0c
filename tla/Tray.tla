--------------------------------- MODULE Tray ---------------------------------
(***************************************************************************)
(* vinoauthface-tray: an event loop that alone reads the status, workers   *)
(* that run one root helper each, and the menu, which looks at the Tray    *)
(* struct under its lock and sends messages.  Beside it the Face page of   *)
(* the settings window, which enrols too, and root's shell.                *)
(*                                                                         *)
(* A step of the loop is one message, one look at /proc or at the store,   *)
(* or the end of its round; a worker's is what it does between two uses of *)
(* the lock.  Time is counted in ticks, far longer than a round (SCAN_POLL *)
(* is 200 ms).  Labels, tooltips and most notifications are left out.      *)
(***************************************************************************)
EXTENDS Naturals, Sequences, FiniteSets, Functions

CONSTANTS
  Workers,      \* threads of the loop's, at most so many at once
  Releases,     \* tags the update check may find
  NoRelease,    \* and none
  Delays,       \* idle delays in ticks, 0 for never
  MaxDelay,     \* the longest of them: idle time is counted up to it
  StatusPoll,   \* STATUS_POLL, in ticks
  MaxQueue,     \* bound: messages not handled yet
  MaxSaves,     \* bound: times templates come into being
  MaxFailures,  \* bound: times --enrolled cannot answer
  MaxEvents     \* bound: what users, root and the network begin, in all

ASSUME TrayAssumption ==
  /\ NoRelease \notin Releases
  /\ MaxDelay \in Nat /\ Delays \subseteq 0..MaxDelay
  /\ StatusPoll \in Nat \ {0} /\ MaxQueue \in Nat /\ MaxFailures \in Nat
  /\ MaxSaves \in Nat \ {0} /\ MaxEvents \in Nat

VARIABLES
  templates,  \* 0 for none, or which save brought the store into being
  saves,      \* how many have
  failures,   \* how often --enrolled has not answered
  scan,       \* whether /proc shows a vinoauthface-auth
  tray,       \* the Tray struct
  loop,       \* where the event loop is, and its local variables
  queue,      \* messages to the loop
  workers,    \* the job of each worker, and how far it is
  window,     \* the settings window's Face page, and its own enrolment
  orphans,    \* enrolments whose tray or window is gone, or a second tray's
  doubled,    \* history: workers have run side by side
  quiet,      \* history: ticks since something worth seeing
  events      \* counter, for the bound

store == <<templates, saves, failures>>
past  == <<doubled, quiet, events>>
vars  == <<store, scan, tray, loop, queue, workers, window, orphans, past>>

-----------------------------------------------------------------------------
Answers == {"yes", "no", "unknown"}

\* What `vinoauthface-auth --enrolled` says, and after which saves.
Enrolled == IF templates > 0 THEN "yes" ELSE "no"
Told(answer) ==
  \/ answer = Enrolled /\ failures' = failures
  \/ answer = "unknown" /\ failures < MaxFailures /\ failures' = failures + 1

State(t) == IF t.scanning THEN "scanning"
            ELSE IF t.enrolled = "yes" THEN "ready" ELSE "attention"

\* What users, root and the network begin, up to the bound.
Event == events < MaxEvents /\ events' = events + 1

Kinds == {"enrol", "retrain", "test", "upgrade", "change"}
Jobs  == [act : Kinds \cup {"start", "replace", "add"}, looked : 0..MaxSaves, sure : BOOLEAN]
Job(act, view) == [act |-> act, looked |-> view.looked, sure |-> view.enrolled = "no"]

\* newer_release: a tag with a higher number, or none, or no answer.
Found == Releases \cup {NoRelease}

\* Messages; Restart, Done, Touch and Quit carry nothing.
Msgs == [type : {"done", "restart", "touch", "quit"}]
        \cup [type : {"run"}, job : Jobs]
        \cup [type : {"update"}, tag : Found]
        \cup [type : {"minutes"}, delay : Delays]
Msg(type) == [type |-> type]

Idle == [pc |-> "none", job |-> [act |-> "test", looked |-> 0, sure |-> FALSE]]
\* A worker's set_busy(None) is behind it at "cleared" and "upgraded".
Working == {w \in Workers : workers[w].pc \in {"started", "asking", "acted", "failed"}}

NoWindow == [open |-> FALSE, enrolled |-> "unknown", looked |-> 0, confirm |-> FALSE,
             pc |-> "none", job |-> Idle.job]

NoAnswer == [enrolled |-> "unknown", looked |-> 0]
FreshTray(answer, delay) ==
  [enrolled |-> answer, looked |-> saves, scanning |-> FALSE,
   busy |-> FALSE, update |-> NoRelease, hidden |-> FALSE, delay |-> delay]
NoTray == [FreshTray("unknown", 0) EXCEPT !.looked = 0]
FreshLoop(t) ==
  [pc |-> "recv", held |-> NoAnswer,
   age |-> 0, since |-> 0, state |-> State(t), notified |-> NoRelease, ran |-> FALSE]
NoLoop == [FreshLoop(NoTray) EXCEPT !.pc = "off"]

Init ==
  /\ templates \in 0..1 /\ saves = templates /\ failures = 0 /\ scan = FALSE
  /\ tray = NoTray
  /\ loop = NoLoop
  /\ queue = <<>> /\ workers = [w \in Workers |-> Idle]
  /\ window \in {NoWindow, [NoWindow EXCEPT !.open = TRUE, !.enrolled = Enrolled, !.looked = saves]}
  /\ orphans = {} /\ doubled = FALSE /\ quiet = 0 /\ events = 0

Up == loop.pc # "off"

\* The flock of the one instance goes with its process, or its exec.
LockFree == ~Up

\* main: the status is read, and what is saved of the delay, before the icon
\* shows.  A tray that finds the lock taken exits.
Start ==
  /\ LockFree
  /\ \E answer \in Answers, delay \in Delays :
       /\ Told(answer)
       /\ tray' = FreshTray(answer, delay)
       /\ loop' = FreshLoop(tray')
  /\ quiet' = 0
  /\ UNCHANGED <<templates, saves, scan, queue, workers, window, orphans, doubled, events>>

\* No runtime directory, or no lock to be had in it: a second tray beats no tray.
\* Only the store is common to both: the second one reads the status, and an
\* enrolment from its menu, begun on that answer, ends at some time.
SecondTray ==
  /\ Event /\ Up
  /\ \E answer \in Answers :
       /\ Told(answer)
       /\ orphans' = orphans \cup {Job(IF answer = "no" THEN "enrol" ELSE "retrain",
                                       [enrolled |-> answer, looked |-> saves])}
  /\ UNCHANGED <<templates, saves, scan, tray, loop, queue, workers, window, doubled, quiet>>

-----------------------------------------------------------------------------
(* The menu: its entries show what the Tray struct says. *)

Send(messages) ==
  /\ Up /\ Len(queue) + Len(messages) <= MaxQueue
  /\ queue' = queue \o messages

\* Mutant of EnrolEntries: unknown is treated as not enrolled.
EnrolEntriesUnknown ==
  IF tray.enrolled # "yes" THEN {"enrol"} ELSE {"retrain", "test"}

EnrolEntries ==
  IF tray.enrolled = "no" THEN {"enrol"}
  ELSE IF tray.enrolled = "yes" THEN {"retrain", "test"} ELSE {"retrain"}

Entries == EnrolEntries \cup {"change"}
           \cup IF tray.update # NoRelease THEN {"upgrade"} ELSE {}

\* An entry, or a radio or check mark of Login screen or Settings ("change").
Click(act) ==
  /\ Event
  /\ act \in Entries /\ ~tray.busy
  /\ Cardinality({w \in Workers : workers[w].pc # "none"})
       + Cardinality({i \in DOMAIN queue : queue[i].type = "run"}) < Cardinality(Workers)
  /\ Send((IF act = "change" THEN <<>> ELSE <<Msg("touch")>>)
          \o <<[type |-> "run", job |-> Job(act, tray)]>>)
  /\ UNCHANGED <<store, scan, tray, loop, workers, window, orphans, doubled, quiet>>

\* Settings..., documentation and Quit; and the idle delay, which has no Touch.
ClickOther ==
  /\ Event
  /\ \/ Send(<<Msg("touch")>>)
     \/ Send(<<Msg("touch"), Msg("quit")>>)
     \/ \E delay \in Delays : Send(<<[type |-> "minutes", delay |-> delay]>>)
  /\ UNCHANGED <<store, scan, tray, loop, workers, window, orphans, doubled, quiet>>

\* The update check's thread is done.
UpdateChecked ==
  /\ Event
  /\ \A i \in DOMAIN queue : queue[i].type # "update"
  /\ \E tag \in Found : Send(<<[type |-> "update", tag |-> tag]>>)
  /\ UNCHANGED <<store, scan, tray, loop, workers, window, orphans, doubled, quiet>>

-----------------------------------------------------------------------------
(* event_loop. *)

Proceed(pc) == loop' = [loop EXCEPT !.pc = pc]
Receive(type) == /\ loop.pc = "recv" /\ queue # <<>> /\ Head(queue).type = type
                 /\ queue' = Tail(queue)

RecvTimeout ==
  /\ loop.pc = "recv" /\ queue = <<>> /\ Proceed("tail")
  /\ UNCHANGED <<store, scan, tray, queue, workers, window, orphans, past>>

RecvTouch ==
  /\ Receive("touch")
  /\ loop' = [loop EXCEPT !.pc = "tail", !.since = 0] /\ quiet' = 0
  /\ UNCHANGED <<store, scan, tray, workers, window, orphans, doubled, events>>

\* The delay is saved; or it is not, and nothing changes.
RecvMinutes ==
  /\ Receive("minutes")
  /\ \/ /\ loop' = [loop EXCEPT !.pc = "tail", !.since = 0]
        /\ tray' = [tray EXCEPT !.delay = Head(queue).delay]
     \/ Proceed("tail") /\ tray' = tray
  /\ UNCHANGED <<store, scan, workers, window, orphans, past>>

RecvUpdate ==
  /\ Receive("update")
  /\ LET tag == Head(queue).tag
         new == tag \notin {NoRelease, loop.notified}
     IN  /\ tray' = [tray EXCEPT !.update = tag]
         /\ loop' = IF new THEN [loop EXCEPT !.pc = "tail", !.since = 0, !.notified = tag]
                    ELSE [loop EXCEPT !.pc = "tail"]
         /\ quiet' = IF new THEN 0 ELSE quiet
  /\ UNCHANGED <<store, scan, workers, window, orphans, doubled, events>>

RecvRun ==
  /\ Receive("run")
  /\ loop' = [loop EXCEPT !.pc = "tail", !.since = 0] /\ quiet' = 0
  /\ tray' = [tray EXCEPT !.busy = TRUE]
  /\ LET free == {w \in Workers : workers[w].pc = "none"}
         w    == CHOOSE w \in free : TRUE
     IN  /\ free # {}
         /\ workers' = [workers EXCEPT ![w] = [pc |-> "started", job |-> Head(queue).job]]
  /\ doubled' = (Working # {})
  /\ UNCHANGED <<store, scan, window, orphans, events>>

\* Status::read, or its poll: the next step shows the answer.
ReadStatus(pc) ==
  \E answer \in Answers :
    /\ Told(answer)
    /\ loop' = [loop EXCEPT !.pc = pc, !.held = [enrolled |-> answer, looked |-> saves]]

RecvDone ==
  /\ Receive("done")
  /\ ReadStatus("read")
  /\ UNCHANGED <<templates, saves, scan, tray, workers, window, orphans, past>>

\* The tray ends, or its next version takes its place: threads and messages
\* go, helpers stay.
Ends ==
  /\ loop' = NoLoop /\ tray' = NoTray /\ quiet' = 0
  /\ queue' = <<>> /\ workers' = [w \in Workers |-> Idle] /\ doubled' = FALSE
  /\ orphans' = orphans \cup {workers[w].job : w \in {v \in Working :
                  workers[v].pc = "asking" /\ workers[v].job.act \in {"enrol", "retrain"}}}
RecvQuit ==
  /\ loop.pc = "recv" /\ queue # <<>> /\ Head(queue).type \in {"quit", "restart"} /\ Ends
  /\ UNCHANGED <<store, scan, window, events>>

\* handle.update with the status read: all of it, or the poll's answer alone.
Seen(t) == IF State(t) # State(tray) THEN 0 ELSE quiet
Show ==
  /\ loop.pc \in {"read", "poll"}
  /\ tray' = [tray EXCEPT !.enrolled = loop.held.enrolled, !.looked = loop.held.looked]
  /\ quiet' = Seen(tray')
  /\ loop' = [loop EXCEPT !.pc = IF @ = "read" THEN "tail" ELSE "rest",
                          !.age = 0, !.held = NoAnswer]
  /\ UNCHANGED <<store, scan, queue, workers, window, orphans, doubled, events>>

Scanning == scan \/ \E w \in Workers : workers[w].pc = "asking" /\ workers[w].job.act = "test"

\* Mutant of Look: the store is looked at only while the tray knows no face.
LookUntilEnrolled ==
  /\ loop.pc = "tail"
  /\ tray' = [tray EXCEPT !.scanning = Scanning] /\ quiet' = Seen(tray')
  /\ IF ~Scanning /\ loop.age >= StatusPoll /\ tray.enrolled # "yes"
     THEN ReadStatus("poll")
     ELSE failures' = failures /\ Proceed("rest")
  /\ UNCHANGED <<templates, saves, scan, queue, workers, window, orphans, doubled, events>>

\* /proc first, and the store when it is due and no scan runs.
Look ==
  /\ loop.pc = "tail"
  /\ tray' = [tray EXCEPT !.scanning = Scanning] /\ quiet' = Seen(tray')
  /\ IF ~Scanning /\ loop.age >= StatusPoll
     THEN ReadStatus("poll")
     ELSE failures' = failures /\ Proceed("rest")
  /\ UNCHANGED <<templates, saves, scan, queue, workers, window, orphans, doubled, events>>

\* Idle::hidden; a delay of zero never hides.
Tucked(since) == tray.delay > 0 /\ since >= tray.delay

\* Mutant of Rest: a busy action does not count as something worth seeing.
RestBusyUnseen ==
  /\ loop.pc = "rest"
  /\ LET touched == State(tray) # loop.state
         since   == IF touched THEN 0 ELSE loop.since
     IN  /\ loop' = [loop EXCEPT !.pc = "recv", !.since = since, !.state = State(tray), !.ran = TRUE]
         /\ tray' = [tray EXCEPT !.hidden = Tucked(since)]
  /\ UNCHANGED <<store, scan, queue, workers, window, orphans, past>>

\* The end of a round: the icon comes back, or is tucked away.
Rest ==
  /\ loop.pc = "rest"
  /\ LET touched == State(tray) # loop.state \/ tray.busy
         since   == IF touched THEN 0 ELSE loop.since
     IN  /\ loop' = [loop EXCEPT !.pc = "recv", !.since = since, !.state = State(tray), !.ran = TRUE]
         /\ tray' = [tray EXCEPT !.hidden = Tucked(since)]
  /\ UNCHANGED <<store, scan, queue, workers, window, orphans, past>>

-----------------------------------------------------------------------------
(* perform, in a worker. *)

Goes(w, pc) == workers' = [workers EXCEPT ![w].pc = pc]

\* Actions whose helper prints lines that are shown as progress.
Progressing == {"enrol", "retrain", "upgrade"}

\* set_busy, first and at each line of progress.
SetBusy(w) ==
  /\ \/ workers[w].pc = "started"
     \/ workers[w].pc = "asking" /\ workers[w].job.act \in Progressing
  /\ Goes(w, "asking") /\ tray' = [tray EXCEPT !.busy = TRUE] /\ quiet' = 0
  /\ UNCHANGED <<store, scan, loop, queue, window, orphans, doubled, events>>

\* An enrolment saves: it replaces what there is, or adds to it.
Saves(act) ==
  IF act \in {"enrol", "start", "replace"} \/ templates = 0
  THEN saves < MaxSaves /\ saves' = saves + 1 /\ templates' = saves + 1
  ELSE UNCHANGED <<templates, saves>>

\* The helper is done: what was asked, or nothing and an error.
Acts(w) ==
  /\ workers[w].pc = "asking"
  /\ IF workers[w].job.act \in {"enrol", "retrain"} THEN Saves(workers[w].job.act)
     ELSE UNCHANGED <<templates, saves>>
  /\ Goes(w, "acted")
  /\ UNCHANGED <<failures, scan, tray, loop, queue, window, orphans, past>>

Fails(w) ==
  /\ workers[w].pc = "asking" /\ Goes(w, "failed")
  /\ UNCHANGED <<store, scan, tray, loop, queue, window, orphans, past>>

\* Mutant of Finish: a dismissed prompt returns early.
FinishUnlessDismissed(w) ==
  /\ workers[w].pc \in {"acted", "failed"}
  /\ IF workers[w].pc = "acted" /\ workers[w].job.act = "upgrade"
     THEN Goes(w, "upgraded") /\ tray' = tray
     ELSE /\ Goes(w, "cleared")
          /\ tray' = IF workers[w].pc = "failed" THEN tray ELSE [tray EXCEPT !.busy = FALSE]
  /\ UNCHANGED <<store, scan, loop, queue, window, orphans, past>>

\* set_busy(None), which an upgrade that succeeded leaves out.
Finish(w) ==
  /\ workers[w].pc \in {"acted", "failed"}
  /\ IF workers[w].pc = "acted" /\ workers[w].job.act = "upgrade"
     THEN Goes(w, "upgraded") /\ tray' = tray
     ELSE Goes(w, "cleared") /\ tray' = [tray EXCEPT !.busy = FALSE]
  /\ UNCHANGED <<store, scan, loop, queue, window, orphans, past>>

\* And its last message.
Report(w) ==
  /\ workers[w].pc \in {"cleared", "upgraded"}
  /\ Send(<<Msg(IF workers[w].pc = "upgraded" THEN "restart" ELSE "done")>>)
  /\ workers' = [workers EXCEPT ![w] = Idle]
  /\ UNCHANGED <<store, scan, tray, loop, window, orphans, past>>

-----------------------------------------------------------------------------
(* The settings window's Face page. *)

WindowOpens ==
  /\ Event
  /\ ~window.open
  /\ \E answer \in Answers : Told(answer)
       /\ window' = [NoWindow EXCEPT !.open = TRUE, !.enrolled = answer, !.looked = saves]
  /\ UNCHANGED <<templates, saves, scan, tray, loop, queue, workers, orphans, doubled, quiet>>

Page == window.open /\ window.pc = "none"
PageStep == UNCHANGED <<store, scan, tray, loop, queue, workers, orphans, doubled, quiet>>

\* Enrol again asks first; Cancel takes it back.
WindowAsks ==
  /\ Page /\ (window.confirm \/ window.enrolled = "yes")
  /\ window' = [window EXCEPT !.confirm = ~@] /\ PageStep
  /\ events' = events

\* Replace, where it was asked for; Start, where no face is known of; or Add.
WindowStarts(act) ==
  /\ Page
  /\ IF window.confirm THEN act = "replace"
     ELSE act = IF window.enrolled = "yes" THEN "add" ELSE "start"
  /\ window' = [window EXCEPT !.confirm = FALSE, !.pc = "running", !.job = Job(act, window)]
  /\ PageStep /\ Event

GuidedEnds ==
  /\ window.pc = "running"
  /\ Saves(window.job.act) \/ UNCHANGED <<templates, saves>>
  /\ window' = [window EXCEPT !.pc = "done", !.job = Idle.job]
  /\ UNCHANGED <<failures, scan, tray, loop, queue, workers, orphans, past>>

\* The frame that finds it done asks --enrolled again.
WindowShows ==
  /\ window.pc = "done"
  /\ \E answer \in Answers : Told(answer)
       /\ window' = [window EXCEPT !.pc = "none", !.enrolled = answer, !.looked = saves]
  /\ UNCHANGED <<templates, saves, scan, tray, loop, queue, workers, orphans, past>>

WindowCloses ==
  /\ Event
  /\ window.open /\ window' = NoWindow
  /\ orphans' = IF window.pc = "running" THEN orphans \cup {window.job} ELSE orphans
  /\ UNCHANGED <<store, scan, tray, loop, queue, workers, doubled, quiet>>

-----------------------------------------------------------------------------
(* Everything else. *)

\* A helper without its tray or window saves, or dies of its closed pipes.
OrphanEnds ==
  /\ \E job \in orphans : /\ orphans' = orphans \ {job}
                          /\ Saves(job.act) \/ UNCHANGED <<templates, saves>>
  /\ UNCHANGED <<failures, scan, tray, loop, queue, workers, window, past>>

\* vinoauthface enroll in root's shell, or the store is removed by hand.
Shell ==
  /\ Event
  /\ Saves("replace") \/ (templates > 0 /\ templates' = 0 /\ saves' = saves)
  /\ UNCHANGED <<failures, scan, tray, loop, queue, workers, window, orphans, doubled, quiet>>

\* A scan of sudo's, of polkit's or of a screen lock's begins or ends.
ScanTurns ==
  /\ scan' = ~scan /\ IF scan THEN events' = events ELSE Event
  /\ UNCHANGED <<store, tray, loop, queue, workers, window, orphans, doubled, quiet>>

\* Time passes while the loop waits, and it comes round between two ticks.
Tick ==
  /\ loop.pc = "recv" /\ loop.ran
  /\ LET Older(n, most) == IF n < most THEN n + 1 ELSE n
     IN  /\ loop' = [loop EXCEPT !.ran = FALSE, !.age = Older(@, StatusPoll),
                                 !.since = Older(@, MaxDelay)]
         /\ quiet' = IF tray.busy THEN 0 ELSE Older(quiet, MaxDelay)
  /\ UNCHANGED <<store, scan, tray, queue, workers, window, orphans, doubled, events>>

LoopStep == \/ RecvTimeout \/ RecvTouch \/ RecvMinutes \/ RecvUpdate \/ RecvRun \/ RecvDone
            \/ RecvQuit \/ Show \/ Look \/ Rest
MenuStep == (\E act \in Kinds : Click(act)) \/ ClickOther
WorkerStep(w) == SetBusy(w) \/ Acts(w) \/ Fails(w) \/ Finish(w) \/ Report(w)
WindowStep == \/ WindowOpens \/ WindowAsks \/ GuidedEnds \/ WindowShows \/ WindowCloses
              \/ \E act \in {"start", "replace", "add"} : WindowStarts(act)

Next == \/ Start \/ LoopStep \/ MenuStep \/ UpdateChecked \/ WindowStep
        \/ \E w \in Workers : WorkerStep(w)
        \/ SecondTray \/ OrphanEnds \/ Shell \/ ScanTurns \/ Tick

Spec == Init /\ [][Next]_vars
FairSpec == Spec /\ WF_vars(LoopStep) /\ SF_vars(Tick)

-----------------------------------------------------------------------------
TrayRecords(n) ==
  [enrolled : Answers, looked : 0..n, scanning : BOOLEAN, busy : BOOLEAN,
   update : Found, hidden : BOOLEAN, delay : Delays \cup {0}]
LoopRecords(n) ==
  [pc : {"off", "recv", "read", "tail", "poll", "rest"},
   held : [enrolled : Answers, looked : 0..n], age : Nat, since : Nat,
   state : {"scanning", "ready", "attention"}, notified : Found, ran : BOOLEAN]
WindowRecords(n) ==
  [open : BOOLEAN, enrolled : Answers, looked : 0..n, confirm : BOOLEAN,
   pc : {"none", "running", "done"}, job : Jobs]
WorkerRecords ==
  [pc : {"none", "started", "asking", "acted", "failed", "cleared", "upgraded"}, job : Jobs]

TypeOK ==
  /\ saves \in 0..MaxSaves /\ templates \in 0..saves /\ failures \in 0..MaxFailures
  /\ scan \in BOOLEAN
  /\ tray \in TrayRecords(saves) /\ loop \in LoopRecords(saves)
  /\ queue \in Seq(Msgs) /\ workers \in [Workers -> WorkerRecords]
  /\ window \in WindowRecords(saves) /\ orphans \subseteq Jobs
  /\ doubled \in BOOLEAN /\ quiet \in Nat /\ events \in Nat

\* "Actions are refused while one runs" (main.rs:276): the tray is busy while a
\* worker is at work, and only then; but for two clicks that the loop had not
\* got to, whose workers run side by side and end each other's busy.  A tray
\* that stays busy would refuse every action until it is restarted.
BusyFollows ==
  Up =>
     /\ tray.busy => \/ Working # {}
                     \/ \E w \in Workers : workers[w].pc = "upgraded"
                     \/ \E i \in DOMAIN queue : queue[i].type = "restart"
     /\ Working # {} /\ ~doubled => tray.busy

\* "a one-click enrol could replace templates the tray just failed to see"
\* (main.rs:432): while an enrolment is on its way that was begun by one click,
\* in the menu or in the window, and on the answer that no face is enrolled, the
\* store is empty or has been filled since that answer.
Pending == {queue[i].job : i \in {j \in DOMAIN queue : queue[j].type = "run"}}
           \cup {workers[w].job : w \in {v \in Workers : workers[v].pc \in {"started", "asking"}}}
           \cup (IF window.pc = "running" THEN {window.job} ELSE {}) \cup orphans
OneClick(job) == job.act = "enrol" \/ (job.act = "start" /\ job.sure)
KnownReplace ==
  \A job \in Pending : OneClick(job) => templates = 0 \/ templates > job.looked

\* "Anything worth seeing (a scan, an action, a status change, a click) brings
\* it back and restarts the count" (idle.rs:3-6): a round of the loop ends with
\* the icon tucked away only when there has been none for the delay, to within
\* the one tick that passes between two rounds.
HidesWhenQuiet ==
  [][Rest /\ tray'.hidden /\ ~doubled => quiet + 1 >= tray.delay]_vars

\* Whatever the order of actions, restarts and unanswered questions, the tray
\* comes to show whether a face is enrolled: its menu offers Enrol or Retrain by
\* it.  Not while scans go on, between which it looks (main.rs:872).
StatusFollows ==
  \A b \in {"yes", "no"} : <>[](Up /\ ~Scanning /\ Enrolled = b) => <>[](tray.enrolled = b)
=============================================================================
