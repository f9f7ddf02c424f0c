------------------------- MODULE SettingsWindow_proofs -------------------------
(***************************************************************************)
(* What holds of the settings window for any number of windows, files,     *)
(* rows and other writers, and without the bounds: whose text is in which  *)
(* file when; that no pin or path gets into the system file that root did  *)
(* not put there; and what an edit makes of any text, so that a row means  *)
(* what it shows.                                                          *)
(***************************************************************************)
EXTENDS SettingsWindow, WellFoundedInduction, SequenceTheorems, TLAPS

Fn(f)     == f = [w \in Windows |-> f[w]]
Doc(d)    == d = [read |-> d.read, text |-> d.text]
HelperOf(h) == h = [pc |-> h.pc, base |-> h.base, new |-> h.new, cur |-> h.cur]

(* Each window has its two documents, its Apply and its helper. *)
Shape ==
  /\ Fn(system) /\ Fn(user) /\ Fn(helper)
  /\ \A w \in Windows : Doc(system[w]) /\ Doc(user[w]) /\ HelperOf(helper[w])

(* While an Apply runs, and until its result is taken, the text that waits *)
(* is the one the helper was given, unless a row has changed it since; or  *)
(* nothing waits.                                                          *)
Applied ==
  \A w \in open :
    apply[w] \in {"running", "ok"} /\ w \notin during
      => system[w].text = helper[w].new \/ Changes(system[w]) = {}

Inv == TypeOK /\ Shape /\ NoLostChange /\ OwnKept /\ Applied

LEMMA FocusOpen == ASSUME TypeOK, NEW w \in Windows, focus = w PROVE w \in open
  BY WindowsAssumption DEF TypeOK

LEMMA Loaded ==
  ASSUME NEW file
  PROVE  /\ Doc(Load(file)) /\ Changes(Load(file)) = {}
         /\ Load(file).read = file \/ file = Garbled
<1>1. Load(file).text = TextOf(Load(file).read)
  BY DEF Load, TextOf
<1>2. Changes(Load(file)) = {}
  BY <1>1 DEF Changes
<1> QED
  BY <1>2 DEF Load, Doc

(* What changing one window's document or helper leaves of the others'. *)
Put(f, w, d) == [f EXCEPT ![w] = d]

LEMMA Replaced ==
  ASSUME NEW f, Fn(f), NEW w \in Windows, NEW d
  PROVE  /\ Fn(Put(f, w, d)) /\ Put(f, w, d)[w] = d
         /\ \A v \in Windows : v # w => Put(f, w, d)[v] = f[v]
  BY DEF Fn, Put

LEMMA DocChanged ==
  ASSUME NEW d, Doc(d), NEW t
  PROVE  /\ Doc([d EXCEPT !.text = t]) /\ [d EXCEPT !.text = t].text = t
         /\ [d EXCEPT !.text = t].read = d.read
         /\ Doc([d EXCEPT !.read = t]) /\ [d EXCEPT !.read = t].read = t
         /\ [d EXCEPT !.read = t].text = d.text
<1>1. PICK r, x : d = [read |-> r, text |-> x]
  BY DEF Doc
<1>2. [d EXCEPT !.text = t] = [read |-> r, text |-> t]
  BY <1>1
<1>3. [d EXCEPT !.read = t] = [read |-> t, text |-> x]
  BY <1>1
<1> QED
  BY <1>1, <1>2, <1>3 DEF Doc

SetText(f, w, t) == [f EXCEPT ![w].text = t]
SetRead(f, w, t) == [f EXCEPT ![w].read = t]

LEMMA TextSet ==
  ASSUME NEW f, Fn(f), \A v \in Windows : Doc(f[v]), NEW w \in Windows, NEW t
  PROVE  /\ Fn(SetText(f, w, t)) /\ \A v \in Windows : Doc(SetText(f, w, t)[v])
         /\ \A v \in Windows : v # w => SetText(f, w, t)[v] = f[v]
         /\ SetText(f, w, t)[w].text = t /\ SetText(f, w, t)[w].read = f[w].read
<1> DEFINE d == [f[w] EXCEPT !.text = t]
<1>1. SetText(f, w, t) = [f EXCEPT ![w] = d]
  BY SMTT(30) DEF SetText
<1>2. Doc(d) /\ d.text = t /\ d.read = f[w].read
  BY DocChanged, ZenonT(40)
<1> HIDE DEF d
<1>3. Fn(SetText(f, w, t)) /\ SetText(f, w, t)[w] = d
      /\ \A v \in Windows : v # w => SetText(f, w, t)[v] = f[v]
  BY <1>1 DEF Fn
<1> QED
  BY <1>2, <1>3

LEMMA ReadSet ==
  ASSUME NEW f, Fn(f), \A v \in Windows : Doc(f[v]), NEW w \in Windows, NEW t
  PROVE  /\ Fn(SetRead(f, w, t)) /\ \A v \in Windows : Doc(SetRead(f, w, t)[v])
         /\ \A v \in Windows : v # w => SetRead(f, w, t)[v] = f[v]
         /\ SetRead(f, w, t)[w].read = t /\ SetRead(f, w, t)[w].text = f[w].text
<1> DEFINE d == [f[w] EXCEPT !.read = t]
<1>1. SetRead(f, w, t) = [f EXCEPT ![w] = d]
  BY DEF SetRead
<1>2. Doc(d) /\ d.read = t /\ d.text = f[w].text
  BY DocChanged
<1> HIDE DEF d
<1>3. Fn(SetRead(f, w, t)) /\ SetRead(f, w, t)[w] = d
      /\ \A v \in Windows : v # w => SetRead(f, w, t)[v] = f[v]
  BY <1>1 DEF Fn
<1> QED
  BY <1>2, <1>3

LEMMA OneRecord ==
  ASSUME NEW p, NEW b, NEW n, NEW c, NEW r \in [pc : {p}, base : {b}, new : {n}, cur : {c}]
  PROVE  r = [pc |-> p, base |-> b, new |-> n, cur |-> c]
  OBVIOUS

LEMMA JobChanged ==
  ASSUME NEW h, HelperOf(h), NEW p, NEW c
  PROVE  /\ HelperOf([h EXCEPT !.pc = p]) /\ [h EXCEPT !.pc = p].pc = p
         /\ [h EXCEPT !.pc = p].base = h.base /\ [h EXCEPT !.pc = p].new = h.new
         /\ [h EXCEPT !.pc = p, !.cur = c]
              = [pc |-> p, base |-> h.base, new |-> h.new, cur |-> c]
<1>1. PICK q, b, n, u : h = [pc |-> q, base |-> b, new |-> n, cur |-> u]
  BY DEF HelperOf
<1>2. [h EXCEPT !.pc = p] = [pc |-> p, base |-> b, new |-> n, cur |-> u]
  BY <1>1
<1>3. [h EXCEPT !.pc = p, !.cur = c] \in [pc : {p}, base : {b}, new : {n}, cur : {c}]
  BY <1>1
<1>4. [h EXCEPT !.pc = p, !.cur = c] = [pc |-> p, base |-> b, new |-> n, cur |-> c]
  BY <1>3, OneRecord
<1> QED
  BY <1>1, <1>2, <1>4 DEF HelperOf

(* The parts of the invariant, where their variables are left alone. *)
LEMMA LostKept == NoLostChange /\ UNCHANGED <<sys, helper, overlap>> => NoLostChange'
  BY DEF NoLostChange

LEMMA OwnLeft ==
  OwnKept /\ UNCHANGED <<own, open, focus, user, dirty, crossed>> => OwnKept'
  BY DEF OwnKept

LEMMA AppliedLeft ==
  Applied /\ UNCHANGED <<open, system, apply, helper, during>> => Applied'
<1> SUFFICES ASSUME Applied, UNCHANGED <<open, system, apply, helper, during>> PROVE Applied'
  OBVIOUS
<1>1. \A w : Changes(system[w])' = Changes(system[w])
  BY DEF Changes, Values
<1> QED
  BY <1>1 DEF Applied

LEMMA ShapeLeft == Shape /\ UNCHANGED <<system, user, helper>> => Shape'
  BY DEF Shape, Fn, Doc, HelperOf
LEMMA FnDomain == ASSUME NEW f, Fn(f) PROVE DOMAIN f = Windows
  BY DEF Fn

-----------------------------------------------------------------------------
(* A window's frames. *)

LEMMA FocusKeeps == ASSUME Inv, NEW w \in Windows, Focus(w) PROVE Inv'
<1> USE DEF Inv
<1>1. /\ w \in open /\ focus' = w
      /\ UNCHANGED <<files, open, dirty, apply, helper, overlap, during, roots>>
  BY DEF Focus
<1>2. /\ Fn(system') /\ \A v \in Windows : v # w => system'[v] = system[v]
      /\ \/ system' = system
         \/ apply[w] # "running" /\ system'[w] = Load(sys)
  BY Replaced DEF Focus, Shape, Put
<1>3. /\ Fn(user') /\ \A v \in Windows : v # w => user'[v] = user[v]
      /\ \/ w \in dirty /\ user' = user /\ crossed' = crossed
         \/ user'[w] = Load(own) /\ crossed' = crossed \ {w}
  BY Replaced DEF Focus, Shape, Put
<1>4. Shape'
  <2>1. \A v \in Windows : Doc(system'[v]) /\ Doc(user'[v])
    BY <1>2, <1>3, Loaded DEF Shape
  <2> QED
    BY <1>1, <1>2, <1>3, <2>1 DEF Shape, Fn, HelperOf
<1>5. TypeOK'
  BY <1>1, <1>2, <1>3, <1>4, FnDomain DEF TypeOK, Shape
<1>6. NoLostChange'
  BY <1>1, LostKept DEF files
<1>7. OwnKept'
  <2> SUFFICES ASSUME NEW v \in open, v = w \/ v \in dirty
               PROVE  own = user'[v].read \/ v \in crossed' \/ own = Garbled
    BY <1>1 DEF OwnKept, files
  <2>1. v \in Windows
    BY DEF TypeOK
  <2>2. CASE v # w
    BY <1>3, <2>1, <2>2 DEF OwnKept
  <2>3. CASE v = w /\ w \in dirty
    BY <1>3, <2>3, Loaded DEF OwnKept
  <2>4. CASE v = w /\ w \notin dirty
    BY <1>3, <2>4, Loaded
  <2> QED
    BY <2>2, <2>3, <2>4
<1>8. Applied'
  <2> SUFFICES ASSUME NEW v \in open, apply[v] \in {"running", "ok"}, v \notin during
               PROVE  system'[v].text = helper[v].new \/ Changes(system'[v]) = {}
    BY <1>1 DEF Applied, Changes, Values
  <2>1. v \in Windows
    BY DEF TypeOK
  <2>2. system'[v] = system[v] \/ system'[v] = Load(sys)
    BY <1>2, <2>1
  <2>3. CASE system'[v] = system[v]
    BY <2>3 DEF Applied
  <2>4. CASE system'[v] = Load(sys)
    BY <2>4, Loaded
  <2> QED
    BY <2>2, <2>3, <2>4
<1> QED
  BY <1>4, <1>5, <1>6, <1>7, <1>8

LEMMA UnfocusKeeps == ASSUME Inv, Unfocus PROVE Inv'
<1>1. UNCHANGED <<files, open, system, user, dirty, apply, helper, ghosts>> /\ focus' = NoWindow
  BY DEF Unfocus
<1>2. NoWindow \notin Windows
  BY WindowsAssumption
<1>3. TypeOK' /\ Shape' /\ NoLostChange' /\ Applied'
  BY <1>1, ShapeLeft, LostKept, AppliedLeft DEF Inv, TypeOK, files, ghosts
<1>4. OwnKept'
  BY <1>1, <1>2 DEF Inv, OwnKept, TypeOK, files, ghosts
<1> QED
  BY <1>3, <1>4 DEF Inv

(* Every system row is one edit of the text that waits. *)
LEMMA SetKeeps == ASSUME Inv, NEW w \in Windows, NEW text, CanSet(w), SetSystem(w, text) PROVE Inv'
<1> USE DEF Inv
<1>1. /\ focus = w /\ w \in open /\ apply[w] \notin {"ok", "refused"}
      /\ UNCHANGED <<files, open, focus, user, dirty, apply, helper, overlap, crossed>>
      /\ during' = IF apply[w] = "running" THEN during \cup {w} ELSE during
  BY FocusOpen DEF CanSet, Ready, SetSystem
<1>2. system' = SetText(system, w, text)
  BY DEF SetSystem, SetText
<1>3. /\ Fn(system') /\ \A v \in Windows : Doc(system'[v])
      /\ \A v \in Windows : v # w => system'[v] = system[v]
  BY <1>2, TextSet DEF Shape
<1>4. Shape'
  BY <1>1, <1>3 DEF Shape, Fn, HelperOf
<1>5. TypeOK'
  BY <1>1, <1>3, FnDomain DEF TypeOK
<1>6. NoLostChange' /\ OwnKept'
  BY <1>1, LostKept, OwnLeft DEF files
<1>7. Applied'
  <2> SUFFICES ASSUME NEW v \in open, apply[v] \in {"running", "ok"}, v \notin during'
               PROVE  system'[v].text = helper[v].new \/ Changes(system'[v]) = {}
    BY <1>1 DEF Applied, Changes, Values
  <2>1. v # w /\ v \notin during /\ v \in Windows
    BY <1>1 DEF TypeOK
  <2> QED
    BY <1>3, <2>1 DEF Applied
<1> QED
  BY <1>4, <1>5, <1>6, <1>7

LEMMA RowSets ==
  ASSUME NEW w \in Windows, RowStep(w)
  PROVE  CanSet(w) /\ \E text : SetSystem(w, text)
<1>1. ASSUME NEW k, NEW v, SystemRow(w, k, v) PROVE CanSet(w) /\ \E text : SetSystem(w, text)
  BY <1>1 DEF SystemRow
<1>2. ASSUME NEW k, NEW v, FieldRow(w, k, v) PROVE CanSet(w) /\ \E text : SetSystem(w, text)
  BY <1>2 DEF FieldRow
<1>3. ASSUME NEW p, PresetRow(w, p) PROVE CanSet(w) /\ \E text : SetSystem(w, text)
  BY <1>3 DEF PresetRow
<1>4. ASSUME RemovePin(w) PROVE CanSet(w) /\ \E text : SetSystem(w, text)
  BY <1>4 DEF RemovePin
<1> QED
  BY <1>1, <1>2, <1>3, <1>4 DEF RowStep

(* A row of the user's leaves what was read, and the window has the focus. *)
LEMMA UserRowKeeps == ASSUME Inv, NEW w \in Windows, UserRowStep(w) PROVE Inv'
<1> USE DEF Inv
<1>1. PICK k, v : UserRow(w, k, v)
  BY DEF UserRowStep
<1>2. /\ focus = w /\ w \in open /\ dirty' = dirty \cup {w}
      /\ UNCHANGED <<files, open, focus, system, apply, helper, ghosts>>
  BY <1>1, FocusOpen DEF UserRow, CanSet, Ready
<1>3. PICK text : user' = SetText(user, w, text)
  <2>1. [user EXCEPT ![w].text = Edit(@, k, Literal(v, UserDefault(w, k)))]
        = [user EXCEPT ![w].text = Edit(user[w].text, k, Literal(v, UserDefault(w, k)))]
    OBVIOUS
  <2> QED
    BY <1>1, <2>1 DEF UserRow, SetText
<1>5. /\ Fn(user') /\ \A v2 \in Windows : Doc(user'[v2])
      /\ user'[w].read = user[w].read
      /\ \A v2 \in Windows : v2 # w => user'[v2] = user[v2]
  BY <1>3, TextSet DEF Shape
<1>6. Shape'
  BY <1>2, <1>5 DEF Shape, Fn, HelperOf
<1>7. TypeOK'
  BY <1>2, <1>5, FnDomain DEF TypeOK, ghosts
<1>8. NoLostChange' /\ Applied'
  BY <1>2, LostKept, AppliedLeft DEF files, ghosts
<1>9. OwnKept'
  <2>1. \A v2 \in Windows : user'[v2].read = user[v2].read
    BY <1>5
  <2> QED
    BY <1>2, <2>1 DEF OwnKept, TypeOK, files, ghosts
<1> QED
  BY <1>6, <1>7, <1>8, <1>9

(* Discard: the text is again the one that was read. *)
LEMMA DiscardKeeps == ASSUME Inv, NEW w \in Windows, Discard(w) PROVE Inv'
<1> USE DEF Inv
<1>1. /\ apply[w] = "idle"
      /\ UNCHANGED <<files, open, focus, user, dirty, apply, helper, ghosts>>
  BY DEF Discard
<1>2. system' = SetText(system, w, TextOf(system[w].read))
  BY DEF Discard, SetText
<1>3. /\ Fn(system') /\ \A v \in Windows : Doc(system'[v])
      /\ \A v \in Windows : v # w => system'[v] = system[v]
  BY <1>2, TextSet DEF Shape
<1>4. Shape'
  BY <1>1, <1>3 DEF Shape, Fn, HelperOf
<1>5. TypeOK'
  BY <1>1, <1>3, FnDomain DEF TypeOK, ghosts
<1>6. NoLostChange' /\ OwnKept'
  BY <1>1, LostKept, OwnLeft DEF files, ghosts
<1>7. Applied'
  <2> SUFFICES ASSUME NEW v \in open, apply[v] \in {"running", "ok"}, v \notin during
               PROVE  system'[v].text = helper[v].new \/ Changes(system'[v]) = {}
    BY <1>1 DEF Applied, Changes, Values, ghosts
  <2>1. v # w /\ v \in Windows
    BY <1>1 DEF TypeOK
  <2> QED
    BY <1>3, <2>1 DEF Applied
<1> QED
  BY <1>4, <1>5, <1>6, <1>7
(* Apply hands over the text that waits: what it was made from goes with it. *)
LEMMA ApplyKeeps == ASSUME Inv, NEW w \in Windows, ApplyNow(w) PROVE Inv'
<1> USE DEF Inv
<1>1. /\ w \in open /\ apply' = [apply EXCEPT ![w] = "running"] /\ during' = during \ {w}
      /\ UNCHANGED <<files, open, focus, system, user, dirty, overlap, crossed>>
  BY FocusOpen DEF ApplyNow, Ready
<1> DEFINE h == [pc |-> "prompt", base |-> system[w].read, new |-> system[w].text, cur |-> Missing]
<1>2. h.pc = "prompt" /\ h.new = system[w].text /\ HelperOf(h)
  BY DEF HelperOf
<1>3. helper' = Put(helper, w, h)
  BY DEF ApplyNow, Put
<1> HIDE DEF h
<1>4. Fn(helper') /\ helper'[w] = h /\ \A v \in Windows : v # w => helper'[v] = helper[v]
  BY <1>3, Replaced DEF Shape
<1>5. Shape'
  BY <1>1, <1>2, <1>4 DEF Shape, Fn, Doc, HelperOf
<1>6. TypeOK'
  BY <1>1, <1>2, <1>4, FnDomain DEF TypeOK
<1>7. NoLostChange'
  BY <1>1, <1>2, <1>4 DEF NoLostChange, files
<1>8. OwnKept'
  BY <1>1, OwnLeft DEF files
<1>9. Applied'
  <2> SUFFICES ASSUME NEW v \in open, apply'[v] \in {"running", "ok"}, v \notin during'
               PROVE  system[v].text = helper'[v].new \/ Changes(system[v]) = {}
    BY <1>1 DEF Applied, Changes, Values
  <2>1. v \in Windows
    BY DEF TypeOK
  <2>2. CASE v = w
    BY <1>2, <1>4, <2>2
  <2>3. CASE v # w
    BY <1>1, <1>4, <2>1, <2>3 DEF Applied, TypeOK
  <2> QED
    BY <2>2, <2>3
<1> QED
  BY <1>5, <1>6, <1>7, <1>8, <1>9

LEMMA TakeKeeps == ASSUME Inv, NEW w \in Windows, TakeResult(w) PROVE Inv'
<1> USE DEF Inv
<1>1. /\ apply' = [apply EXCEPT ![w] = "idle"] /\ during' = during \ {w}
      /\ UNCHANGED <<files, open, focus, user, dirty, helper, overlap, crossed>>
  BY DEF TakeResult
<1>2. /\ Fn(system') /\ \A v \in Windows : v # w => system'[v] = system[v]
      /\ system' = system \/ system'[w] = Load(sys)
  BY Replaced DEF TakeResult, Shape, Put
<1>3. Shape'
  <2>1. \A v \in Windows : Doc(system'[v])
    BY <1>2, Loaded DEF Shape
  <2> QED
    BY <1>1, <1>2, <2>1 DEF Shape, Fn, HelperOf
<1>4. TypeOK'
  BY <1>1, <1>2, FnDomain DEF TypeOK
<1>5. NoLostChange' /\ OwnKept'
  BY <1>1, LostKept, OwnLeft DEF files
<1>6. Applied'
  <2> SUFFICES ASSUME NEW v \in open, apply'[v] \in {"running", "ok"}, v \notin during'
               PROVE  system'[v].text = helper[v].new \/ Changes(system'[v]) = {}
    BY <1>1 DEF Applied, Changes, Values
  <2>1. v # w /\ v \in Windows /\ apply'[v] = apply[v]
    BY <1>1 DEF TypeOK
  <2> QED
    BY <1>1, <1>2, <2>1 DEF Applied
<1> QED
  BY <1>3, <1>4, <1>5, <1>6

(* The user's file. *)
LEMMA SettleKeeps == ASSUME Inv, NEW w \in Windows, Settle(w) PROVE Inv'
<1> USE DEF Inv
<1>1. /\ own' = user[w].text /\ dirty' = dirty \ {w}
      /\ crossed' = (crossed \cup {v \in open : v = focus \/ v \in dirty}) \ {w}
      /\ UNCHANGED <<sys, open, focus, system, apply, helper, overlap, during>>
  BY DEF Settle, OwnWritten
<1>2. user' = SetRead(user, w, user[w].text)
  BY DEF Settle, SetRead
<1>3. /\ Fn(user') /\ \A v \in Windows : Doc(user'[v])
      /\ user'[w].read = user[w].text
  BY <1>2, ReadSet DEF Shape
<1>4. Shape'
  BY <1>1, <1>3 DEF Shape, Fn, HelperOf
<1>5. TypeOK'
  BY <1>1, <1>3, FnDomain DEF TypeOK
<1>6. NoLostChange' /\ Applied'
  BY <1>1, LostKept, AppliedLeft
<1>7. OwnKept'
  BY <1>1, <1>3 DEF OwnKept
<1> QED
  BY <1>4, <1>5, <1>6, <1>7

LEMMA SaveFailsKeeps == ASSUME Inv, NEW w \in Windows, SaveFails(w) PROVE Inv'
<1>1. /\ dirty' = dirty \ {w}
      /\ UNCHANGED <<files, open, focus, system, user, apply, helper, ghosts>>
  BY DEF SaveFails
<1> QED
  BY <1>1, ShapeLeft, LostKept, AppliedLeft DEF Inv, TypeOK, OwnKept, files, ghosts

LEMMA CloseKeeps == ASSUME Inv, NEW w \in Windows, Close(w) PROVE Inv'
<1> USE DEF Inv
<1>1. /\ w \in open /\ open' = open \ {w} /\ focus' = IF focus = w THEN NoWindow ELSE focus
      /\ dirty' = dirty \ {w} /\ during' = during \ {w} /\ apply' = [apply EXCEPT ![w] = "idle"]
      /\ UNCHANGED <<sys, system, user, helper, overlap>>
  BY DEF Close
<1>2. \/ own' = own /\ crossed' = crossed \ {w}
      \/ crossed' = (crossed \cup {v \in open : v = focus \/ v \in dirty}) \ {w}
  BY DEF Close, OwnWritten
<1>3. Shape'
  BY <1>1, ShapeLeft
<1>4. TypeOK'
  <2>1. crossed' \subseteq open'
    BY <1>1, <1>2 DEF TypeOK
  <2> QED
    BY <1>1, <2>1 DEF TypeOK
<1>5. NoLostChange'
  BY <1>1, LostKept
<1>6. OwnKept'
  <2> SUFFICES ASSUME NEW v \in open', v = focus' \/ v \in dirty'
               PROVE  own' = user[v].read \/ v \in crossed' \/ own' = Garbled
    BY <1>1 DEF OwnKept
  <2>1. v \in open /\ v # w /\ (v = focus \/ v \in dirty)
    BY <1>1, WindowsAssumption DEF TypeOK
  <2> QED
    BY <1>2, <2>1 DEF OwnKept
<1>7. Applied'
  <2> SUFFICES ASSUME NEW v \in open', apply'[v] \in {"running", "ok"}, v \notin during'
               PROVE  system[v].text = helper[v].new \/ Changes(system[v]) = {}
    BY <1>1 DEF Applied, Changes, Values
  <2>1. v \in open /\ v # w /\ v \notin during /\ apply'[v] = apply[v]
    BY <1>1 DEF TypeOK
  <2> QED
    BY <1>1, <2>1 DEF Applied
<1> QED
  BY <1>3, <1>4, <1>5, <1>6, <1>7

LEMMA OpenKeeps == ASSUME Inv, NEW w \in Windows, Open(w) PROVE Inv'
<1> USE DEF Inv
<1>1. /\ w \notin open /\ open' = open \cup {w} /\ apply[w] = "idle"
      /\ UNCHANGED <<files, focus, dirty, apply, helper, ghosts>>
  BY DEF Open, TypeOK
<1>0. system' = Put(system, w, Load(sys)) /\ user' = Put(user, w, Load(own))
  BY DEF Open, Put
<1>2. /\ Fn(system') /\ system'[w] = Load(sys)
      /\ \A v \in Windows : v # w => system'[v] = system[v]
  BY <1>0, Replaced DEF Shape
<1>3. /\ Fn(user') /\ user'[w] = Load(own)
      /\ \A v \in Windows : v # w => user'[v] = user[v]
  BY <1>0, Replaced DEF Shape
<1>4. Shape'
  <2>1. \A v \in Windows : Doc(system'[v]) /\ Doc(user'[v])
    BY <1>2, <1>3, Loaded DEF Shape
  <2> QED
    BY <1>1, <1>2, <1>3, <2>1 DEF Shape, Fn, HelperOf
<1>5. TypeOK'
  BY <1>1, <1>2, <1>3, FnDomain DEF TypeOK, ghosts
<1>6. NoLostChange'
  BY <1>1, LostKept DEF files, ghosts
<1>7. OwnKept'
  <2> SUFFICES ASSUME NEW v \in open', v = focus \/ v \in dirty
               PROVE  own = user'[v].read \/ v \in crossed \/ own = Garbled
    BY <1>1 DEF OwnKept, files, ghosts
  <2>1. v \in open /\ v # w /\ v \in Windows
    BY <1>1, WindowsAssumption DEF TypeOK
  <2> QED
    BY <1>3, <2>1 DEF OwnKept
<1>8. Applied'
  <2> SUFFICES ASSUME NEW v \in open', apply[v] \in {"running", "ok"}, v \notin during
               PROVE  system'[v].text = helper[v].new \/ Changes(system'[v]) = {}
    BY <1>1 DEF Applied, Changes, Values, ghosts
  <2>1. v \in open /\ v # w /\ v \in Windows
    BY <1>1 DEF TypeOK
  <2> QED
    BY <1>2, <2>1 DEF Applied
<1> QED
  BY <1>4, <1>5, <1>6, <1>7, <1>8

-----------------------------------------------------------------------------
(* The helpers. *)

(* One that checks has compared the file with what the text was made from. *)
LEMMA ChecksKeeps == ASSUME Inv, NEW w \in Windows, HelperChecks(w) PROVE Inv'
<1> USE DEF Inv
<1>1. /\ helper[w].base = sys /\ overlap' = overlap \ {w}
      /\ UNCHANGED <<files, open, focus, system, user, dirty, apply, during, crossed>>
  BY DEF HelperChecks, Check, windows
<1> DEFINE h == [helper[w] EXCEPT !.pc = "checked", !.cur = sys]
<1>2. helper' = Put(helper, w, h)
  BY DEF HelperChecks, Put, Shape, Fn
<1>3. h.pc = "checked" /\ h.base = helper[w].base /\ h.new = helper[w].new /\ HelperOf(h)
  <2>1. h = [pc |-> "checked", base |-> helper[w].base, new |-> helper[w].new, cur |-> sys]
    BY JobChanged DEF Shape
  <2> HIDE DEF h
  <2> QED
    BY <2>1 DEF HelperOf
<1> HIDE DEF h
<1>4. Fn(helper') /\ helper'[w] = h /\ \A v \in Windows : v # w => helper'[v] = helper[v]
  BY <1>2, Replaced DEF Shape
<1>5. Shape'
  BY <1>1, <1>3, <1>4 DEF Shape, Fn, Doc, HelperOf
<1>6. TypeOK'
  BY <1>1, <1>3, <1>4, FnDomain DEF TypeOK
<1>7. NoLostChange'
  BY <1>1, <1>3, <1>4 DEF NoLostChange, files
<1>8. OwnKept'
  BY <1>1, OwnLeft DEF files
<1>9. Applied'
  <2>1. \A v \in Windows : helper'[v].new = helper[v].new
    BY <1>3, <1>4
  <2>2. \A v \in open : v \in Windows
    BY DEF TypeOK
  <2> QED
    BY <1>1, <2>1, <2>2 DEF Applied, Changes, Values
<1> QED
  BY <1>5, <1>6, <1>7, <1>8, <1>9

(* One that ends answers its window, and no other helper changes. *)
LEMMA AnswerFacts ==
  ASSUME Inv, NEW w \in Windows, NEW said \in {"ok", "refused"}, Answer(w, said)
  PROVE  /\ Fn(helper') /\ helper'[w].pc = "none"
         /\ \A v \in Windows : HelperOf(helper'[v]) /\ helper'[v].new = helper[v].new
         /\ \A v \in Windows : v # w => helper'[v] = helper[v]
         /\ apply' \in [Windows -> {"idle", "running", "ok", "refused"}]
         /\ \A v \in Windows : apply'[v] = "idle" <=> apply[v] = "idle"
         /\ \A v \in Windows : apply'[v] = "ok" => apply[v] \in {"running", "ok"}
         /\ \A v \in Windows : apply'[v] = "running" => apply[v] = "running"
<1> USE DEF Inv
<1> DEFINE h == [helper[w] EXCEPT !.pc = "none"]
<1>1. helper' = Put(helper, w, h)
  BY DEF Answer, Put
<1>2. h.pc = "none" /\ h.new = helper[w].new /\ HelperOf(h)
  BY JobChanged DEF Shape
<1> HIDE DEF h
<1>3. Fn(helper') /\ helper'[w] = h /\ \A v \in Windows : v # w => helper'[v] = helper[v]
  BY <1>1, Replaced DEF Shape
<1>4. \A v \in Windows : HelperOf(helper'[v]) /\ helper'[v].new = helper[v].new
  BY <1>2, <1>3 DEF Shape
<1>5. /\ apply' \in [Windows -> {"idle", "running", "ok", "refused"}]
      /\ \A v \in Windows : apply'[v] = apply[v] \/ (apply[v] = "running" /\ apply'[v] = said)
  BY DEF Answer, TypeOK
<1> QED
  BY <1>2, <1>3, <1>4, <1>5

(* What an answered helper leaves of the invariant. *)
LEMMA AnswerKeeps ==
  ASSUME Inv, NEW w \in Windows, NEW said \in {"ok", "refused"}, Answer(w, said),
         UNCHANGED <<own, open, focus, system, user, dirty, during, crossed>>,
         overlap' \subseteq Windows,
         \A v \in Windows : v # w /\ helper[v].pc = "checked"
                            => v \in overlap' \/ (sys' = sys /\ overlap' = overlap)
  PROVE  Inv'
<1> USE DEF Inv
<1>1. Shape'
  BY AnswerFacts DEF Shape, Fn, Doc, HelperOf
<1>2. TypeOK'
  BY AnswerFacts, FnDomain DEF TypeOK
<1>3. NoLostChange'
  <2> SUFFICES ASSUME NEW v \in Windows, helper'[v].pc = "checked"
               PROVE  sys' = helper'[v].base \/ v \in overlap'
    BY DEF NoLostChange
  <2>1. v # w /\ helper'[v] = helper[v]
    BY AnswerFacts
  <2> QED
    BY <2>1 DEF NoLostChange
<1>4. OwnKept'
  BY OwnLeft
<1>5. Applied'
  <2>1. \A v \in open : v \in Windows
    BY DEF TypeOK
  <2>2. \A v \in Windows : /\ helper'[v].new = helper[v].new
                           /\ apply'[v] \in {"running", "ok"} => apply[v] \in {"running", "ok"}
    BY AnswerFacts
  <2> QED
    BY <2>1, <2>2 DEF Applied, Changes, Values
<1> QED
  BY <1>1, <1>2, <1>3, <1>4, <1>5

LEMMA HelperKeeps == ASSUME Inv, NEW w \in Windows, HelperStep(w) PROVE Inv'
<1>1. CASE HelperChecks(w)
  BY <1>1, ChecksKeeps
<1>2. CASE HelperRefuses(w)
  BY <1>2, AnswerKeeps DEF HelperRefuses, Inv, TypeOK, files, ghosts
<1>3. CASE HelperWrites(w)
  <2>1. \A v \in Windows : v # w /\ helper[v].pc = "checked" => v \in overlap'
    BY <1>3 DEF HelperWrites, SysWritten
  <2>2. overlap' \subseteq Windows
    BY <1>3 DEF HelperWrites, SysWritten, Inv, TypeOK
  <2> QED
    BY <1>3, <2>1, <2>2, AnswerKeeps DEF HelperWrites
<1> QED
  BY <1>1, <1>2, <1>3 DEF HelperStep
-----------------------------------------------------------------------------
(* The other programs: a write is seen by every helper that has checked,   *)
(* and by every window that has the focus or changes of its own.           *)

LEMMA OthersKeep == ASSUME Inv, OtherStep PROVE Inv'
<1> USE DEF Inv
<1>1. UNCHANGED <<open, focus, system, user, dirty, apply, helper, during>>
  BY DEF OtherStep, ModeReads, ModeWrites, HandWrites, TrayReads, TrayWrites, windows, ghosts
<1>2. Shape' /\ Applied'
  BY <1>1, ShapeLeft, AppliedLeft
<1>3. /\ overlap' \subseteq Windows
      /\ \A w \in Windows : helper[w].pc = "checked"
                              => w \in overlap' \/ (sys' = sys /\ overlap' = overlap)
  <2>1. CASE sys' = sys /\ overlap' = overlap
    BY <2>1 DEF TypeOK
  <2>2. CASE SysWritten({})
    BY <2>2 DEF SysWritten, TypeOK
  <2> QED
    BY <2>1, <2>2 DEF OtherStep, ModeReads, ModeWrites, HandWrites, TrayReads, TrayWrites,
                      files, ghosts
<1>4. /\ crossed' \subseteq open
      /\ \A w \in open : w = focus \/ w \in dirty
                           => w \in crossed' \/ (own' = own /\ crossed' = crossed)
  <2>1. CASE own' = own /\ crossed' = crossed
    BY <2>1 DEF TypeOK
  <2>2. CASE OwnWritten({})
    BY <2>2 DEF OwnWritten, TypeOK
  <2> QED
    BY <2>1, <2>2 DEF OtherStep, ModeReads, ModeWrites, HandWrites, TrayReads, TrayWrites,
                      files, ghosts
<1>5. TypeOK'
  BY <1>1, <1>3, <1>4 DEF TypeOK
<1>6. NoLostChange'
  BY <1>1, <1>3 DEF NoLostChange
<1>7. OwnKept'
  BY <1>1, <1>4 DEF OwnKept
<1> QED
  BY <1>2, <1>5, <1>6, <1>7

LEMMA InvInit == Init => Inv
<1> SUFFICES ASSUME Init PROVE Inv
  OBVIOUS
<1>1. /\ open = Windows /\ focus = NoWindow /\ dirty = {} /\ overlap = {} /\ during = {}
      /\ crossed = {} /\ system = [w \in Windows |-> Load(sys)]
      /\ user = [w \in Windows |-> Load(own)] /\ apply = [w \in Windows |-> "idle"]
      /\ helper = [w \in Windows |-> NoHelper]
  BY DEF Init
<1>2. NoHelper.pc = "none" /\ HelperOf(NoHelper)
  BY DEF NoHelper, HelperOf
<1>3. Shape
  BY <1>1, <1>2, Loaded DEF Shape, Fn
<1>4. TypeOK
  BY <1>1, <1>2 DEF TypeOK
<1>5. NoLostChange
  BY <1>1, <1>2 DEF NoLostChange
<1>6. OwnKept
  BY <1>1, Loaded DEF OwnKept
<1>7. Applied
  BY <1>1 DEF Applied
<1> QED
  BY <1>3, <1>4, <1>5, <1>6, <1>7 DEF Inv

LEMMA InvStep == Inv /\ [Next]_vars => Inv'
<1> SUFFICES ASSUME Inv, [Next]_vars PROVE Inv'
  OBVIOUS
<1>1. CASE Unfocus
  BY <1>1, UnfocusKeeps
<1>2. CASE OtherStep
  BY <1>2, OthersKeep
<1>3. ASSUME NEW w \in Windows, WindowStep(w) PROVE Inv'
  <2>1. CASE RowStep(w)
    <3>1. PICK text : CanSet(w) /\ SetSystem(w, text)
      BY <2>1, RowSets
    <3> QED
      BY <3>1, SetKeeps
  <2> QED
    BY <1>3, <2>1, FocusKeeps, UserRowKeeps, DiscardKeeps, ApplyKeeps, TakeKeeps, SettleKeeps,
       SaveFailsKeeps, CloseKeeps, OpenKeeps DEF WindowStep
<1>4. ASSUME NEW w \in Windows, HelperStep(w) PROVE Inv'
  BY <1>4, HelperKeeps
<1>5. CASE UNCHANGED vars
  BY <1>5, ShapeLeft, LostKept, OwnLeft, AppliedLeft
     DEF Inv, TypeOK, vars, files, windows, ghosts
<1> QED
  BY <1>1, <1>2, <1>3, <1>4, <1>5 DEF Next

(* Type correctness. *)
THEOREM TypeCorrect == Spec => []TypeOK
<1>1. Inv => TypeOK
  BY DEF Inv
<1> QED
  BY <1>1, InvInit, InvStep, PTL DEF Spec

(* config_write.rs:11-12, "so a second writer's change isn't lost", for    *)
(* any number of windows and writers: only what is written between the     *)
(* helper's look at the file and its rename can be.                        *)
THEOREM NoLostChangeHolds == Spec => []NoLostChange
<1>1. Inv => NoLostChange
  BY DEF Inv
<1> QED
  BY <1>1, InvInit, InvStep, PTL DEF Spec

(* A window that saves the user's file undoes only what was written while  *)
(* it had the focus or changes of its own, or what could not be read.      *)
THEOREM OwnKeptHolds == Spec => []OwnKept
<1>1. Inv => OwnKept
  BY DEF Inv
<1> QED
  BY <1>1, InvInit, InvStep, PTL DEF Spec

-----------------------------------------------------------------------------
(* EditsWait. *)

Counted == rows \in Nat
LEMMA CountedStep == Counted /\ [Next]_vars => Counted'
<1> SUFFICES ASSUME Counted, [Next]_vars PROVE Counted'
  OBVIOUS
<1>1. CASE Unfocus \/ OtherStep \/ UNCHANGED vars
  BY <1>1 DEF Counted, Unfocus, OtherStep, ModeReads, ModeWrites, HandWrites, TrayReads, TrayWrites,
              vars, counts
<1>2. ASSUME NEW w \in Windows, HelperStep(w) PROVE Counted'
  BY <1>2 DEF Counted, HelperStep, HelperChecks, HelperRefuses, HelperWrites, counts
<1>3. ASSUME NEW w \in Windows, WindowStep(w) PROVE Counted'
  <2>1. CASE RowStep(w)
    BY <2>1, RowSets DEF SetSystem, Counted
  <2>2. CASE UserRowStep(w)
    BY <2>2 DEF UserRowStep, UserRow, Counted
  <2> QED
    BY <1>3, <2>1, <2>2 DEF WindowStep, Focus, Discard, ApplyNow, TakeResult, Settle, SaveFails,
                           Close, Open, Counted, counts
<1> QED
  BY <1>1, <1>2, <1>3 DEF Next

(* The only reload that finds changes is that of a taken result. *)
LEMMA ReloadsWait ==
  ASSUME Inv, Counted, Next, NEW w \in open \cap open', rows' = rows, system'[w] # system[w],
         Changes(system[w]) # {}, ~Discard(w)
  PROVE  apply[w] = "ok" /\ (w \in during \/ system[w].text = helper[w].new)
<1> USE DEF Inv
<1>0. w \in Windows
  BY DEF TypeOK
<1>1. PICK v \in Windows : WindowStep(v)
  <2>1. CASE Unfocus \/ OtherStep
    BY <2>1 DEF Unfocus, OtherStep, ModeReads, ModeWrites, HandWrites, TrayReads, TrayWrites, windows
  <2>2. CASE \E v \in Windows : HelperStep(v)
    BY <2>2 DEF HelperStep, HelperChecks, HelperRefuses, HelperWrites, windows
  <2> QED
    BY <2>1, <2>2 DEF Next
<1>2. ~RowStep(v) /\ ~UserRowStep(v)
  BY RowSets DEF SetSystem, UserRowStep, UserRow, Counted
<1>3. CASE TakeResult(v)
  <2>1. v = w
    BY <1>0, <1>3 DEF TakeResult, Shape, Fn
  <2>2. apply[w] = "ok"
    BY <1>3, <2>1 DEF TakeResult
  <2> QED
    BY <2>2 DEF Applied
<1>4. CASE Focus(v)
  <2>1. v = w
    BY <1>0, <1>4 DEF Focus, Shape, Fn
  <2> QED
    BY <1>4, <2>1 DEF Focus
<1>5. CASE Discard(v)
  <2>1. v = w
    BY <1>0, <1>5 DEF Discard, Shape, Fn
  <2> QED
    BY <1>5, <2>1
<1>6. CASE Open(v)
  <2>1. v = w
    BY <1>0, <1>6 DEF Open, Shape, Fn
  <2> QED
    BY <1>6, <2>1 DEF Open
<1>7. CASE ApplyNow(v) \/ Settle(v) \/ SaveFails(v) \/ Close(v)
  BY <1>7 DEF ApplyNow, Settle, SaveFails, Close
<1> QED
  BY <1>1, <1>2, <1>3, <1>4, <1>5, <1>6, <1>7 DEF WindowStep

(* window.rs:3-5, "changes wait for one Apply", for any number of windows: *)
(* a reload throws away no change that no Apply has written, but one that  *)
(* was made while the Apply ran.                                           *)
THEOREM EditsWaitHolds == Spec => EditsWait
<1>1. Init => Inv /\ Counted
  BY InvInit DEF Init, Counted
<1>2. (Inv /\ Counted) /\ [Next]_vars => (Inv /\ Counted)'
  BY InvStep, CountedStep
<1>3. (Inv /\ Counted) /\ [Next]_vars
        => [\A w \in open \cap open' :
              (/\ rows' = rows /\ system'[w] # system[w]
               /\ Changes(system[w]) # {} /\ ~Discard(w))
              => apply[w] = "ok" /\ (w \in during \/ system[w].text = helper[w].new)]_vars
  BY ReloadsWait
<1> QED
  BY <1>1, <1>2, <1>3, PTL DEF Spec, EditsWait

-----------------------------------------------------------------------------
(* Texts.  Less is well-founded on Nat, so every set of numbers that is not *)
(* empty has a least one: the first line of a set is one of it, and what    *)
(* fails for some number of lines fails for a first one.                    *)
Less == {p \in Nat \X Nat : p[1] < p[2]}

LEMMA LeastNumber ==
  ASSUME NEW T \in SUBSET Nat, T # {}
  PROVE  \E least \in T : \A n \in T : least <= n
<1>1. IsWellFoundedOn(Less, Nat)
  <2>1. Less = OpToRel(<, Nat)
    BY DEF Less, OpToRel
  <2> QED
    BY <2>1, NatLessThanWellFounded
<1>2. PICK least \in T : \A n \in T : ~(<<n, least>> \in Less)
  BY <1>1, WFMin
<1>3. ASSUME NEW n \in T PROVE least <= n
  <2>1. n < least => <<n, least>> \in Less
    BY DEF Less
  <2> QED
    BY <2>1, <1>2
<1> QED
  BY <1>3

(* The first and the last line of a set. *)
LEMMA FirstIs ==
  ASSUME NEW S \in SUBSET Nat, S # {}
  PROVE  FirstOf(S) \in S /\ \A j \in S : FirstOf(S) <= j
<1>1. \E i \in S : \A j \in S : i <= j
  BY LeastNumber
<1> QED
  BY <1>1 DEF FirstOf

LEMMA LastIs ==
  ASSUME NEW n \in Nat, NEW S \in SUBSET (0..n), S # {}
  PROVE  LastOf(S) \in S /\ \A j \in S : j <= LastOf(S)
<1> DEFINE R == {m \in 0..n : n - m \in S}
<1>1. R \in SUBSET Nat /\ R # {}
  <2>1. PICK i \in S : TRUE
    OBVIOUS
  <2>2. n - i \in 0..n /\ n - (n - i) = i
    BY <2>1
  <2>3. n - i \in R
    BY <2>1, <2>2
  <2>4. R \in SUBSET Nat
    OBVIOUS
  <2> HIDE DEF R
  <2> QED
    BY <2>3, <2>4
<1>2. PICK m \in R : \A r \in R : m <= r
  <2> HIDE DEF R
  <2> QED
    BY <1>1, LeastNumber
<1>3. n - m \in S /\ \A j \in S : j <= n - m
  <2>1. ASSUME NEW j \in S PROVE j <= n - m
    <3>1. n - j \in R
      OBVIOUS
    <3> QED
      BY <3>1, <1>2
  <2> QED
    BY <2>1, <1>2
<1>4. \E i \in S : \A j \in S : j <= i
  BY <1>3
<1> QED
  BY <1>4 DEF LastOf

\* What the definition in Without says of it, for the first lines up to top.
Leaves(f, text, S, top) ==
  f = [n \in 0..top |-> IF n = 0 THEN <<>>
                        ELSE IF n \in S THEN f[n - 1] ELSE Append(f[n - 1], text[n])]

LEMMA LeavesExist ==
  ASSUME NEW text \in Texts, NEW S
  PROVE  \E f : Leaves(f, text, S, Len(text))
<1> DEFINE Unreached == {top \in 0..Len(text) : ~\E f : Leaves(f, text, S, top)}
<1>0. Len(text) \in Nat
  BY DEF Texts
<1>1. SUFFICES ASSUME Unreached # {} PROVE FALSE
  BY <1>0
<1>2. PICK top \in Unreached : \A n \in Unreached : top <= n
  <2>1. Unreached \in SUBSET Nat
    BY <1>0
  <2> HIDE DEF Unreached
  <2> QED
    BY <1>1, <2>1, LeastNumber
<1>3. CASE top = 0
  <2> DEFINE f == [n \in 0..0 |-> <<>>]
  <2>1. Leaves(f, text, S, 0)
    BY DEF Leaves
  <2> QED
    BY <2>1, <1>2, <1>3
<1>4. CASE top # 0
  <2>1. top - 1 \in 0..Len(text) /\ top - 1 \notin Unreached
    BY <1>2, <1>4, <1>0
  <2>2. PICK f : Leaves(f, text, S, top - 1)
    BY <2>1
  <2> DEFINE g == [n \in 0..top |->
                     IF n # top THEN f[n]
                     ELSE IF n \in S THEN f[n - 1] ELSE Append(f[n - 1], text[n])]
  <2>3. ASSUME NEW n \in 0..top
        PROVE  g[n] = IF n = 0 THEN <<>>
                      ELSE IF n \in S THEN g[n - 1] ELSE Append(g[n - 1], text[n])
    <3>1. ASSUME NEW m \in 0..(top - 1)
          PROVE  f[m] = IF m = 0 THEN <<>>
                        ELSE IF m \in S THEN f[m - 1] ELSE Append(f[m - 1], text[m])
      BY <2>2 DEF Leaves
    <3>2. CASE n = top
      BY <3>2, <1>4, <1>2, <1>0
    <3>3. CASE n # top
      <4>1. n \in 0..(top - 1) /\ n - 1 # top /\ (n # 0 => n - 1 \in 0..top)
        BY <3>3, <1>2, <1>0
      <4>2. g[n] = f[n] /\ (n # 0 => g[n - 1] = f[n - 1])
        BY <3>3, <4>1
      <4> HIDE DEF g
      <4> QED
        BY <3>1, <4>1, <4>2
    <3> QED
      BY <3>2, <3>3
  <2>4. Leaves(g, text, S, top)
    BY <2>3 DEF Leaves
  <2> QED
    BY <2>4, <1>2
<1> QED
  BY <1>3, <1>4

LEMMA WithoutIs ==
  ASSUME NEW text \in Texts, NEW S
  PROVE  \E f : Leaves(f, text, S, Len(text)) /\ Without(text, S) = f[Len(text)]
<1>1. \E f : Leaves(f, text, S, Len(text))
  BY LeavesExist
<1> DEFINE left == CHOOSE f : Leaves(f, text, S, Len(text))
<1>2. Leaves(left, text, S, Len(text))
  BY <1>1
<1>3. Without(text, S) = left[Len(text)]
  BY DEF Without, Leaves
<1> QED
  BY <1>2, <1>3

\* left is text without some lines: at says where each of its lines was.
Picks(at, text, S, left, top) ==
  /\ left \in Texts
  /\ at \in [1..Len(left) -> (1..top) \ S]
  /\ \A p, q \in 1..Len(left) : p < q => at[p] < at[q]
  /\ \A p \in 1..Len(left) : left[p] = text[at[p]]
  /\ \A i \in (1..top) \ S : \E p \in 1..Len(left) : at[p] = i

LEMMA PicksNext ==
  ASSUME NEW text \in Texts, NEW S, NEW left, NEW at, NEW top \in Nat, top < Len(text),
         Picks(at, text, S, left, top)
  PROVE  IF top + 1 \in S THEN Picks(at, text, S, left, top + 1)
         ELSE \E new : Picks(new, text, S, Append(left, text[top + 1]), top + 1)
<1>1. CASE top + 1 \in S
  <2>1. (1..(top + 1)) \ S = (1..top) \ S
    BY <1>1
  <2> QED
    BY <1>1, <2>1 DEF Picks
<1>2. CASE top + 1 \notin S
  <2> DEFINE longer == Append(left, text[top + 1])
             n == Len(left)
             new == [p \in 1..(n + 1) |-> IF p = n + 1 THEN top + 1 ELSE at[p]]
  <2>1. text[top + 1] \in Line
    BY DEF Texts
  <2>2. left \in Seq(Line) /\ n \in Nat
    BY DEF Picks, Texts
  <2>3. longer \in Texts /\ Len(longer) = n + 1 /\ longer[n + 1] = text[top + 1]
        /\ \A p \in 1..n : longer[p] = left[p]
    BY <2>1, <2>2 DEF Texts
  <2>4. new \in [1..(n + 1) -> (1..(top + 1)) \ S]
    BY <1>2, <2>2 DEF Picks
  <2>5. ASSUME NEW p \in 1..(n + 1), NEW q \in 1..(n + 1), p < q PROVE new[p] < new[q]
    <3>1. p \in 1..n /\ new[p] = at[p] /\ at[p] \in 1..top
      BY <2>2, <2>5 DEF Picks
    <3>2. CASE q = n + 1
      BY <3>1, <3>2, <2>2
    <3>3. CASE q # n + 1
      <4>1. q \in 1..n /\ new[q] = at[q]
        BY <3>3, <2>2
      <4> QED
        BY <2>5, <3>1, <4>1 DEF Picks
    <3> QED
      BY <3>2, <3>3
  <2>6. ASSUME NEW p \in 1..(n + 1) PROVE longer[p] = text[new[p]]
    BY <2>2, <2>3 DEF Picks
  <2>7. ASSUME NEW i \in (1..(top + 1)) \ S PROVE \E p \in 1..(n + 1) : new[p] = i
    <3>1. CASE i = top + 1
      BY <3>1, <2>2
    <3>2. CASE i # top + 1
      <4>1. i \in (1..top) \ S
        BY <3>2
      <4>2. PICK p \in 1..n : at[p] = i
        BY <4>1 DEF Picks
      <4> QED
        BY <4>2, <2>2
    <3> QED
      BY <3>1, <3>2
  <2>8. Picks(new, text, S, longer, top + 1)
    <3> HIDE DEF longer, new
    <3> QED
      BY <2>3, <2>4, <2>5, <2>6, <2>7 DEF Picks
  <2> QED
    BY <1>2, <2>8
<1> QED
  BY <1>1, <1>2

LEMMA WithoutPicks ==
  ASSUME NEW text \in Texts, NEW S
  PROVE  \E at : Picks(at, text, S, Without(text, S), Len(text))
<1>0. Len(text) \in Nat
  BY DEF Texts
<1>1. PICK f : Leaves(f, text, S, Len(text)) /\ Without(text, S) = f[Len(text)]
  BY WithoutIs
<1> DEFINE Bad == {n \in 0..Len(text) : ~\E at : Picks(at, text, S, f[n], n)}
<1>2. SUFFICES ASSUME Bad # {} PROVE FALSE
  BY <1>0, <1>1
<1>3. PICK n \in Bad : \A m \in Bad : n <= m
  <2>1. Bad \in SUBSET Nat
    BY <1>0
  <2> HIDE DEF Bad
  <2> QED
    BY <1>2, <2>1, LeastNumber
<1>4. CASE n = 0
  <2>1. f[0] = <<>>
    BY <1>0, <1>1 DEF Leaves
  <2>2. Picks(<<>>, text, S, <<>>, 0)
    BY DEF Picks, Texts
  <2> QED
    BY <1>3, <1>4, <2>1, <2>2
<1>5. CASE n # 0
  <2>1. n - 1 \in 0..Len(text) /\ n - 1 \notin Bad /\ n - 1 \in Nat /\ n - 1 < Len(text)
        /\ (n - 1) + 1 = n
    BY <1>0, <1>3, <1>5
  <2>2. PICK at : Picks(at, text, S, f[n - 1], n - 1)
    BY <2>1
  <2>3. f[n] = IF n \in S THEN f[n - 1] ELSE Append(f[n - 1], text[n])
    BY <1>1, <1>3, <1>5, <1>0 DEF Leaves
  <2>4. IF n \in S THEN Picks(at, text, S, f[n - 1], n)
        ELSE \E new : Picks(new, text, S, Append(f[n - 1], text[n]), n)
    BY <2>1, <2>2, PicksNext
  <2> QED
    BY <1>3, <2>3, <2>4
<1> QED
  BY <1>4, <1>5

(* Dropping lines that are no headers leaves every other line in its table.  *)
LEMMA TablesStay ==
  ASSUME NEW text \in Texts, NEW S, S \cap Headers(text) = {}, NEW left, NEW at,
         Picks(at, text, S, left, Len(text)), NEW p \in 1..Len(left)
  PROVE  TableAt(left, p) = TableAt(text, at[p])
<1>0. Len(text) \in Nat /\ left \in Texts /\ Len(left) \in Nat
  BY DEF Texts, Picks
<1>1. /\ \A q \in 1..Len(left) : at[q] \in 1..Len(text) /\ left[q] = text[at[q]]
      /\ \A q, r \in 1..Len(left) : q < r => at[q] < at[r]
      /\ \A i \in 1..Len(text) : i \notin S => \E q \in 1..Len(left) : at[q] = i
  BY DEF Picks
<1>2. \A q, r \in 1..Len(left) : q <= r <=> at[q] <= at[r]
  BY <1>0, <1>1
<1>3. ASSUME NEW q \in Above(left, p) PROVE at[q] \in Above(text, at[p])
  BY <1>0, <1>1, <1>2 DEF Above, Headers
<1>4. ASSUME NEW h \in Above(text, at[p]) PROVE \E q \in Above(left, p) : at[q] = h
  <2>1. h \in 1..Len(text) /\ h \notin S /\ text[h].kind = "header" /\ h <= at[p]
    BY DEF Above, Headers
  <2>2. PICK q \in 1..Len(left) : at[q] = h
    BY <1>1, <2>1
  <2> QED
    BY <1>1, <1>2, <2>1, <2>2 DEF Above, Headers
<1>5. CASE Above(left, p) = {}
  BY <1>4, <1>5 DEF TableAt
<1>6. CASE Above(left, p) # {}
  <2> DEFINE l == LastOf(Above(left, p))
  <2>1. l \in Above(left, p) /\ \A q \in Above(left, p) : q <= l
    <3>1. Above(left, p) \in SUBSET (0..Len(left))
      BY <1>0 DEF Above, Headers
    <3> QED
      BY <1>0, <1>6, <3>1, LastIs
  <2>2. Above(text, at[p]) \in SUBSET (0..Len(text)) /\ Above(text, at[p]) # {}
    BY <1>0, <1>3, <1>6 DEF Above, Headers
  <2> DEFINE t == LastOf(Above(text, at[p]))
  <2>3. t \in Above(text, at[p]) /\ \A h \in Above(text, at[p]) : h <= t
    BY <1>0, <2>2, LastIs
  <2> HIDE DEF l, t
  <2>4. at[l] = t
    <3>1. at[l] <= t
      BY <1>3, <2>1, <2>3
    <3>2. PICK q \in Above(left, p) : at[q] = t
      BY <1>4, <2>3
    <3>3. q <= l /\ q \in 1..Len(left) /\ l \in 1..Len(left)
      BY <2>1, <3>2 DEF Above, Headers
    <3>4. t <= at[l]
      BY <1>2, <3>2, <3>3
    <3>5. t \in 1..Len(text) /\ at[l] \in 1..Len(text)
      BY <1>1, <2>3, <3>3 DEF Above, Headers
    <3> QED
      BY <1>0, <3>1, <3>4, <3>5
  <2>5. left[l].name = text[t].name
    BY <1>1, <2>1, <2>4 DEF Above, Headers
  <2> QED
    BY <1>6, <2>2, <2>5 DEF TableAt, l, t
<1> QED
  BY <1>5, <1>6

(* Lines put at the end leave every other line in its table.                 *)
LEMMA TablesAppend ==
  ASSUME NEW text \in Texts, NEW more \in Seq(Line), NEW longer, longer = text \o more,
         NEW p \in 1..Len(text)
  PROVE  TableAt(longer, p) = TableAt(text, p)
<1>1. \A q \in 1..Len(text) : longer[q] = text[q]
  BY ConcatProperties DEF Texts
<1>2. Len(text) \in Nat /\ Len(more) \in Nat /\ Len(longer) = Len(text) + Len(more)
  BY ConcatProperties DEF Texts
<1>3. Above(longer, p) = Above(text, p) /\ Above(text, p) \in SUBSET (0..Len(text))
  BY <1>1, <1>2 DEF Above, Headers
<1>4. CASE Above(text, p) = {}
  BY <1>3, <1>4 DEF TableAt
<1>5. CASE Above(text, p) # {}
  <2>1. LastOf(Above(text, p)) \in Above(text, p)
    BY <1>2, <1>3, <1>5, LastIs
  <2>2. LastOf(Above(text, p)) \in 1..Len(text)
    BY <2>1 DEF Above, Headers
  <2> QED
    BY <1>1, <1>3, <1>5, <2>2 DEF TableAt
<1> QED
  BY <1>4, <1>5

(* The table of a line is a name. *)
LEMMA TableType ==
  ASSUME NEW text \in Texts, NEW i
  PROVE  TableAt(text, i) \in Seq(Words)
<1>1. Len(text) \in Nat
  BY DEF Texts
<1>2. CASE Above(text, i) = {}
  BY <1>2 DEF TableAt, NoName
<1>3. CASE Above(text, i) # {}
  <2>1. Above(text, i) \in SUBSET (0..Len(text))
    BY <1>1 DEF Above, Headers
  <2>2. LastOf(Above(text, i)) \in Above(text, i)
    BY <1>1, <1>3, <2>1, LastIs
  <2>3. LastOf(Above(text, i)) \in 1..Len(text)
    BY <2>2 DEF Above, Headers
  <2>4. text[LastOf(Above(text, i))] \in Line
    BY <2>3 DEF Texts
  <2> QED
    BY <1>3, <2>4 DEF TableAt, Line
<1> QED
  BY <1>2, <1>3

(* A full name of one word is the name of a line above all headers.          *)
LEMMA OneWord ==
  ASSUME NEW t \in Seq(Words), NEW name \in Seq(Words) \ {NoName}, NEW k, t \o name = <<k>>
  PROVE  t = NoName /\ name = <<k>>
<1>1. Len(t) + Len(name) = 1
  <2>1. Len(t \o name) = Len(t) + Len(name)
    BY ConcatProperties
  <2>2. Len(<<k>>) = 1
    OBVIOUS
  <2> QED
    BY <2>1, <2>2
<1>2. Len(name) # 0 /\ Len(t) \in Nat /\ Len(name) \in Nat
  BY EmptySeq DEF NoName
<1>3. Len(t) = 0
  BY <1>1, <1>2
<1>4. t = <<>>
  BY <1>3, EmptySeq
<1> QED
  BY <1>4, ConcatEmptySeq DEF NoName

-----------------------------------------------------------------------------
(* Texts stay texts.                                                         *)
LEMMA CommentOutType ==
  ASSUME NEW text \in Texts, NEW S
  PROVE  CommentOut(text, S) \in Texts /\ Len(CommentOut(text, S)) = Len(text)
<1>1. ASSUME NEW i \in 1..Len(text) PROVE text[i] \in Line /\ Example(text[i].name) \in Line
  <2>1. text[i] \in Line
    BY DEF Texts
  <2> QED
    BY <2>1 DEF Line, Example
<1>2. Len(text) \in Nat
  BY DEF Texts
<1>3. \A i \in 1..Len(text) : (IF i \in S THEN Example(text[i].name) ELSE text[i]) \in Line
  BY <1>1
<1>4. CommentOut(text, S) \in Texts
  BY <1>2, <1>3 DEF CommentOut, Texts
<1>5. Len(CommentOut(text, S)) = Len(text)
  BY <1>2 DEF CommentOut
<1> QED
  BY <1>4, <1>5

LEMMA ReplaceType ==
  ASSUME NEW text \in Texts, NEW i \in 1..Len(text), NEW line \in Line
  PROVE  Replace(text, i, line) \in Texts /\ Len(Replace(text, i, line)) = Len(text)
  BY ExceptSeq DEF Replace, Texts

LEMMA InsertType ==
  ASSUME NEW text \in Texts, NEW at \in 0..Len(text), NEW line \in Line
  PROVE  Insert(text, at, line) \in Texts
<1>1. text \in Seq(Line) /\ Len(text) \in Nat
  BY DEF Texts
<1>2. SubSeq(text, 1, at) \in Seq(Line)
  <2>1. \A i \in 1..at : text[i] \in Line
    BY <1>1
  <2> QED
    BY <1>1, <2>1, SubSeqProperties
<1>3. SubSeq(text, at + 1, Len(text)) \in Seq(Line)
  <2>1. \A i \in (at + 1)..Len(text) : text[i] \in Line
    BY <1>1
  <2> QED
    BY <1>1, <2>1, SubSeqProperties
<1>4. <<line>> \in Seq(Line)
  OBVIOUS
<1> QED
  BY <1>2, <1>3, <1>4, ConcatProperties DEF Insert, Texts

LEMMA KeyNames ==
  ASSUME NEW k \in Keys
  PROVE  Written(k) \in Seq(Words) \ {NoName} /\ <<Inner(k)>> \in Seq(Words) \ {NoName}
<1>1. k \in Words /\ Inner(k) \in Words
  BY DEF Words, Keys, Settings, Floors, Inner
<1>2. k \in DOMAIN Table => Table[k] \in Words
  BY DEF Table, Words
<1>3. k # "preset" => <<k>> \in Seq(Words) \ {<<>>}
  BY <1>1
<1>4. k \in DOMAIN Table => <<Table[k], Inner(k)>> \in Seq(Words) \ {<<>>}
  BY <1>1, <1>2
<1>5. <<Inner(k)>> \in Seq(Words) \ {<<>>}
  BY <1>1
<1>6. k = "preset" => k \in DOMAIN Table
  BY DEF Table
<1>7. CASE k \in DOMAIN Table
  BY <1>4, <1>5, <1>7 DEF Written, Group, NoName
<1>8. CASE k \notin DOMAIN Table
  BY <1>3, <1>5, <1>6, <1>8 DEF Written, Group, Flat, NoName
<1> QED
  BY <1>7, <1>8

LEMMA AssignType ==
  ASSUME NEW name \in Seq(Words) \ {NoName}, NEW v \in Int
  PROVE  Assign(name, v) \in Line
  BY DEF Assign, Line

\* Places in a text.
LEMMA Places ==
  ASSUME NEW text \in Texts
  PROVE  /\ Len(text) \in Nat
         /\ KeyLines(text) \in SUBSET (1..Len(text)) /\ Headers(text) \in SUBSET (1..Len(text))
         /\ TopEnd(text) \in 0..Len(text)
         /\ \A h \in 1..Len(text) : TableEnd(text, h) \in h..Len(text)
         /\ \A from \in 0..Len(text) : \A to \in Int :
              /\ LastContent(text, from, to) \in 0..Len(text)
              /\ LastContent(text, from, to) # from => LastContent(text, from, to) \in (from + 1)..to
<1>1. /\ Len(text) \in Nat
      /\ KeyLines(text) \in SUBSET (1..Len(text)) /\ Headers(text) \in SUBSET (1..Len(text))
  BY DEF Texts, KeyLines, Headers
<1>2. TopEnd(text) \in 0..Len(text)
  <2>1. CASE Headers(text) = {}
    BY <1>1, <2>1 DEF TopEnd
  <2>2. CASE Headers(text) # {}
    <3>1. Headers(text) \in SUBSET Nat
      BY <1>1
    <3>2. FirstOf(Headers(text)) \in Headers(text)
      BY <2>2, <3>1, FirstIs
    <3> QED
      BY <1>1, <2>2, <3>2 DEF TopEnd
  <2> QED
    BY <2>1, <2>2
<1>3. ASSUME NEW h \in 1..Len(text) PROVE TableEnd(text, h) \in h..Len(text)
  <2> DEFINE next == {g \in Headers(text) : g > h}
  <2>1. CASE next = {}
    BY <1>1, <2>1 DEF TableEnd
  <2>2. CASE next # {}
    <3>1. next \in SUBSET Nat
      BY <1>1
    <3>2. FirstOf(next) \in next
      <4> HIDE DEF next
      <4> QED
        BY <2>2, <3>1, FirstIs
    <3>3. FirstOf(next) > h /\ FirstOf(next) \in 1..Len(text)
      BY <1>1, <3>2
    <3> QED
      BY <1>1, <2>2, <3>3 DEF TableEnd
  <2> QED
    BY <2>1, <2>2
<1>4. ASSUME NEW from \in 0..Len(text), NEW to \in Int
      PROVE  /\ LastContent(text, from, to) \in 0..Len(text)
             /\ LastContent(text, from, to) # from => LastContent(text, from, to) \in (from + 1)..to
  <2> DEFINE held == {i \in KeyLines(text) : from < i /\ i <= to}
  <2>1. CASE held = {}
    BY <1>1, <2>1 DEF LastContent
  <2>2. CASE held # {}
    <3>1. held \in SUBSET (0..Len(text))
      BY <1>1
    <3>2. LastOf(held) \in held
      <4> HIDE DEF held
      <4> QED
        BY <1>1, <2>2, <3>1, LastIs
    <3>3. LastOf(held) \in 0..Len(text) /\ LastOf(held) \in (from + 1)..to
      BY <1>1, <3>1, <3>2
    <3> QED
      BY <2>2, <3>3 DEF LastContent
  <2> QED
    BY <2>1, <2>2
<1> QED
  BY <1>1, <1>2, <1>3, <1>4

LEMMA WinnerIs ==
  ASSUME NEW text \in Texts, NEW k, Active(text, k) # {}
  PROVE  Winner(text, k) \in Active(text, k) /\ Winner(text, k) \in 1..Len(text)
<1> DEFINE flat == {i \in Active(text, k) : FullName(text, i) = Flat(k)}
           from == IF flat # {} THEN flat ELSE Active(text, k)
<1>0. Active(text, k) \subseteq 1..Len(text) /\ Len(text) \in Nat
  BY Places DEF Active
<1>1. from \in SUBSET Nat /\ from # {} /\ from \subseteq Active(text, k)
  BY <1>0
<1>2. FirstOf(from) \in from
  <2> HIDE DEF from
  <2> QED
    BY <1>1, FirstIs
<1> QED
  BY <1>0, <1>1, <1>2 DEF Winner

LEMMA EditType ==
  ASSUME NEW text \in Texts, NEW k \in Keys, NEW v \in Int \cup {Unset}
  PROVE  Edit(text, k, v) \in Texts
<1>1. CASE v = Unset
  BY <1>1, CommentOutType DEF Edit
<1>2. CASE v # Unset /\ Active(text, k) # {}
  <2> DEFINE w == Winner(text, k)
             rest == CommentOut(text, Active(text, k) \ {w})
  <2>1. w \in 1..Len(text) /\ text[w] \in Line
    BY <1>2, WinnerIs DEF Texts
  <2>2. Assign(text[w].name, v) \in Line
    BY <1>2, <2>1, AssignType DEF Line
  <2>3. rest \in Texts /\ Len(rest) = Len(text)
    BY CommentOutType
  <2> HIDE DEF w, rest
  <2>4. Replace(rest, w, Assign(text[w].name, v)) \in Texts
    BY <2>1, <2>2, <2>3, ReplaceType
  <2> QED
    BY <1>2, <2>4 DEF Edit, w, rest
<1>3. CASE v # Unset /\ Active(text, k) = {}
  <2>1. Assign(<<Inner(k)>>, v) \in Line /\ Assign(Written(k), v) \in Line
    BY <1>3, KeyNames, AssignType
  <2>2. CASE Opened(text, k) # {}
    <3> DEFINE h == FirstOf(Opened(text, k))
    <3>0. Opened(text, k) \subseteq 1..Len(text) /\ Len(text) \in Nat
      BY Places DEF Opened
    <3>1. Opened(text, k) \in SUBSET Nat
      BY <3>0
    <3>2. h \in 1..Len(text)
      BY <2>2, <3>0, <3>1, FirstIs
    <3> HIDE DEF h
    <3>3. TableEnd(text, h) \in h..Len(text)
      BY <3>2, Places
    <3>4. LastContent(text, h, TableEnd(text, h)) \in 0..Len(text)
      BY <3>2, <3>3, Places
    <3>5. Insert(text, LastContent(text, h, TableEnd(text, h)), Assign(<<Inner(k)>>, v)) \in Texts
      BY <2>1, <3>4, InsertType
    <3> QED
      BY <1>3, <2>2, <3>5 DEF Edit, Add, h
  <2>3. CASE Opened(text, k) = {} /\ Examples(text, k) # {}
    <3>0. Examples(text, k) \subseteq 1..Len(text) /\ Len(text) \in Nat
      BY Places DEF Examples
    <3>1. Examples(text, k) \in SUBSET Nat
      BY <3>0
    <3>2. FirstOf(Examples(text, k)) \in 1..Len(text)
      BY <2>3, <3>0, <3>1, FirstIs
    <3>3. Replace(text, FirstOf(Examples(text, k)), Assign(Written(k), v)) \in Texts
      BY <2>1, <3>2, ReplaceType
    <3> QED
      BY <1>3, <2>3, <3>3 DEF Edit, Add
  <2>4. CASE Opened(text, k) = {} /\ Examples(text, k) = {}
    <3>1. (IF Headers(text) = {} THEN Len(text) ELSE LastContent(text, 0, TopEnd(text)))
             \in 0..Len(text)
      BY Places
    <3> QED
      BY <1>3, <2>1, <2>4, <3>1, InsertType DEF Edit, Add
  <2> QED
    BY <2>2, <2>3, <2>4
<1> QED
  BY <1>1, <1>2, <1>3

LEMMA WithMinutesType ==
  ASSUME NEW text \in Texts, NEW minutes \in Int
  PROVE  WithMinutes(text, minutes) \in Texts
<1> DEFINE line == Assign(Flat("tray_idle"), minutes)
           held == {i \in KeyLines(text) : i <= TopEnd(text) /\ text[i].name = Flat("tray_idle")}
<1>1. line \in Line
  <2>1. Written("tray_idle") = Flat("tray_idle") /\ "tray_idle" \in Keys
    BY DEF Written, Group, Table, Keys
  <2> QED
    BY <2>1, KeyNames, AssignType
<1>2. held \subseteq 1..Len(text) /\ held \in SUBSET Nat
  <2>1. held \subseteq 1..Len(text) /\ Len(text) \in Nat
    BY Places
  <2> HIDE DEF held
  <2> QED
    BY <2>1
<1>3. CASE held = {}
  <2>1. <<line>> \o text \in Texts
    BY <1>1 DEF Texts
  <2> QED
    BY <1>3, <2>1 DEF WithMinutes
<1>4. CASE held # {}
  <2>1. FirstOf(held) \in 1..Len(text)
    <3> HIDE DEF held
    <3> QED
      BY <1>2, <1>4, FirstIs
  <2>2. Replace(text, FirstOf(held), line) \in Texts
    BY <1>1, <2>1, ReplaceType
  <2> QED
    BY <1>4, <2>2 DEF WithMinutes
<1> QED
  BY <1>3, <1>4

(* The script's text: lines of the old text, each in the same table and      *)
(* under the same name, and then those of the parts.                         *)
ModeText(text, new, parts, n) ==
  /\ new \in Texts /\ n \in Nat /\ Len(new) = n + Len(parts)
  /\ \A p \in 1..n : \E i \in 1..Len(text) :
       new[p] = text[i] /\ TableAt(new, p) = TableAt(text, i)
  /\ \A p \in 1..Len(parts) : new[n + p] = Assign(Written(parts[p].key), parts[p].value)

LEMMA SetModeIs ==
  ASSUME NEW text \in Texts, NEW parts \in Seq(Part)
  PROVE  \E n : ModeText(text, SetMode(text, parts), parts, n)
<1> DEFINE names == UNION {Names(parts[n].key) : n \in 1..Len(parts)}
           S == {i \in KeyLines(text) : text[i].name \in names}
           left == Without(text, S)
           more == [n \in 1..Len(parts) |-> Assign(Written(parts[n].key), parts[n].value)]
           new == SetMode(text, parts)
<1>1. S \cap Headers(text) = {}
  BY DEF KeyLines, Headers
<1>2. more \in Seq(Line) /\ Len(more) = Len(parts) /\ Len(parts) \in Nat
  <2>1. ASSUME NEW n \in 1..Len(parts)
        PROVE  Assign(Written(parts[n].key), parts[n].value) \in Line
    <3>1. parts[n] \in Part
      OBVIOUS
    <3>2. parts[n].key \in Keys /\ parts[n].value \in Int
      BY <3>1 DEF Part
    <3> QED
      BY <3>2, KeyNames, AssignType
  <2> QED
    BY <2>1
<1>3. PICK at : Picks(at, text, S, left, Len(text))
  <2>1. S \subseteq KeyLines(text)
    OBVIOUS
  <2> QED
    BY WithoutPicks
<1>5. new = left \o more
  BY DEF SetMode
<1>6. \A n \in 1..Len(parts) : more[n] = Assign(Written(parts[n].key), parts[n].value)
  OBVIOUS
<1> HIDE DEF names, S, left, more, new
<1>4. left \in Texts /\ Len(left) \in Nat
      /\ \A p \in 1..Len(left) : left[p] = text[at[p]] /\ at[p] \in 1..Len(text)
  <2>1. left \in Texts /\ \A p \in 1..Len(left) : left[p] = text[at[p]]
    BY <1>3, Zenon DEF Picks
  <2>2. at \in [1..Len(left) -> (1..Len(text)) \ S]
    BY <1>3, Zenon DEF Picks
  <2>3. ASSUME NEW p \in 1..Len(left) PROVE at[p] \in 1..Len(text)
    BY ONLY <2>2
  <2>4. Len(left) \in Nat
    BY ONLY <2>1 DEF Texts
  <2> QED
    BY <2>1, <2>3, <2>4, Zenon
<1>7. /\ new \in Texts /\ Len(new) = Len(left) + Len(more)
      /\ \A p \in 1..Len(left) : new[p] = left[p]
      /\ \A n \in 1..Len(more) : new[Len(left) + n] = more[n]
  <2>1. /\ left \o more \in Seq(Line) /\ Len(left \o more) = Len(left) + Len(more)
        /\ \A i \in 1..Len(left) + Len(more) :
             (left \o more)[i] = IF i <= Len(left) THEN left[i] ELSE more[i - Len(left)]
    <3>1. left \in Seq(Line) /\ more \in Seq(Line)
      BY <1>2, <1>4 DEF Texts
    <3> QED
      BY ONLY <3>1, ConcatProperties, Zenon
  <2>2. ASSUME NEW n \in 1..Len(more) PROVE new[Len(left) + n] = more[n]
    <3>1. Len(left) + n \in 1..Len(left) + Len(more) /\ ~(Len(left) + n <= Len(left))
          /\ Len(left) + n - Len(left) = n
      BY <1>2, <1>4
    <3> QED
      BY <1>5, <2>1, <3>1
  <2>3. \A p \in 1..Len(left) : new[p] = left[p]
    BY <1>2, <1>4, <1>5, <2>1
  <2> QED
    BY <1>5, <2>1, <2>2, <2>3 DEF Texts
<1>8. ASSUME NEW p \in 1..Len(left)
      PROVE  \E i \in 1..Len(text) : new[p] = text[i] /\ TableAt(new, p) = TableAt(text, i)
  <2>1. new[p] = left[p] /\ TableAt(new, p) = TableAt(left, p)
    BY <1>2, <1>4, <1>5, <1>7, TablesAppend
  <2>2. TableAt(left, p) = TableAt(text, at[p])
    BY <1>1, <1>3, TablesStay
  <2> QED
    BY <1>4, <2>1, <2>2
<1>9. ModeText(text, new, parts, Len(left))
  BY <1>2, <1>4, <1>6, <1>7, <1>8 DEF ModeText
<1> QED
  BY <1>9 DEF new

-----------------------------------------------------------------------------
(* Every text is one: the files', the windows', what waits to be written.   *)
OnDisk == Texts \cup {Missing, Garbled}

TextsTyped ==
  /\ sys \in OnDisk /\ own \in OnDisk
  /\ mode \in Texts \cup {Missing} /\ tray \in Texts \cup {Missing}
  /\ \A w \in Windows : /\ system[w].text \in Texts /\ system[w].read \in OnDisk
                        /\ user[w].text \in Texts /\ helper[w].new \in Texts

LEMMA FileText ==
  ASSUME NEW file \in OnDisk
  PROVE  /\ TextOf(file) \in Texts
         /\ Load(file).text \in Texts /\ Load(file).read \in OnDisk
  BY DEF TextOf, Load, OnDisk, Texts

LEMMA PickedType ==
  ASSUME NEW k \in DOMAIN Offered, NEW v \in Offered[k], NEW default
  PROVE  k \in Keys /\ v \in Int /\ Literal(v, default) \in Int \cup {Unset}
  BY OfferedAssumption DEF Literal

LEMMA RowTyped ==
  ASSUME TextsTyped, NEW w \in Windows, RowStep(w)
  PROVE  \E text \in Texts : SetSystem(w, text)
<1>0. system[w].text \in Texts
  BY DEF TextsTyped
<1>1. ASSUME NEW k, NEW v, SystemRow(w, k, v) PROVE \E text \in Texts : SetSystem(w, text)
  <2>1. k \in DOMAIN Offered /\ v \in Offered[k]
    BY <1>1 DEF SystemRow, Within
  <2>2. Edit(system[w].text, k, Literal(v, RowOf(k).default)) \in Texts
    BY <1>0, <2>1, PickedType, EditType
  <2> QED
    BY <1>1, <2>2 DEF SystemRow
<1>2. ASSUME NEW k, NEW v, FieldRow(w, k, v) PROVE \E text \in Texts : SetSystem(w, text)
  <2>1. k \in Keys /\ v \in Int \cup {Unset}
    BY <1>2, OfferedAssumption DEF FieldRow
  <2>2. Edit(system[w].text, k, v) \in Texts
    BY <1>0, <2>1, EditType
  <2> QED
    BY <1>2, <2>2 DEF FieldRow
<1>3. ASSUME NEW p, PresetRow(w, p) PROVE \E text \in Texts : SetSystem(w, text)
  <2>1. "motion" \in Keys /\ "residual" \in Keys /\ "preset" \in Keys
    BY DEF Keys, Settings, Floors
  <2>2. Edit(Edit(system[w].text, "motion", Unset), "residual", Unset) \in Texts
    BY <1>0, <2>1, EditType
  <2>3. Literal(p, 2) \in Int \cup {Unset}
    BY <1>3, PickedType DEF PresetRow
  <2>4. Edit(Edit(Edit(system[w].text, "motion", Unset), "residual", Unset),
             "preset", Literal(p, 2)) \in Texts
    BY <2>1, <2>2, <2>3, EditType
  <2> QED
    BY <1>3, <2>4 DEF PresetRow
<1>4. ASSUME RemovePin(w) PROVE \E text \in Texts : SetSystem(w, text)
  <2>1. "pinned" \in Keys
    BY DEF Keys, Settings, Policies
  <2>2. Edit(system[w].text, "pinned", Unset) \in Texts
    BY <1>0, <2>1, EditType
  <2> QED
    BY <1>4, <2>2 DEF RemovePin
<1> QED
  BY <1>1, <1>2, <1>3, <1>4 DEF RowStep

LEMMA UserRowTyped ==
  ASSUME TextsTyped, NEW w \in Windows, UserRowStep(w)
  PROVE  \E text \in Texts : user' = SetText(user, w, text)
<1>0. PICK k \in UserRows \cap DOMAIN Offered : \E v \in Offered[k] \cup {Unset} : UserRow(w, k, v)
  BY DEF UserRowStep
<1>1. PICK v \in Offered[k] \cup {Unset} : UserRow(w, k, v)
  BY <1>0
<1>2. k \in Keys /\ Literal(v, UserDefault(w, k)) \in Int \cup {Unset}
  BY <1>1, OfferedAssumption DEF Literal
<1>3. Edit(user[w].text, k, Literal(v, UserDefault(w, k))) \in Texts
  BY <1>2, EditType DEF TextsTyped
<1>4. user' = SetText(user, w, Edit(user[w].text, k, Literal(v, UserDefault(w, k))))
  BY <1>1 DEF UserRow, SetText
<1> QED
  BY <1>3, <1>4

LEMMA WindowTyped ==
  ASSUME Inv, TextsTyped, NEW w \in Windows, WindowStep(w)
  PROVE  TextsTyped'
<1> USE DEF TextsTyped
<1>0. Fn(system) /\ Fn(user) /\ Fn(helper)
      /\ \A v \in Windows : Doc(system[v]) /\ Doc(user[v]) /\ HelperOf(helper[v])
  BY DEF Inv, Shape
<1>1. ASSUME UNCHANGED <<files, helper, mode, tray>>,
             \A v \in Windows : /\ system'[v].text \in Texts /\ system'[v].read \in OnDisk
                                /\ user'[v].text \in Texts
      PROVE  TextsTyped'
  BY <1>1 DEF files
<1>2. CASE RowStep(w)
  <2>1. PICK text \in Texts : SetSystem(w, text)
    BY <1>2, RowTyped
  <2>2. system' = SetText(system, w, text) /\ UNCHANGED <<files, user, helper, mode, tray>>
    BY <2>1 DEF SetSystem, SetText
  <2>3. \A v \in Windows : system'[v].text \in Texts /\ system'[v].read \in OnDisk
    BY <1>0, <2>2, TextSet
  <2> QED
    BY <1>1, <2>2, <2>3
<1>3. CASE UserRowStep(w)
  <2>1. PICK text \in Texts : user' = SetText(user, w, text)
    BY <1>3, UserRowTyped
  <2>2. UNCHANGED <<files, system, helper, mode, tray>>
    BY <1>3 DEF UserRowStep, UserRow
  <2>3. \A v \in Windows : user'[v].text \in Texts
    BY <1>0, <2>1, TextSet
  <2> QED
    BY <1>1, <2>2, <2>3
<1>4. CASE Focus(w) \/ TakeResult(w) \/ Open(w)
  <2>1. Load(sys).text \in Texts /\ Load(own).text \in Texts /\ Load(sys).read \in OnDisk
    BY FileText
  <2>2. /\ system' = system \/ system' = Put(system, w, Load(sys))
        /\ user' = user \/ user' = Put(user, w, Load(own))
        /\ UNCHANGED <<files, helper, mode, tray>>
    BY <1>4 DEF Focus, TakeResult, Open, Put
  <2>3. \A v \in Windows : /\ system'[v].text \in Texts /\ system'[v].read \in OnDisk
                           /\ user'[v].text \in Texts
    BY <1>0, <2>1, <2>2, Replaced
  <2> QED
    BY <1>1, <2>2, <2>3
<1>5. CASE Discard(w)
  <2>1. system' = SetText(system, w, TextOf(system[w].read))
        /\ UNCHANGED <<files, user, helper, mode, tray>>
    BY <1>5 DEF Discard, SetText
  <2>2. TextOf(system[w].read) \in Texts
    BY FileText
  <2>3. \A v \in Windows : system'[v].text \in Texts /\ system'[v].read \in OnDisk
    BY <1>0, <2>1, <2>2, TextSet
  <2> QED
    BY <1>1, <2>1, <2>3
<1>6. CASE ApplyNow(w)
  <2>1. /\ UNCHANGED <<files, system, user, mode, tray>>
        /\ helper' = Put(helper, w, [pc |-> "prompt", base |-> system[w].read,
                                     new |-> system[w].text, cur |-> Missing])
    BY <1>6 DEF ApplyNow, Put
  <2>2. \A v \in Windows : helper'[v].new \in Texts
    BY <1>0, <2>1, Replaced
  <2> QED
    BY <2>1, <2>2 DEF files
<1>7. CASE Settle(w)
  <2>1. own' = user[w].text /\ user' = SetRead(user, w, user[w].text)
        /\ UNCHANGED <<sys, system, helper, mode, tray>>
    BY <1>7 DEF Settle, SetRead
  <2>2. \A v \in Windows : user'[v].text \in Texts
    BY <1>0, <2>1, ReadSet
  <2> QED
    BY <2>1, <2>2 DEF OnDisk
<1>8. CASE SaveFails(w)
  BY <1>1, <1>8 DEF SaveFails, files
<1>9. CASE Close(w)
  BY <1>9 DEF Close, OnDisk
<1> QED
  BY <1>2, <1>3, <1>4, <1>5, <1>6, <1>7, <1>8, <1>9 DEF WindowStep

LEMMA HelperNews ==
  ASSUME Inv, NEW w \in Windows, HelperStep(w), NEW v \in Windows
  PROVE  helper'[v].new = helper[v].new
<1>1. CASE HelperChecks(w)
  <2> DEFINE h == [helper[w] EXCEPT !.pc = "checked", !.cur = sys]
  <2>1. helper' = Put(helper, w, h)
    BY <1>1 DEF HelperChecks, Put
  <2>2. h = [pc |-> "checked", base |-> helper[w].base, new |-> helper[w].new, cur |-> sys]
    BY JobChanged DEF Inv, Shape
  <2>3. h.new = helper[w].new
    BY <2>2
  <2> HIDE DEF h
  <2> QED
    BY <2>1, <2>3, Replaced DEF Inv, Shape
<1>2. CASE HelperRefuses(w) \/ HelperWrites(w)
  <2>1. Answer(w, "refused") \/ Answer(w, "ok")
    BY <1>2 DEF HelperRefuses, HelperWrites
  <2> QED
    BY <2>1, AnswerFacts
<1> QED
  BY <1>1, <1>2 DEF HelperStep

LEMMA TypedStep == Inv /\ TextsTyped /\ [Next]_vars => TextsTyped'
<1> SUFFICES ASSUME Inv, TextsTyped, [Next]_vars PROVE TextsTyped'
  OBVIOUS
<1>1. CASE Unfocus \/ UNCHANGED vars
  BY <1>1 DEF TextsTyped, Unfocus, vars, files, windows
<1>2. ASSUME NEW w \in Windows, WindowStep(w) PROVE TextsTyped'
  BY <1>2, WindowTyped
<1>3. ASSUME NEW w \in Windows, HelperStep(w) PROVE TextsTyped'
  <2>1. \A v \in Windows : helper'[v].new = helper[v].new
    BY <1>3, HelperNews
  <2>2. UNCHANGED <<own, system, user, mode, tray>>
        /\ (sys' = sys \/ sys' = helper[w].new)
    BY <1>3 DEF HelperStep, HelperChecks, HelperRefuses, HelperWrites, files, windows
  <2> QED
    BY <2>1, <2>2 DEF TextsTyped, OnDisk
<1>4. CASE OtherStep
  <2>1. UNCHANGED <<system, user, helper>>
    BY <1>4 DEF OtherStep, ModeReads, ModeWrites, HandWrites, TrayReads, TrayWrites, windows
  <2>2. ASSUME NEW parts \in Modes, ModeReads(parts) PROVE TextsTyped'
    <3>1. parts \in Seq(Part)
      BY ModesAssumption
    <3>2. SetMode(TextOf(sys), parts) \in Texts
      BY <3>1, FileText, SetModeIs DEF TextsTyped, ModeText
    <3> QED
      BY <2>1, <2>2, <3>2 DEF ModeReads, TextsTyped, files
  <2>3. CASE ModeWrites
    BY <2>1, <2>3 DEF ModeWrites, TextsTyped, OnDisk
  <2>4. ASSUME NEW file \in HandFiles, HandWrites(file) PROVE TextsTyped'
    BY <2>1, <2>4, FilesAssumption DEF HandWrites, TextsTyped, OnDisk
  <2>5. ASSUME NEW minutes \in Minutes, TrayReads(minutes) PROVE TextsTyped'
    <3>1. WithMinutes(TextOf(own), minutes) \in Texts
      BY OfferedAssumption, FileText, WithMinutesType DEF TextsTyped
    <3> QED
      BY <2>1, <2>5, <3>1 DEF TrayReads, TextsTyped, files
  <2>6. CASE TrayWrites
    BY <2>1, <2>6 DEF TrayWrites, TextsTyped, OnDisk
  <2> QED
    BY <1>4, <2>2, <2>3, <2>4, <2>5, <2>6 DEF OtherStep
<1> QED
  BY <1>1, <1>2, <1>3, <1>4 DEF Next

LEMMA TypedInit == Init => TextsTyped
<1> SUFFICES ASSUME Init PROVE TextsTyped
  OBVIOUS
<1>1. sys \in OnDisk /\ own \in OnDisk /\ mode = Missing /\ tray = Missing
  BY FilesAssumption DEF Init, OnDisk
<1>2. \A w \in Windows : system[w] = Load(sys) /\ user[w] = Load(own) /\ helper[w] = NoHelper
  BY DEF Init
<1>3. NoHelper.new \in Texts
  BY DEF NoHelper, Texts
<1> QED
  BY <1>1, <1>2, <1>3, FileText DEF TextsTyped

(* Whatever a row, the tray or a script makes of a text, files are texts,   *)
(* missing or garbled.                                                      *)
THEOREM TextsStayTexts == Spec => []TextsTyped
<1>1. (Inv /\ TextsTyped) /\ [Next]_vars => (Inv /\ TextsTyped)'
  BY InvStep, TypedStep
<1> QED
  BY <1>1, InvInit, TypedInit, PTL DEF Spec

-----------------------------------------------------------------------------
(* Pins and paths.                                                          *)

\* Every line that a guarded key may be read from gives what root's hand has
\* written, or a path of root's own: whether the text parses, or says it twice.
Allowed(k, v, from) == <<k, v>> \in from \/ (k # "pinned" /\ v \in Trusted)
Rooted(text, from) ==
  \A k \in Guarded : \A i \in Saying(text, Flat(k)) : Allowed(k, text[i].value, from)

RootedInv ==
  /\ Rooted(TextOf(sys), roots)
  /\ mode # Missing => Rooted(mode, roots)
  /\ \A w \in Windows : helper[w].pc = "checked" => Rooted(helper[w].new, roots)

LEMMA GuardedNames ==
  ASSUME NEW k \in Guarded
  PROVE  /\ Group(k) = NoName /\ Flat(k) = <<k>> /\ Flat(k) # NoName /\ Names(k) = {<<k>>}
         /\ k \in Keys
  BY DEF Guarded, Paths, Group, Flat, Names, NoName, Table, Keys, Settings, Policies

(* What a text reads as for a guarded key is on one of these lines.         *)
LEMMA GuardedRead ==
  ASSUME NEW text \in Texts, NEW k \in Guarded
  PROVE  LET lines == Saying(text, Flat(k))
         IN  IF lines = {} THEN Reads(text, k) = Unset
             ELSE /\ FirstOf(lines) \in lines /\ Reads(text, k) = text[FirstOf(lines)].value
                  /\ Reads(text, k) # Unset
<1> DEFINE lines == Saying(text, Flat(k))
<1>1. lines \subseteq 1..Len(text) /\ Len(text) \in Nat
  BY Places DEF Saying
<1>2. Said(text, Group(k)) = Unset
  BY GuardedNames DEF Said, Saying
<1>3. CASE lines = {}
  BY <1>2, <1>3 DEF Reads, Said
<1>4. CASE lines # {}
  <2>1. FirstOf(lines) \in lines
    <3>1. lines \in SUBSET Nat
      BY <1>1
    <3> HIDE DEF lines
    <3> QED
      BY <1>4, <3>1, FirstIs
  <2>2. text[FirstOf(lines)] \in Line
    BY <1>1, <2>1 DEF Texts
  <2>3. text[FirstOf(lines)].value # Unset
    BY <2>2, UnsetAssumption DEF Line
  <2> QED
    BY <1>4, <2>1, <2>3 DEF Reads, Said
<1> QED
  BY <1>3, <1>4

LEMMA RootedRead ==
  ASSUME NEW text \in Texts, NEW from, Rooted(text, from), NEW k \in Guarded,
         Reads(text, k) # Unset
  PROVE  Allowed(k, Reads(text, k), from)
  BY GuardedRead DEF Rooted

(* What root's hand writes is its own, and stays so. *)
LEMMA HandRooted ==
  ASSUME NEW text \in Texts, NEW from, Given(text) \subseteq from
  PROVE  Rooted(text, from)
<1> SUFFICES ASSUME NEW k \in Guarded, NEW i \in Saying(text, Flat(k))
             PROVE  <<k, text[i].value>> \in Given(text)
  BY DEF Rooted, Allowed
<1>1. i \in KeyLines(text) /\ FullName(text, i) = <<k>>
  BY GuardedNames DEF Saying
<1>2. text[i] \in Line
  <2>1. i \in 1..Len(text)
    BY <1>1, Places
  <2> QED
    BY <2>1 DEF Texts
<1>3. text[i].name = <<k>>
  <2>1. text[i].name \in Seq(Words) \ {NoName} /\ TableAt(text, i) \in Seq(Words)
    BY <1>2, TableType DEF Line
  <2>2. TableAt(text, i) \o text[i].name = <<k>>
    BY <1>1 DEF FullName
  <2> QED
    BY <2>1, <2>2, OneWord
<1>4. text[i].name \in Names(k)
  BY <1>3, GuardedNames
<1> QED
  BY <1>1, <1>4 DEF Given

LEMMA RootedGrows ==
  ASSUME NEW text, NEW from, NEW more, from \subseteq more, Rooted(text, from)
  PROVE  Rooted(text, more)
  BY DEF Rooted, Allowed

(* A text that parses says a guarded key on one line at most: the one it is  *)
(* read from.                                                                *)
LEMMA SaidOnce ==
  ASSUME NEW text \in Texts, WellFormed(text), NEW k \in Guarded, NEW i \in Saying(text, Flat(k))
  PROVE  Reads(text, k) = text[i].value /\ Reads(text, k) # Unset
<1>1. FirstOf(Saying(text, Flat(k))) \in Saying(text, Flat(k))
      /\ Reads(text, k) = text[FirstOf(Saying(text, Flat(k)))].value
      /\ Reads(text, k) # Unset
  BY GuardedRead
<1>2. \A j \in Saying(text, Flat(k)) : j \in KeyLines(text) /\ FullName(text, j) = <<k>>
  BY GuardedNames DEF Saying
<1>3. ASSUME NEW a \in KeyLines(text), NEW b \in KeyLines(text),
             FullName(text, a) = FullName(text, b)
      PROVE  a = b
  BY <1>3 DEF WellFormed
<1>4. FirstOf(Saying(text, Flat(k))) = i
  BY <1>1, <1>2, <1>3
<1> QED
  BY <1>1, <1>4

(* What the helper has checked gives no pin and no path but those it found   *)
(* in the file, and paths of root's own.                                     *)
LEMMA CheckRooted ==
  ASSUME NEW cur \in OnDisk, NEW base, NEW new \in Texts, NEW from,
         Check(cur, base, new), Rooted(TextOf(cur), from)
  PROVE  Rooted(new, from)
<1> SUFFICES ASSUME NEW k \in Guarded, NEW i \in Saying(new, Flat(k))
             PROVE  Allowed(k, new[i].value, from)
  BY DEF Rooted
<1>1. WellFormed(new)
  BY DEF Check, LoadsText
<1>2. Reads(new, k) = new[i].value /\ Reads(new, k) # Unset
  BY <1>1, SaidOnce
<1>3. CASE Reads(new, k) = Reads(TextOf(cur), k)
  <2>1. TextOf(cur) \in Texts
    BY FileText
  <2> QED
    BY <1>2, <1>3, <2>1, RootedRead
<1>4. CASE Reads(new, k) # Reads(TextOf(cur), k)
  <2>1. k \in Paths /\ Reads(new, k) \in Trusted
    BY <1>2, <1>4 DEF Check, Guarded
  <2>2. k # "pinned"
    BY <2>1 DEF Paths
  <2> QED
    BY <1>2, <2>1, <2>2 DEF Allowed
<1> QED
  BY <1>3, <1>4

(* setting-mode.sh adds none.                                                *)
LEMMA ModeRooted ==
  ASSUME NEW text \in Texts, NEW from, Rooted(text, from), NEW parts \in Seq(Part),
         \A n \in 1..Len(parts) : parts[n].key \notin Guarded
  PROVE  Rooted(SetMode(text, parts), from)
<1> DEFINE new == SetMode(text, parts)
<1>1. PICK n : ModeText(text, new, parts, n)
  BY SetModeIs
<1> HIDE DEF new
<1> SUFFICES ASSUME NEW g \in Guarded, NEW p \in Saying(new, Flat(g))
             PROVE  Allowed(g, new[p].value, from)
  BY DEF Rooted, new
<1>2. p \in 1..Len(new) /\ new[p].kind = "key" /\ TableAt(new, p) \o new[p].name = <<g>>
  BY GuardedNames DEF Saying, KeyLines, FullName
<1>3. CASE p > n
  <2> DEFINE k == parts[p - n].key
  <2>1. k \in Keys /\ k \notin Guarded /\ new[p].name = Written(k)
    <3>1. p - n \in 1..Len(parts) /\ Len(parts) \in Nat /\ p = n + (p - n)
      BY <1>1, <1>2, <1>3 DEF ModeText
    <3>2. new[p] = Assign(Written(k), parts[p - n].value) /\ parts[p - n] \in Part
      BY <1>1, <3>1 DEF ModeText
    <3> QED
      BY <3>1, <3>2 DEF Assign, Part
  <2> HIDE DEF k
  <2>4. Written(k) \in Seq(Words) \ {NoName}
    BY <2>1, KeyNames
  <2>2. Written(k) = <<g>>
    <3>1. TableAt(new, p) \in Seq(Words) /\ TableAt(new, p) \o Written(k) = <<g>>
      BY <1>1, <1>2, <2>1, TableType DEF ModeText
    <3> QED
      BY <2>4, <3>1, OneWord
  <2>3. Written(k) # <<g>>
    <3>1. CASE Group(k) = NoName
      <4>1. Written(k) = <<k>> /\ k # g
        <5>1. k # "preset"
          BY <3>1 DEF Group, Table, NoName
        <5> QED
          BY <2>1, <3>1, <5>1 DEF Written, Flat
      <4> QED
        BY <4>1
    <3>2. CASE Group(k) # NoName
      BY <3>2 DEF Written, Group
    <3> QED
      BY <3>1, <3>2
  <2> QED
    BY <2>2, <2>3
<1>4. CASE p <= n
  <2>1. p \in 1..n
    BY <1>1, <1>2, <1>4 DEF ModeText
  <2>2. PICK i \in 1..Len(text) : new[p] = text[i] /\ TableAt(new, p) = TableAt(text, i)
    BY <1>1, <2>1 DEF ModeText
  <2>3. i \in Saying(text, Flat(g))
    BY <1>2, <2>2, GuardedNames DEF Saying, KeyLines, FullName
  <2> QED
    BY <2>2, <2>3 DEF Rooted
<1> QED
  BY <1>1, <1>2, <1>3, <1>4 DEF ModeText

LEMMA RootedStep == Inv /\ TextsTyped /\ RootedInv /\ [Next]_vars => RootedInv'
<1> SUFFICES ASSUME Inv, TextsTyped, RootedInv, [Next]_vars PROVE RootedInv'
  OBVIOUS
<1>1. ASSUME UNCHANGED <<sys, mode, helper, roots>> PROVE RootedInv'
  BY <1>1 DEF RootedInv
<1>2. CASE Unfocus \/ UNCHANGED vars
  BY <1>1, <1>2 DEF Unfocus, vars, files, ghosts
<1>3. ASSUME NEW w \in Windows, WindowStep(w) PROVE RootedInv'
  <2>1. CASE ApplyNow(w)
    <3>1. /\ UNCHANGED <<sys, mode, roots>>
          /\ helper' = Put(helper, w, [pc |-> "prompt", base |-> system[w].read,
                                       new |-> system[w].text, cur |-> Missing])
      BY <2>1 DEF ApplyNow, Put, files
    <3>2. Fn(helper)
      BY DEF Inv, Shape
    <3>3. \A v \in Windows : helper'[v].pc = "checked" => v # w /\ helper'[v] = helper[v]
      BY <3>1, <3>2, Replaced
    <3> QED
      BY <3>1, <3>3 DEF RootedInv
  <2>2. CASE RowStep(w)
    <3>1. UNCHANGED <<sys, mode, helper, roots>>
      BY <2>2 DEF RowStep, SystemRow, FieldRow, PresetRow, RemovePin, SetSystem, files
    <3> QED
      BY <1>1, <3>1
  <2>3. CASE UserRowStep(w)
    <3>1. UNCHANGED <<sys, mode, helper, roots>>
      BY <2>3 DEF UserRowStep, UserRow, files, ghosts
    <3> QED
      BY <1>1, <3>1
  <2>4. CASE Focus(w) \/ Discard(w) \/ TakeResult(w) \/ Settle(w) \/ SaveFails(w) \/ Close(w)
             \/ Open(w)
    <3>1. UNCHANGED <<sys, mode, helper, roots>>
      BY <2>4 DEF Focus, Discard, TakeResult, Settle, SaveFails, Close, Open, files, ghosts
    <3> QED
      BY <1>1, <3>1
  <2> QED
    BY <1>3, <2>1, <2>2, <2>3, <2>4 DEF WindowStep
<1>4. ASSUME NEW w \in Windows, HelperStep(w) PROVE RootedInv'
  <2>1. CASE HelperChecks(w)
    <3>1. Rooted(helper[w].new, roots)
      <4>1. sys \in OnDisk /\ helper[w].new \in Texts
        BY DEF TextsTyped
      <4>2. Check(sys, helper[w].base, helper[w].new)
        BY <2>1 DEF HelperChecks
      <4> QED
        BY <4>1, <4>2, CheckRooted DEF RootedInv
    <3> DEFINE h == [helper[w] EXCEPT !.pc = "checked", !.cur = sys]
    <3>2. helper' = Put(helper, w, h) /\ h.new = helper[w].new
      <4>1. h = [pc |-> "checked", base |-> helper[w].base, new |-> helper[w].new, cur |-> sys]
        BY JobChanged DEF Inv, Shape
      <4>2. helper' = Put(helper, w, h)
        BY <2>1 DEF HelperChecks, Put
      <4> HIDE DEF h
      <4> QED
        BY <4>1, <4>2
    <3>3. UNCHANGED <<sys, mode, roots>>
      BY <2>1 DEF HelperChecks, files
    <3> HIDE DEF h
    <3>4. \A v \in Windows : helper'[v].pc = "checked" => Rooted(helper'[v].new, roots)
      <4>1. helper'[w] = h /\ \A v \in Windows : v # w => helper'[v] = helper[v]
        BY <3>2, Replaced DEF Inv, Shape
      <4> QED
        BY <3>1, <3>2, <4>1 DEF RootedInv
    <3> QED
      BY <3>3, <3>4 DEF RootedInv
  <2>2. CASE HelperRefuses(w) \/ HelperWrites(w)
    <3>1. Answer(w, "refused") \/ Answer(w, "ok")
      BY <2>2 DEF HelperRefuses, HelperWrites
    <3>2. \A v \in Windows : helper'[v].pc = "checked" => v # w /\ helper'[v] = helper[v]
      BY <3>1, AnswerFacts
    <3>3. mode' = mode /\ roots' = roots
      BY <2>2 DEF HelperRefuses, HelperWrites, ghosts
    <3>4. Rooted(TextOf(sys'), roots)
      <4>1. CASE HelperRefuses(w)
        BY <4>1 DEF HelperRefuses, files, RootedInv
      <4>2. CASE HelperWrites(w)
        <5>1. sys' = helper[w].new /\ Rooted(helper[w].new, roots) /\ helper[w].new \in Texts
          BY <4>2 DEF HelperWrites, RootedInv, TextsTyped
        <5>2. TextOf(sys') = helper[w].new
          BY <5>1, FilesAssumption DEF TextOf
        <5> QED
          BY <5>1, <5>2
      <4> QED
        BY <2>2, <4>1, <4>2
    <3> QED
      BY <3>2, <3>3, <3>4 DEF RootedInv
  <2> QED
    BY <1>4, <2>1, <2>2 DEF HelperStep
<1>5. CASE OtherStep
  <2>1. ASSUME NEW parts \in Modes, ModeReads(parts) PROVE RootedInv'
    <3>1. UNCHANGED <<sys, helper, roots>> /\ mode' = SetMode(TextOf(sys), parts)
      BY <2>1 DEF ModeReads, files, ghosts
    <3>2. parts \in Seq(Part) /\ \A n \in 1..Len(parts) : parts[n].key \notin Guarded
      BY ModesAssumption
    <3>3. TextOf(sys) \in Texts
      BY FileText DEF TextsTyped
    <3>4. Rooted(mode', roots)
      BY <3>1, <3>2, <3>3, ModeRooted DEF RootedInv
    <3> QED
      BY <3>1, <3>4 DEF RootedInv
  <2>2. CASE ModeWrites
    <3>1. UNCHANGED <<helper, roots>> /\ mode' = Missing /\ sys' = mode
      BY <2>2 DEF ModeWrites
    <3>2. TextOf(mode) = mode /\ Rooted(mode, roots)
      BY <2>2, FilesAssumption DEF ModeWrites, TextOf, TextsTyped, RootedInv
    <3> QED
      BY <3>1, <3>2 DEF RootedInv
  <2>3. ASSUME NEW file \in HandFiles, HandWrites(file) PROVE RootedInv'
    <3>1. /\ UNCHANGED <<helper, mode>> /\ sys' = file
          /\ roots' = roots \cup Given(TextOf(file))
      BY <2>3 DEF HandWrites
    <3>2. file \in OnDisk
      BY FilesAssumption DEF OnDisk
    <3>3. Rooted(TextOf(file), roots')
      BY <3>1, <3>2, FileText, HandRooted
    <3>4. mode # Missing => Rooted(mode, roots')
      BY <3>1, RootedGrows DEF RootedInv
    <3>5. \A w \in Windows : helper[w].pc = "checked" => Rooted(helper[w].new, roots')
      BY <3>1, RootedGrows DEF RootedInv
    <3> QED
      BY <3>1, <3>3, <3>4, <3>5 DEF RootedInv
  <2>4. CASE TrayWrites \/ \E minutes \in Minutes : TrayReads(minutes)
    BY <1>1, <2>4 DEF TrayWrites, TrayReads, files, ghosts
  <2> QED
    BY <1>5, <2>1, <2>2, <2>3, <2>4 DEF OtherStep
<1> QED
  BY <1>2, <1>3, <1>4, <1>5 DEF Next

LEMMA RootedInit == Init => RootedInv
<1> SUFFICES ASSUME Init PROVE RootedInv
  OBVIOUS
<1>1. sys \in OnDisk /\ mode = Missing /\ roots = Given(TextOf(sys))
  BY FilesAssumption DEF Init, OnDisk
<1>2. \A w \in Windows : helper[w].pc # "checked"
  BY DEF Init, NoHelper
<1> QED
  BY <1>1, <1>2, FileText, HandRooted DEF RootedInv

(* "it can't set a camera pin" and "a model or template directory it names   *)
(* anew must be root's" (config_write.rs:13-17), for any texts, windows and  *)
(* writers: the system file's are of root's hand, or lie where only root     *)
(* writes.                                                                   *)
THEOREM RootsPolicyHolds == Spec => []RootsPolicy
<1>1. (Inv /\ TextsTyped /\ RootedInv) /\ [Next]_vars => (Inv /\ TextsTyped /\ RootedInv)'
  BY InvStep, TypedStep, RootedStep
<1>2. TextsTyped /\ RootedInv => RootsPolicy
  <2> SUFFICES ASSUME TextsTyped, RootedInv, NEW k \in Guarded, Reads(TextOf(sys), k) # Unset
               PROVE  Allowed(k, Reads(TextOf(sys), k), roots)
    BY DEF RootsPolicy, Allowed
  <2>1. TextOf(sys) \in Texts
    BY FileText DEF TextsTyped
  <2> QED
    BY <2>1, RootedRead DEF RootedInv
<1> QED
  BY <1>1, <1>2, InvInit, TypedInit, RootedInit, PTL DEF Spec

-----------------------------------------------------------------------------
(* EditExact. *)

(* Two keys share no spelling. *)
LEMMA KeysApart ==
  ASSUME NEW j \in Keys, NEW k \in Keys, j # k
  PROVE  Names(j) \cap Names(k) = {}
<1>1. \A a, b : <<a>> = <<b>> => a = b
  OBVIOUS
<1>2. \A a, b, c : <<a>> # <<b, c>>
  OBVIOUS
<1>3. Flat(j) \in {NoName, <<j>>} /\ Flat(k) \in {NoName, <<k>>}
  BY DEF Flat
<1>4. /\ Group(j) # NoName => j \in DOMAIN Table /\ Group(j) = <<Table[j], Inner(j)>>
      /\ Group(k) # NoName => k \in DOMAIN Table /\ Group(k) = <<Table[k], Inner(k)>>
  BY DEF Group
<1>5. "threshold" \notin DOMAIN Table
  BY DEF Table
<1>6. j \in DOMAIN Table /\ k \in DOMAIN Table => Inner(j) # Inner(k)
  BY <1>5 DEF Inner
<1>7. Group(j) # NoName /\ Group(k) # NoName => Group(j) # Group(k)
  BY <1>4, <1>6
<1>8. \A name \in Names(j) : name # NoName /\ (name = Flat(j) \/ name = Group(j))
  BY DEF Names
<1>9. \A name \in Names(k) : name # NoName /\ (name = Flat(k) \/ name = Group(k))
  BY DEF Names
<1> QED
  BY <1>1, <1>2, <1>3, <1>4, <1>7, <1>8, <1>9

(* No full name is empty. *)
LEMMA FullNames ==
  ASSUME NEW text \in Texts, NEW i \in 1..Len(text)
  PROVE  FullName(text, i) # NoName
<1>1. text[i] \in Line
  BY DEF Texts
<1>2. TableAt(text, i) \in Seq(Words) /\ text[i].name \in Seq(Words) /\ text[i].name # <<>>
  BY <1>1, TableType DEF Line, NoName
<1>3. Len(FullName(text, i)) = Len(TableAt(text, i)) + Len(text[i].name)
  BY <1>2, ConcatProperties DEF FullName
<1>4. Len(text[i].name) \in Nat /\ Len(text[i].name) # 0 /\ Len(TableAt(text, i)) \in Nat
  BY <1>2, EmptySeq
<1>5. Len(<<>>) = 0
  OBVIOUS
<1> QED
  BY <1>3, <1>4, <1>5 DEF NoName

Once(text) == \A i, j \in KeyLines(text) : FullName(text, i) = FullName(text, j) => i = j

LEMMA FormedOnce == ASSUME NEW text PROVE WellFormed(text) => Once(text)
<1> SUFFICES ASSUME WellFormed(text), NEW i \in KeyLines(text), NEW j \in KeyLines(text),
                    FullName(text, i) = FullName(text, j)
             PROVE  i = j
  BY DEF Once
<1> QED
  BY DEF WellFormed

(* What a text says by a name is the value of the one line of that name.     *)
LEMMA SaidBy ==
  ASSUME NEW text \in Texts, Once(text), NEW i \in KeyLines(text)
  PROVE  Said(text, FullName(text, i)) = text[i].value
<1>1. i \in 1..Len(text) /\ KeyLines(text) \in SUBSET Nat
  BY Places
<1>2. FullName(text, i) # NoName
  BY <1>1, FullNames
<1> DEFINE lines == Saying(text, FullName(text, i))
<1>3. lines = {i}
  BY <1>2 DEF Saying, Once
<1>4. FirstOf(lines) = i
  BY <1>1, <1>3 DEF FirstOf
<1> QED
  BY <1>3, <1>4 DEF Said

LEMMA SaidNot ==
  ASSUME NEW text, NEW name, \A i \in KeyLines(text) : FullName(text, i) # name
  PROVE  Said(text, name) = Unset
  BY DEF Said, Saying

LEMMA SaidNoName == ASSUME NEW text PROVE Said(text, NoName) = Unset
  BY DEF Said, Saying

-----------------------------------------------------------------------------
\* What an edit leaves: every line that gives another key, where m says, and
\* every header; and, unless v is Unset, one line, mine, that gives k as v.
Carried(m, text, new, mine, k, v) ==
  /\ \A i \in KeyLines(text) \ Active(text, k) :
       /\ m[i] \in KeyLines(new) \ {mine} /\ new[m[i]] = text[i]
       /\ TableAt(new, m[i]) = TableAt(text, i)
       /\ Above(new, m[i]) = {} => Above(text, i) = {}
  /\ \A p \in KeyLines(new) \ {mine} : \E i \in KeyLines(text) \ Active(text, k) : m[i] = p
  /\ \A h \in Headers(text) : new[m[h]] = text[h]
  /\ \A g \in Headers(new) : \E h \in Headers(text) : m[h] = g
  /\ IF v = Unset THEN mine \notin KeyLines(new)
     ELSE mine \in KeyLines(new) /\ FullName(new, mine) \in Names(k) /\ new[mine].value = v

\* The new line's table is not one that the text opens further down.
Fits(new, mine) ==
  \A h \in Headers(new) : Above(new, mine) = {} => <<new[mine].name[1]>> # new[h].name

LEMMA CarriedFull ==
  ASSUME NEW m, NEW text, NEW new, NEW mine, NEW k, NEW v, Carried(m, text, new, mine, k, v),
         NEW i \in KeyLines(text) \ Active(text, k)
  PROVE  FullName(new, m[i]) = FullName(text, i) /\ FullName(text, i) \notin Names(k)
  BY DEF Carried, FullName, Active

LEMMA CarriedOnce ==
  ASSUME NEW m, NEW text, NEW new, NEW mine, NEW k, NEW v, Carried(m, text, new, mine, k, v),
         Once(text)
  PROVE  Once(new)
<1> SUFFICES ASSUME NEW p \in KeyLines(new), NEW q \in KeyLines(new),
                    FullName(new, p) = FullName(new, q)
             PROVE  p = q
  BY DEF Once
<1>1. \A r \in KeyLines(new) \ {mine} : \E i \in KeyLines(text) \ Active(text, k) : m[i] = r
  BY DEF Carried
<1>2. mine \in KeyLines(new) => FullName(new, mine) \in Names(k)
  BY DEF Carried
<1>3. CASE p # mine /\ q # mine
  <2>1. PICK i \in KeyLines(text) \ Active(text, k) : m[i] = p
    BY <1>1, <1>3
  <2>2. PICK j \in KeyLines(text) \ Active(text, k) : m[j] = q
    BY <1>1, <1>3
  <2>3. FullName(text, i) = FullName(text, j)
    BY <2>1, <2>2, CarriedFull
  <2> QED
    BY <2>1, <2>2, <2>3 DEF Once
<1>4. CASE p = mine /\ q # mine
  <2>1. PICK j \in KeyLines(text) \ Active(text, k) : m[j] = q
    BY <1>1, <1>4
  <2> QED
    BY <1>2, <1>4, <2>1, CarriedFull
<1>5. CASE q = mine /\ p # mine
  <2>1. PICK j \in KeyLines(text) \ Active(text, k) : m[j] = p
    BY <1>1, <1>5
  <2> QED
    BY <1>2, <1>5, <2>1, CarriedFull
<1> QED
  BY <1>3, <1>4, <1>5

LEMMA CarriedFormed ==
  ASSUME NEW m, NEW text, NEW new, NEW mine, NEW k, NEW v, Carried(m, text, new, mine, k, v),
         WellFormed(text), v # Unset => Fits(new, mine)
  PROVE  WellFormed(new)
<1>1. Once(new)
  BY CarriedOnce, FormedOnce
<1>2. \A g \in Headers(new) : \E h \in Headers(text) : m[h] = g /\ text[h] = new[g]
  BY DEF Carried
<1>3. ASSUME NEW g \in Headers(new), NEW h \in Headers(new), new[g].name = new[h].name PROVE g = h
  <2>1. PICK a \in Headers(text) : m[a] = g /\ text[a] = new[g]
    BY <1>2
  <2>2. PICK b \in Headers(text) : m[b] = h /\ text[b] = new[h]
    BY <1>2
  <2>3. a = b
    BY <1>3, <2>1, <2>2 DEF WellFormed
  <2> QED
    BY <2>1, <2>2, <2>3
<1>4. ASSUME NEW h \in Headers(new), NEW p \in KeyLines(new), Above(new, p) = {}
      PROVE  <<new[p].name[1]>> # new[h].name
  <2>1. CASE p = mine
    BY <1>4, <2>1 DEF Carried, Fits
  <2>2. CASE p # mine
    <3>1. PICK i \in KeyLines(text) \ Active(text, k) : m[i] = p
      BY <2>2 DEF Carried
    <3>2. new[p] = text[i] /\ Above(text, i) = {}
      BY <1>4, <3>1 DEF Carried
    <3>3. PICK b \in Headers(text) : text[b] = new[h]
      BY <1>2
    <3> QED
      BY <3>2, <3>3 DEF WellFormed
  <2> QED
    BY <2>1, <2>2
<1> QED
  BY <1>1, <1>3, <1>4 DEF WellFormed, Once

(* By a name that is not k's, it says what it said. *)
LEMMA CarriedSays ==
  ASSUME NEW m, NEW text \in Texts, NEW new \in Texts, NEW mine, NEW k, NEW v,
         Carried(m, text, new, mine, k, v), Once(text), NEW name, name \notin Names(k)
  PROVE  Said(new, name) = Said(text, name)
<1>0. Once(new)
  BY CarriedOnce
<1>1. CASE \E i \in KeyLines(text) : FullName(text, i) = name
  <2>1. PICK i \in KeyLines(text) : FullName(text, i) = name
    BY <1>1
  <2>2. i \in KeyLines(text) \ Active(text, k)
    BY <2>1 DEF Active
  <2>3. m[i] \in KeyLines(new) /\ new[m[i]] = text[i] /\ FullName(new, m[i]) = name
    <3>1. FullName(new, m[i]) = name
      BY <2>1, <2>2, CarriedFull
    <3> QED
      BY <2>2, <3>1 DEF Carried
  <2>4. Said(text, name) = text[i].value
    BY <2>1, SaidBy
  <2>5. Said(new, name) = new[m[i]].value
    BY <1>0, <2>3, SaidBy
  <2> QED
    BY <2>3, <2>4, <2>5
<1>2. CASE \A i \in KeyLines(text) : FullName(text, i) # name
  <2>1. ASSUME NEW p \in KeyLines(new) PROVE FullName(new, p) # name
    <3>1. CASE p = mine
      BY <3>1 DEF Carried
    <3>2. CASE p # mine
      <4>1. PICK i \in KeyLines(text) \ Active(text, k) : m[i] = p
        BY <3>2 DEF Carried
      <4> QED
        BY <1>2, <4>1, CarriedFull
    <3> QED
      BY <3>1, <3>2
  <2>2. Said(new, name) = Unset
    BY <2>1, SaidNot
  <2>3. Said(text, name) = Unset
    BY <1>2, SaidNot
  <2> QED
    BY <2>2, <2>3
<1> QED
  BY <1>1, <1>2

(* And k reads as v. *)
LEMMA CarriedReads ==
  ASSUME NEW m, NEW text \in Texts, NEW new \in Texts, NEW mine, NEW k, NEW v \in Int \cup {Unset},
         Carried(m, text, new, mine, k, v), Once(text)
  PROVE  Reads(new, k) = v
<1>0. Once(new)
  BY CarriedOnce
<1>1. \A p \in KeyLines(new) : FullName(new, p) \in Names(k) => p = mine
  <2> SUFFICES ASSUME NEW p \in KeyLines(new), FullName(new, p) \in Names(k), p # mine PROVE FALSE
    OBVIOUS
  <2>1. PICK i \in KeyLines(text) \ Active(text, k) : m[i] = p
    BY DEF Carried
  <2> QED
    BY <2>1, CarriedFull
<1>2. Flat(k) # NoName => Flat(k) \in Names(k)
  BY DEF Names
<1>3. Group(k) # NoName => Group(k) \in Names(k)
  BY DEF Names
<1>4. CASE v = Unset
  <2>1. \A p \in KeyLines(new) : FullName(new, p) \notin Names(k)
    BY <1>1, <1>4 DEF Carried
  <2>2. Said(new, Flat(k)) = Unset
    BY <1>2, <2>1, SaidNot, SaidNoName
  <2>3. Said(new, Group(k)) = Unset
    BY <1>3, <2>1, SaidNot, SaidNoName
  <2> QED
    BY <1>4, <2>2, <2>3 DEF Reads
<1>5. CASE v # Unset
  <2>1. mine \in KeyLines(new) /\ FullName(new, mine) \in Names(k) /\ new[mine].value = v
    BY <1>5 DEF Carried
  <2>2. Said(new, FullName(new, mine)) = v
    BY <1>0, <2>1, SaidBy
  <2>3. CASE FullName(new, mine) = Flat(k)
    BY <1>5, <2>2, <2>3 DEF Reads
  <2>4. CASE FullName(new, mine) # Flat(k)
    <3>1. FullName(new, mine) = Group(k)
      BY <2>1, <2>4 DEF Names
    <3>2. Said(new, Flat(k)) = Unset
      BY <1>1, <1>2, <2>4, SaidNot, SaidNoName
    <3> QED
      BY <2>2, <3>1, <3>2 DEF Reads
  <2> QED
    BY <2>3, <2>4
<1> QED
  BY <1>4, <1>5

LEMMA CarriedExact ==
  ASSUME NEW m, NEW text \in Texts, NEW new \in Texts, NEW mine, NEW k \in Keys,
         NEW v \in Int \cup {Unset}, Carried(m, text, new, mine, k, v),
         WellFormed(text), v # Unset => Fits(new, mine)
  PROVE  WellFormed(new) /\ Values(new) = [Values(text) EXCEPT ![k] = v]
<1>1. WellFormed(new) /\ Once(text)
  BY CarriedFormed, FormedOnce
<1>2. Values(text) = [j \in Keys |-> Reads(text, j)] /\ Values(new) = [j \in Keys |-> Reads(new, j)]
  BY <1>1 DEF Values
<1>3. Reads(new, k) = v
  BY <1>1, CarriedReads
<1>4. ASSUME NEW j \in Keys, j # k PROVE Reads(new, j) = Reads(text, j)
  <2>1. Flat(j) = NoName \/ Flat(j) \notin Names(k)
    BY <1>4, KeysApart DEF Names
  <2>2. Group(j) = NoName \/ Group(j) \notin Names(k)
    BY <1>4, KeysApart DEF Names
  <2>3. Said(new, Flat(j)) = Said(text, Flat(j))
    BY <1>1, <2>1, CarriedSays, SaidNoName
  <2>4. Said(new, Group(j)) = Said(text, Group(j))
    BY <1>1, <2>2, CarriedSays, SaidNoName
  <2> QED
    BY <2>3, <2>4 DEF Reads
<1> QED
  BY <1>1, <1>2, <1>3, <1>4

-----------------------------------------------------------------------------
(* An edit that leaves every line where it is. *)
LEMMA SameHeaders ==
  ASSUME NEW text \in Texts, NEW new \in Texts, Len(new) = Len(text),
         \A i \in 1..Len(text) :
           text[i].kind = "header" \/ new[i].kind = "header" => new[i] = text[i]
  PROVE  /\ Headers(new) = Headers(text)
         /\ \A i : Above(new, i) = Above(text, i) /\ TableAt(new, i) = TableAt(text, i)
<1>1. Headers(new) = Headers(text)
  BY DEF Headers
<1>2. ASSUME NEW i PROVE Above(new, i) = Above(text, i) /\ TableAt(new, i) = TableAt(text, i)
  <2>1. Above(new, i) = Above(text, i)
    BY <1>1 DEF Above
  <2>2. Above(text, i) # {} => LastOf(Above(text, i)) \in Headers(text)
    <3>1. Len(text) \in Nat /\ Above(text, i) \in SUBSET (0..Len(text))
      BY Places DEF Above
    <3>2. Above(text, i) # {} => LastOf(Above(text, i)) \in Above(text, i)
      BY <3>1, LastIs
    <3> QED
      BY <3>2 DEF Above
  <2>3. \A h \in Headers(text) : new[h] = text[h]
    BY DEF Headers
  <2> QED
    BY <2>1, <2>2, <2>3 DEF TableAt
<1> QED
  BY <1>1, <1>2

LEMMA InPlace ==
  ASSUME NEW text \in Texts, NEW new \in Texts, Len(new) = Len(text), NEW k, NEW v \in Int \cup {Unset},
         NEW mine \in 0..Len(text), mine \notin Headers(text), mine \notin KeyLines(text) \ Active(text, k),
         \A i \in 1..Len(text) : i \notin Active(text, k) \cup {mine} => new[i] = text[i],
         \A i \in Active(text, k) \ {mine} : new[i].kind = "example",
         IF v = Unset THEN mine = 0
         ELSE /\ mine # 0 /\ new[mine].kind = "key" /\ new[mine].value = v
              /\ TableAt(text, mine) \o new[mine].name \in Names(k)
  PROVE  /\ \E m : Carried(m, text, new, mine, k, v)
         /\ Headers(new) = Headers(text) /\ \A h \in Headers(text) : new[h] = text[h]
         /\ Above(new, mine) = Above(text, mine)
<1>1. Len(text) \in Nat /\ KeyLines(text) \in SUBSET (1..Len(text))
      /\ Headers(text) \in SUBSET (1..Len(text)) /\ Active(text, k) \subseteq KeyLines(text)
      /\ KeyLines(new) \in SUBSET (1..Len(text)) /\ Headers(new) \in SUBSET (1..Len(text))
  BY Places DEF Active
<1>2. \A i \in KeyLines(text) : i \notin Headers(text)
  BY DEF KeyLines, Headers
<1>3. \A h \in Headers(text) : new[h] = text[h]
  BY <1>1, <1>2
<1>4. \A i \in 1..Len(text) :
        text[i].kind = "header" \/ new[i].kind = "header" => new[i] = text[i]
  <2> SUFFICES ASSUME NEW i \in 1..Len(text), text[i].kind = "header" \/ new[i].kind = "header"
               PROVE  new[i] = text[i]
    OBVIOUS
  <2>1. CASE text[i].kind = "header"
    BY <1>3, <2>1 DEF Headers
  <2>2. CASE new[i].kind = "header"
    <3>1. i \notin Active(text, k) \ {mine}
      BY <2>2
    <3>2. i # mine
      BY <2>2
    <3> QED
      BY <3>1, <3>2
  <2> QED
    BY <2>1, <2>2
<1>5. Headers(new) = Headers(text)
      /\ \A i : Above(new, i) = Above(text, i) /\ TableAt(new, i) = TableAt(text, i)
  BY <1>4, SameHeaders
<1> DEFINE m == [i \in 1..Len(text) |-> i]
<1>6. \A i \in 1..Len(text) : m[i] = i
  OBVIOUS
<1> HIDE DEF m
<1>7. ASSUME NEW i \in KeyLines(text) \ Active(text, k)
      PROVE  i \in KeyLines(new) \ {mine} /\ new[i] = text[i]
  <2>1. i \in 1..Len(text) /\ text[i].kind = "key" /\ i # mine
    BY <1>1 DEF KeyLines
  <2>2. new[i] = text[i]
    BY <2>1
  <2> QED
    BY <2>1, <2>2 DEF KeyLines
<1>8. ASSUME NEW p \in KeyLines(new) \ {mine} PROVE p \in KeyLines(text) \ Active(text, k)
  <2>1. p \in 1..Len(text) /\ new[p].kind = "key"
    BY <1>1 DEF KeyLines
  <2>2. p \notin Active(text, k)
    BY <2>1
  <2>3. new[p] = text[p]
    BY <2>1, <2>2
  <2> QED
    BY <2>1, <2>2, <2>3 DEF KeyLines
<1>9. IF v = Unset THEN mine \notin KeyLines(new)
      ELSE mine \in KeyLines(new) /\ FullName(new, mine) \in Names(k) /\ new[mine].value = v
  <2>1. CASE v = Unset
    BY <1>1, <2>1
  <2>2. CASE v # Unset
    <3>1. mine \in 1..Len(new) /\ new[mine].kind = "key"
      BY <1>1, <2>2
    <3> QED
      BY <1>5, <2>2, <3>1 DEF KeyLines, FullName
  <2> QED
    BY <2>1, <2>2
<1>10. Carried(m, text, new, mine, k, v)
  <2>1. ASSUME NEW i \in KeyLines(text) \ Active(text, k)
        PROVE  /\ m[i] \in KeyLines(new) \ {mine} /\ new[m[i]] = text[i]
               /\ TableAt(new, m[i]) = TableAt(text, i)
               /\ Above(new, m[i]) = {} => Above(text, i) = {}
    BY <1>1, <1>5, <1>6, <1>7
  <2>2. ASSUME NEW p \in KeyLines(new) \ {mine}
        PROVE  \E i \in KeyLines(text) \ Active(text, k) : m[i] = p
    BY <1>1, <1>6, <1>8
  <2>3. \A h \in Headers(text) : new[m[h]] = text[h]
    BY <1>1, <1>3, <1>6
  <2>4. \A g \in Headers(new) : \E h \in Headers(text) : m[h] = g
    BY <1>1, <1>5, <1>6
  <2> QED
    BY <2>1, <2>2, <2>3, <2>4, <1>9 DEF Carried
<1> QED
  BY <1>3, <1>5, <1>10

(* An edit that puts a line in. *)
LEMMA Inserted ==
  ASSUME NEW text \in Texts, NEW at \in 0..Len(text), NEW line \in Line, NEW new,
         new = Insert(text, at, line)
  PROVE  /\ new \in Texts /\ Len(new) = Len(text) + 1 /\ new[at + 1] = line
         /\ \A i \in 1..at : new[i] = text[i]
         /\ \A i \in (at + 1)..Len(text) : new[i + 1] = text[i]
<1>1. Len(text) \in Nat /\ text \in Seq(Line)
  BY DEF Texts
<1> DEFINE head == SubSeq(text, 1, at)
           tail == SubSeq(text, at + 1, Len(text))
<1>2. head \in Seq(Line) /\ Len(head) = at /\ \A i \in 1..at : head[i] = text[i]
  BY <1>1, SubSeqProperties
<1>3. tail \in Seq(Line) /\ Len(tail) = Len(text) - at
      /\ \A i \in 1..(Len(text) - at) : tail[i] = text[at + i]
  BY <1>1, SubSeqProperties
<1> HIDE DEF head, tail
<1>4. head \o <<line>> \in Seq(Line) /\ Len(head \o <<line>>) = at + 1
      /\ (head \o <<line>>)[at + 1] = line /\ \A i \in 1..at : (head \o <<line>>)[i] = text[i]
  BY <1>1, <1>2, ConcatProperties
<1> DEFINE front == head \o <<line>>
<1>5. new = front \o tail
  BY DEF Insert, head, tail
<1> HIDE DEF front
<1>6. front \in Seq(Line) /\ Len(front) = at + 1
      /\ front[at + 1] = line /\ \A i \in 1..at : front[i] = text[i]
  BY <1>4 DEF front
<1>7. new \in Seq(Line) /\ Len(new) = Len(text) + 1
      /\ \A i \in 1..(Len(text) + 1) : new[i] = IF i <= at + 1 THEN front[i] ELSE tail[i - (at + 1)]
  <2>1. new \in Seq(Line) /\ Len(new) = Len(front) + Len(tail)
        /\ \A i \in 1..(Len(front) + Len(tail)) :
             new[i] = IF i <= Len(front) THEN front[i] ELSE tail[i - Len(front)]
    <3>1. front \in Seq(Line) /\ tail \in Seq(Line)
      BY <1>3, <1>6
    <3>2. /\ front \o tail \in Seq(Line) /\ Len(front \o tail) = Len(front) + Len(tail)
          /\ \A i \in 1..(Len(front) + Len(tail)) :
               (front \o tail)[i] = IF i <= Len(front) THEN front[i] ELSE tail[i - Len(front)]
      BY <3>1, ConcatProperties
    <3> QED
      BY <1>5, <3>2
  <2>2. Len(front) + Len(tail) = Len(text) + 1
    BY <1>1, <1>3, <1>6
  <2> QED
    BY <1>6, <2>1, <2>2
<1>8. ASSUME NEW i \in (at + 1)..Len(text) PROVE new[i + 1] = text[i]
  <2>1. i + 1 \in 1..(Len(text) + 1) /\ ~(i + 1 <= at + 1) /\ (i + 1) - (at + 1) = i - at
        /\ i - at \in 1..(Len(text) - at) /\ at + (i - at) = i
    BY <1>1
  <2> QED
    BY <1>3, <1>7, <2>1
<1> QED
  BY <1>1, <1>6, <1>7, <1>8 DEF Texts

LEMMA InsertPicks ==
  ASSUME NEW text \in Texts, NEW at \in 0..Len(text), NEW line \in Line, line.kind = "key", NEW new,
         new = Insert(text, at, line), NEW m, m = [i \in 1..Len(text) |-> IF i <= at THEN i ELSE i + 1]
  PROVE  Picks(m, new, {at + 1}, text, Len(new)) /\ {at + 1} \cap Headers(new) = {}
<1>1. Len(text) \in Nat
  BY DEF Texts
<1>2. /\ new \in Texts /\ Len(new) = Len(text) + 1 /\ new[at + 1] = line
      /\ \A i \in 1..at : new[i] = text[i]
      /\ \A i \in (at + 1)..Len(text) : new[i + 1] = text[i]
  BY Inserted
<1>3. \A i \in 1..Len(text) : m[i] = IF i <= at THEN i ELSE i + 1
  OBVIOUS
<1>4. m \in [1..Len(text) -> (1..Len(new)) \ {at + 1}]
  BY <1>1, <1>2
<1>5. \A p, q \in 1..Len(text) : p < q => m[p] < m[q]
  BY <1>1, <1>3
<1>6. ASSUME NEW p \in 1..Len(text) PROVE text[p] = new[m[p]]
  <2>1. CASE p <= at
    BY <1>1, <1>2, <1>3, <2>1
  <2>2. CASE ~(p <= at)
    BY <1>1, <1>2, <1>3, <2>2
  <2> QED
    BY <2>1, <2>2
<1>7. ASSUME NEW i \in (1..Len(new)) \ {at + 1} PROVE \E p \in 1..Len(text) : m[p] = i
  <2>1. CASE i <= at
    BY <1>1, <1>3, <2>1
  <2>2. CASE ~(i <= at)
    <3>1. i - 1 \in 1..Len(text) /\ ~(i - 1 <= at) /\ (i - 1) + 1 = i
      BY <1>1, <1>2, <2>2
    <3> QED
      BY <1>3, <3>1
  <2> QED
    BY <2>1, <2>2
<1>8. {at + 1} \cap Headers(new) = {}
  BY <1>2 DEF Headers
<1> QED
  BY <1>4, <1>5, <1>6, <1>7, <1>8 DEF Picks

(* The line put in is in the table of the line above it. *)
LEMMA InsertCarried ==
  ASSUME NEW text \in Texts, NEW at \in 0..Len(text), NEW line \in Line, line.kind = "key", NEW new,
         new = Insert(text, at, line), NEW k, NEW v \in Int, line.value = v, Active(text, k) = {},
         TableAt(text, at) \o line.name \in Names(k)
  PROVE  /\ \E m : Carried(m, text, new, at + 1, k, v)
         /\ Above(new, at + 1) = {} => Above(text, at) = {}
         /\ \A g \in Headers(new) : \E h \in Headers(text) : text[h] = new[g]
<1> DEFINE m == [i \in 1..Len(text) |-> IF i <= at THEN i ELSE i + 1]
<1>1. Picks(m, new, {at + 1}, text, Len(new)) /\ {at + 1} \cap Headers(new) = {}
  BY InsertPicks
<1>2. \A i \in 1..Len(text) : m[i] = IF i <= at THEN i ELSE i + 1
  OBVIOUS
<1> HIDE DEF m
<1>3. /\ new \in Texts /\ Len(new) = Len(text) + 1 /\ new[at + 1] = line
      /\ Len(text) \in Nat /\ at \in Nat
  <2>1. Len(text) \in Nat
    BY Places
  <2>2. new \in Texts /\ Len(new) = Len(text) + 1 /\ new[at + 1] = line
    BY Inserted
  <2> QED
    BY <2>1, <2>2
<1>4. /\ \A p \in 1..Len(text) : m[p] \in 1..Len(new) /\ m[p] # at + 1 /\ text[p] = new[m[p]]
      /\ \A i \in 1..Len(new) : i # at + 1 => \E p \in 1..Len(text) : m[p] = i
  BY <1>1 DEF Picks
<1>5. \A p \in 1..Len(text) : TableAt(text, p) = TableAt(new, m[p])
  BY <1>1, <1>3, TablesStay
<1>6. ASSUME NEW i \in 1..Len(text), Above(new, m[i]) = {} PROVE Above(text, i) = {}
  <2> SUFFICES ASSUME NEW h \in Above(text, i) PROVE m[h] \in Above(new, m[i])
    BY <1>6
  <2>1. h \in 1..Len(text) /\ h <= i /\ text[h].kind = "header"
    BY DEF Above, Headers
  <2>2. m[h] <= m[i]
    BY <1>2, <1>3, <2>1
  <2> QED
    BY <1>4, <2>1, <2>2 DEF Above, Headers
<1>7. /\ TableAt(new, at + 1) = TableAt(text, at)
      /\ Above(new, at + 1) = {} => Above(text, at) = {}
  <2>1. Above(new, at + 1) = Above(new, at)
    <3>1. new[at + 1].kind # "header"
      BY <1>3
    <3> QED
      BY <1>3, <3>1 DEF Above, Headers
  <2>2. TableAt(new, at + 1) = TableAt(new, at)
    BY <2>1 DEF TableAt
  <2>3. CASE at = 0
    <3>1. Above(new, at) = {} /\ Above(text, at) = {}
      BY <1>3, <2>3 DEF Above, Headers
    <3> QED
      BY <2>1, <2>2, <3>1 DEF TableAt
  <2>4. CASE at # 0
    <3>1. at \in 1..Len(text) /\ m[at] = at
      BY <1>2, <1>3, <2>4
    <3> QED
      BY <1>5, <1>6, <2>1, <2>2, <3>1
  <2> QED
    BY <2>3, <2>4
<1>8. Carried(m, text, new, at + 1, k, v)
  <2>1. ASSUME NEW i \in KeyLines(text) \ Active(text, k)
        PROVE  /\ m[i] \in KeyLines(new) \ {at + 1} /\ new[m[i]] = text[i]
               /\ TableAt(new, m[i]) = TableAt(text, i)
               /\ Above(new, m[i]) = {} => Above(text, i) = {}
    <3>1. i \in 1..Len(text) /\ text[i].kind = "key"
      BY DEF KeyLines
    <3> QED
      BY <1>4, <1>5, <1>6, <3>1 DEF KeyLines
  <2>2. ASSUME NEW p \in KeyLines(new) \ {at + 1}
        PROVE  \E i \in KeyLines(text) \ Active(text, k) : m[i] = p
    <3>1. p \in 1..Len(new) /\ p # at + 1 /\ new[p].kind = "key"
      BY DEF KeyLines
    <3>2. PICK i \in 1..Len(text) : m[i] = p
      BY <1>4, <3>1
    <3>3. i \in KeyLines(text)
      BY <1>4, <3>1, <3>2 DEF KeyLines
    <3> QED
      BY <3>2, <3>3
  <2>3. \A h \in Headers(text) : new[m[h]] = text[h]
    BY <1>4 DEF Headers
  <2>4. ASSUME NEW g \in Headers(new) PROVE \E h \in Headers(text) : m[h] = g
    <3>1. g \in 1..Len(new) /\ g # at + 1 /\ new[g].kind = "header"
      BY <1>1 DEF Headers
    <3>2. PICK h \in 1..Len(text) : m[h] = g
      BY <1>4, <3>1
    <3>3. h \in Headers(text)
      BY <1>4, <3>1, <3>2 DEF Headers
    <3> QED
      BY <3>2, <3>3
  <2>5. at + 1 \in KeyLines(new) /\ FullName(new, at + 1) \in Names(k) /\ new[at + 1].value = v
    <3>1. at + 1 \in 1..Len(new)
      BY <1>3
    <3> QED
      BY <1>3, <1>7, <3>1 DEF KeyLines, FullName
  <2>6. v # Unset
    BY UnsetAssumption
  <2> QED
    BY <2>1, <2>2, <2>3, <2>4, <2>5, <2>6 DEF Carried
<1>9. \A g \in Headers(new) : \E h \in Headers(text) : text[h] = new[g]
  BY <1>8 DEF Carried
<1> QED
  BY <1>7, <1>8, <1>9

(* A key's line above the first header is in no table the text opens. *)
LEMMA TopFits ==
  ASSUME NEW text \in Texts, NoKeyTables(text), NEW k \in Keys, Opened(text, k) = {},
         NEW h \in Headers(text)
  PROVE  <<Written(k)[1]>> # text[h].name
<1>1. CASE Group(k) = NoName
  <2>1. Written(k) = <<k>>
    BY <1>1 DEF Written, Flat, Group, Table, NoName
  <2>2. Written(k)[1] = k
    BY <2>1
  <2> QED
    BY <2>2 DEF NoKeyTables
<1>2. CASE Group(k) # NoName
  <2>1. Written(k) = <<Table[k], Inner(k)>>
    BY <1>2 DEF Written, Group
  <2>2. Written(k)[1] = Table[k]
    BY <2>1
  <2> QED
    BY <1>2, <2>2 DEF Opened
<1> QED
  BY <1>1, <1>2

LEMMA WrittenName ==
  ASSUME NEW k \in Keys
  PROVE  Written(k) \in Names(k)
<1>1. Written(k) # NoName
  BY KeyNames
<1> QED
  BY <1>1 DEF Written, Names

(* Where tables start and end. *)
LEMMA TopLine ==
  ASSUME NEW text \in Texts, NEW i \in 0..TopEnd(text)
  PROVE  Above(text, i) = {} /\ TableAt(text, i) = NoName
<1>1. Len(text) \in Nat /\ Headers(text) \in SUBSET (1..Len(text)) /\ TopEnd(text) \in 0..Len(text)
  BY Places
<1>2. CASE Headers(text) = {}
  BY <1>2 DEF Above, TableAt
<1>3. CASE Headers(text) # {}
  <2>1. FirstOf(Headers(text)) \in Headers(text) /\ \A h \in Headers(text) : FirstOf(Headers(text)) <= h
    <3>1. Headers(text) \in SUBSET Nat
      BY <1>1
    <3> QED
      BY <1>3, <3>1, FirstIs
  <2>2. TopEnd(text) = FirstOf(Headers(text)) - 1
    BY <1>3 DEF TopEnd
  <2>3. Above(text, i) = {}
    BY <1>1, <2>1, <2>2 DEF Above
  <2> QED
    BY <2>3 DEF TableAt
<1> QED
  BY <1>2, <1>3

LEMMA TableLine ==
  ASSUME NEW text \in Texts, NEW h \in Headers(text), NEW i \in h..TableEnd(text, h)
  PROVE  TableAt(text, i) = text[h].name /\ Above(text, i) # {}
<1>1. Len(text) \in Nat /\ Headers(text) \in SUBSET (1..Len(text))
  BY Places
<1>2. TableEnd(text, h) \in h..Len(text) /\ h \in 1..Len(text)
  BY <1>1, Places
<1>3. \A g \in Headers(text) : g > h => g > TableEnd(text, h)
  <2> DEFINE next == {g \in Headers(text) : g > h}
  <2> SUFFICES ASSUME NEW g \in next PROVE g > TableEnd(text, h)
    OBVIOUS
  <2>1. next \in SUBSET Nat /\ next # {}
    BY <1>1
  <2>2. TableEnd(text, h) = FirstOf(next) - 1
    BY <2>1 DEF TableEnd
  <2> HIDE DEF next
  <2>3. FirstOf(next) \in next /\ FirstOf(next) <= g /\ FirstOf(next) \in Nat /\ g \in Nat
    BY <2>1, FirstIs
  <2> QED
    BY <2>2, <2>3
<1>4. h \in Above(text, i) /\ \A g \in Above(text, i) : g <= h
  BY <1>1, <1>2, <1>3 DEF Above
<1>5. LastOf(Above(text, i)) = h
  <2>1. Above(text, i) \in SUBSET (0..Len(text)) /\ Above(text, i) # {}
    BY <1>1, <1>4 DEF Above
  <2>2. LastOf(Above(text, i)) \in Above(text, i) /\ h <= LastOf(Above(text, i))
    BY <1>1, <1>4, <2>1, LastIs
  <2> QED
    BY <1>1, <1>2, <1>4, <2>1, <2>2
<1> QED
  BY <1>4, <1>5 DEF TableAt

-----------------------------------------------------------------------------
(* What keys::edit makes of a text, way by way. *)
Edited(text, new, k, v) ==
  \E m, mine :
    /\ Carried(m, text, new, mine, k, v)
    /\ v # Unset /\ WellFormed(text) /\ NoKeyTables(text) => Fits(new, mine)

LEMMA UnsetEdited ==
  ASSUME NEW text \in Texts, NEW k \in Keys, NEW new, new = CommentOut(text, Active(text, k))
  PROVE  Edited(text, new, k, Unset)
<1>1. new \in Texts /\ Len(new) = Len(text) /\ Len(text) \in Nat
  BY CommentOutType, Places
<1>2. Active(text, k) \subseteq KeyLines(text) /\ KeyLines(text) \in SUBSET (1..Len(text))
      /\ Headers(text) \in SUBSET (1..Len(text))
  BY Places DEF Active
<1>3. \A i \in 1..Len(text) : new[i] = IF i \in Active(text, k) THEN Example(text[i].name) ELSE text[i]
  BY DEF CommentOut
<1>4. \A i \in 1..Len(text) : i \notin Active(text, k) \cup {0} => new[i] = text[i]
  BY <1>3
<1>5. \A i \in Active(text, k) \ {0} : new[i].kind = "example"
  <2> SUFFICES ASSUME NEW i \in Active(text, k) PROVE new[i].kind = "example"
    OBVIOUS
  <2>1. i \in 1..Len(text)
    BY <1>2
  <2>2. new[i] = Example(text[i].name)
    BY <1>3, <2>1
  <2> QED
    BY <2>2 DEF Example
<1>6. 0 \in 0..Len(text) /\ 0 \notin Headers(text) /\ 0 \notin KeyLines(text) \ Active(text, k)
  BY <1>1, <1>2
<1>7. \E m : Carried(m, text, new, 0, k, Unset)
  BY <1>1, <1>4, <1>5, <1>6, InPlace
<1> QED
  BY <1>7 DEF Edited

LEMMA WinnerEdited ==
  ASSUME NEW text \in Texts, NEW k \in Keys, NEW v \in Int, Active(text, k) # {}, NEW w,
         w = Winner(text, k), NEW new,
         new = Replace(CommentOut(text, Active(text, k) \ {w}), w, Assign(text[w].name, v))
  PROVE  Edited(text, new, k, v)
<1> DEFINE rest == CommentOut(text, Active(text, k) \ {w})
<1>1. w \in Active(text, k) /\ w \in 1..Len(text) /\ Len(text) \in Nat
  BY WinnerIs, Places
<1>2. Active(text, k) \subseteq KeyLines(text) /\ KeyLines(text) \in SUBSET (1..Len(text))
      /\ Headers(text) \in SUBSET (1..Len(text))
  BY Places DEF Active
<1>3. /\ rest \in Texts /\ Len(rest) = Len(text)
      /\ \A i \in 1..Len(text) : i \notin Active(text, k) \ {w} => rest[i] = text[i]
      /\ \A i \in Active(text, k) \ {w} : rest[i].kind = "example"
  BY <1>2, CommentOutType DEF CommentOut, Example
<1>4. text[w].name \in Seq(Words) \ {NoName}
  <2>1. text[w] \in Line
    BY <1>1 DEF Texts
  <2> QED
    BY <2>1 DEF Line
<1> DEFINE line == Assign(text[w].name, v)
<1>5. line \in Line /\ line.kind = "key" /\ line.value = v /\ line.name = text[w].name
  BY <1>4, AssignType DEF Assign
<1> HIDE DEF rest, line
<1>6. new = [rest EXCEPT ![w] = line]
  BY DEF Replace, rest, line
<1>7. new \in Texts /\ Len(new) = Len(text)
  <2>1. new = Replace(rest, w, line) /\ w \in 1..Len(rest)
    BY <1>1, <1>3, <1>6 DEF Replace
  <2> QED
    BY <1>3, <1>5, <2>1, ReplaceType
<1>8. new[w] = line /\ \A i \in 1..Len(text) : i # w => new[i] = rest[i]
  <2>1. DOMAIN rest = 1..Len(text)
    BY <1>3 DEF Texts
  <2> QED
    BY <1>1, <1>6, <2>1
<1>9. \A i \in 1..Len(text) : i \notin Active(text, k) \cup {w} => new[i] = text[i]
  BY <1>3, <1>8
<1>10. \A i \in Active(text, k) \ {w} : new[i].kind = "example"
  BY <1>2, <1>3, <1>8
<1>11. w \in 0..Len(text) /\ w \notin Headers(text) /\ w \notin KeyLines(text) \ Active(text, k)
       /\ w # 0
  BY <1>1, <1>2 DEF KeyLines, Headers
<1>12. TableAt(text, w) \o new[w].name \in Names(k)
  BY <1>1, <1>5, <1>8 DEF Active, FullName
<1>13. v # Unset /\ new[w].kind = "key" /\ new[w].value = v
  BY <1>5, <1>8, UnsetAssumption
<1>14. /\ \E m : Carried(m, text, new, w, k, v)
       /\ Headers(new) = Headers(text) /\ \A h \in Headers(text) : new[h] = text[h]
       /\ Above(new, w) = Above(text, w)
  <2>1. IF v = Unset THEN w = 0
        ELSE /\ w # 0 /\ new[w].kind = "key" /\ new[w].value = v
             /\ TableAt(text, w) \o new[w].name \in Names(k)
    BY <1>11, <1>12, <1>13
  <2> QED
    <3>1. v \in Int \cup {Unset}
      OBVIOUS
    <3> QED
      BY ONLY <1>7, <1>9, <1>10, <1>11, <2>1, <3>1, InPlace, text \in Texts, ZenonT(60)
<1>15. WellFormed(text) => Fits(new, w)
  <2> SUFFICES ASSUME WellFormed(text), NEW h \in Headers(new), Above(new, w) = {}
               PROVE  <<new[w].name[1]>> # new[h].name
    BY DEF Fits
  <2>1. h \in Headers(text) /\ new[h] = text[h] /\ Above(text, w) = {} /\ w \in KeyLines(text)
    BY <1>1, <1>2, <1>14
  <2>2. <<text[w].name[1]>> # text[h].name
    BY <2>1 DEF WellFormed
  <2> QED
    BY <1>5, <1>8, <2>1, <2>2
<1> QED
  BY <1>14, <1>15 DEF Edited

LEMMA TwoWords == ASSUME NEW a, NEW b PROVE <<a>> \o <<b>> = <<a, b>>
<1> DEFINE s == <<a>> \o <<b>>
<1>1. <<a>> \in Seq({a, b}) /\ <<b>> \in Seq({a, b}) /\ Len(<<a>>) = 1 /\ Len(<<b>>) = 1
      /\ <<a>>[1] = a /\ <<b>>[1] = b
  OBVIOUS
<1>2. s \in Seq({a, b}) /\ Len(s) = 2 /\ s[1] = a /\ s[2] = b
  BY <1>1, ConcatProperties
<1> HIDE DEF s
<1>3. s = <<a, b>>
  BY <1>2
<1> QED
  BY <1>3 DEF s

LEMMA TableEdited ==
  ASSUME NEW text \in Texts, NEW k \in Keys, NEW v \in Int, Active(text, k) = {}, Opened(text, k) # {},
         NEW h, h = FirstOf(Opened(text, k)), NEW new,
         new = Insert(text, LastContent(text, h, TableEnd(text, h)), Assign(<<Inner(k)>>, v))
  PROVE  Edited(text, new, k, v)
<1> DEFINE at == LastContent(text, h, TableEnd(text, h))
           line == Assign(<<Inner(k)>>, v)
<1>1. h \in Opened(text, k) /\ h \in Headers(text) /\ h \in 1..Len(text) /\ Len(text) \in Nat
  <2>1. Opened(text, k) \in SUBSET Nat
    BY Places DEF Opened
  <2>2. h \in Opened(text, k)
    BY <2>1, FirstIs
  <2> QED
    BY <2>2, Places DEF Opened
<1>2. TableEnd(text, h) \in h..Len(text)
  BY <1>1, Places
<1>3. at \in 0..Len(text) /\ at \in h..TableEnd(text, h)
  <2>1. h \in 0..Len(text) /\ TableEnd(text, h) \in Int
    BY <1>1, <1>2
  <2>2. at \in 0..Len(text) /\ (at # h => at \in (h + 1)..TableEnd(text, h))
    BY <2>1, Places
  <2> HIDE DEF at
  <2> QED
    BY <1>1, <1>2, <2>2
<1>4. line \in Line /\ line.kind = "key" /\ line.value = v /\ line.name = <<Inner(k)>>
  BY KeyNames, AssignType DEF Assign
<1> HIDE DEF at, line
<1>5. TableAt(text, at) = text[h].name /\ Above(text, at) # {}
  BY <1>1, <1>3, TableLine
<1>6. TableAt(text, at) \o line.name \in Names(k)
  <2>1. Group(k) # NoName /\ text[h].name = <<Table[k]>>
    BY <1>1 DEF Opened
  <2>2. Group(k) = <<Table[k], Inner(k)>>
    BY <2>1 DEF Group
  <2>3. <<Table[k]>> \o <<Inner(k)>> = <<Table[k], Inner(k)>>
    BY TwoWords
  <2> QED
    BY <1>4, <1>5, <2>1, <2>2, <2>3 DEF Names
<1>7. new = Insert(text, at, line)
  BY DEF at, line
<1>8. /\ \E m : Carried(m, text, new, at + 1, k, v)
      /\ Above(new, at + 1) = {} => Above(text, at) = {}
  BY <1>3, <1>4, <1>6, <1>7, InsertCarried
<1>9. Fits(new, at + 1)
  BY <1>5, <1>8 DEF Fits
<1> QED
  BY <1>8, <1>9 DEF Edited

LEMMA ExampleEdited ==
  ASSUME NEW text \in Texts, NEW k \in Keys, NEW v \in Int, Active(text, k) = {}, Opened(text, k) = {},
         Examples(text, k) # {}, NEW e, e = FirstOf(Examples(text, k)),
         NEW new, new = Replace(text, e, Assign(Written(k), v))
  PROVE  Edited(text, new, k, v)
<1>1. TopEnd(text) \in 0..Len(text) /\ Len(text) \in Nat
  BY Places
<1>2. e \in 1..TopEnd(text) /\ text[e].kind = "example"
  <2>1. Examples(text, k) \in SUBSET Nat
    BY <1>1 DEF Examples
  <2>2. e \in Examples(text, k)
    BY <2>1, FirstIs
  <2> QED
    BY <2>2 DEF Examples
<1> DEFINE line == Assign(Written(k), v)
<1>3. line \in Line /\ line.kind = "key" /\ line.value = v /\ line.name = Written(k)
      /\ Written(k) \in Seq(Words)
  BY KeyNames, AssignType DEF Assign
<1> HIDE DEF line
<1>4. new = [text EXCEPT ![e] = line]
  BY DEF Replace, line
<1>5. e \in 1..Len(text) /\ e \in 0..TopEnd(text)
  BY <1>1, <1>2
<1>6. new \in Texts /\ Len(new) = Len(text)
  <2>1. new = Replace(text, e, line)
    BY <1>4 DEF Replace
  <2> QED
    BY <1>3, <1>5, <2>1, ReplaceType
<1>7. new[e] = line /\ \A i \in 1..Len(text) : i # e => new[i] = text[i]
  <2>1. DOMAIN text = 1..Len(text)
    BY DEF Texts
  <2> QED
    BY <1>4, <1>5, <2>1
<1>8. \A i \in 1..Len(text) : i \notin Active(text, k) \cup {e} => new[i] = text[i]
  BY <1>7
<1>9. \A i \in Active(text, k) \ {e} : new[i].kind = "example"
  OBVIOUS
<1>10. e \in 0..Len(text) /\ e \notin Headers(text) /\ e \notin KeyLines(text) \ Active(text, k)
       /\ e # 0
  BY <1>1, <1>2 DEF KeyLines, Headers
<1>11. Above(text, e) = {} /\ TableAt(text, e) = NoName
  BY <1>5, TopLine
<1>12. TableAt(text, e) \o new[e].name \in Names(k)
  <2>1. NoName \o Written(k) = Written(k)
    BY <1>3, ConcatEmptySeq DEF NoName
  <2> QED
    BY <1>3, <1>7, <1>11, <2>1, WrittenName
<1>13. v # Unset /\ new[e].kind = "key" /\ new[e].value = v
  BY <1>3, <1>7, UnsetAssumption
<1>14. /\ \E m : Carried(m, text, new, e, k, v)
       /\ Headers(new) = Headers(text) /\ \A h \in Headers(text) : new[h] = text[h]
  <2>1. IF v = Unset THEN e = 0
        ELSE /\ e # 0 /\ new[e].kind = "key" /\ new[e].value = v
             /\ TableAt(text, e) \o new[e].name \in Names(k)
    BY <1>10, <1>12, <1>13
  <2> QED
    <3>1. v \in Int \cup {Unset}
      OBVIOUS
    <3> QED
      BY ONLY <1>6, <1>8, <1>9, <1>10, <2>1, <3>1, InPlace, text \in Texts, ZenonT(60)
<1>15. NoKeyTables(text) => Fits(new, e)
  BY <1>3, <1>7, <1>14, TopFits DEF Fits
<1> QED
  BY <1>14, <1>15 DEF Edited

LEMMA TopEdited ==
  ASSUME NEW text \in Texts, NEW k \in Keys, NEW v \in Int, Active(text, k) = {}, Opened(text, k) = {},
         NEW new,
         new = Insert(text, IF Headers(text) = {} THEN Len(text)
                            ELSE LastContent(text, 0, TopEnd(text)), Assign(Written(k), v))
  PROVE  Edited(text, new, k, v)
<1> DEFINE at == IF Headers(text) = {} THEN Len(text) ELSE LastContent(text, 0, TopEnd(text))
           line == Assign(Written(k), v)
<1>1. TopEnd(text) \in 0..Len(text) /\ Len(text) \in Nat
  BY Places
<1>2. at \in 0..TopEnd(text) /\ at \in 0..Len(text)
  <2>1. CASE Headers(text) = {}
    BY <1>1, <2>1 DEF TopEnd
  <2>2. CASE Headers(text) # {}
    <3>1. at = LastContent(text, 0, TopEnd(text))
      BY <2>2
    <3>2. 0 \in 0..Len(text) /\ TopEnd(text) \in Int
      BY <1>1
    <3>3. at \in 0..Len(text) /\ (at # 0 => at \in (0 + 1)..TopEnd(text))
      BY <3>1, <3>2, Places
    <3> HIDE DEF at
    <3> QED
      BY <1>1, <3>3
  <2> QED
    BY <2>1, <2>2
<1>3. line \in Line /\ line.kind = "key" /\ line.value = v /\ line.name = Written(k)
      /\ Written(k) \in Seq(Words)
  BY KeyNames, AssignType DEF Assign
<1> HIDE DEF at, line
<1>4. Above(text, at) = {} /\ TableAt(text, at) = NoName
  BY <1>2, TopLine
<1>5. TableAt(text, at) \o line.name \in Names(k)
  <2>1. NoName \o Written(k) = Written(k)
    BY <1>3, ConcatEmptySeq DEF NoName
  <2> QED
    BY <1>3, <1>4, <2>1, WrittenName
<1>6. new = Insert(text, at, line)
  BY DEF at, line
<1>7. /\ \E m : Carried(m, text, new, at + 1, k, v)
      /\ \A g \in Headers(new) : \E h \in Headers(text) : text[h] = new[g]
  BY <1>2, <1>3, <1>5, <1>6, InsertCarried
<1>8. new[at + 1] = line
  BY <1>2, <1>3, <1>6, Inserted
<1>9. NoKeyTables(text) => Fits(new, at + 1)
  <2> SUFFICES ASSUME NoKeyTables(text), NEW g \in Headers(new)
               PROVE  <<new[at + 1].name[1]>> # new[g].name
    BY DEF Fits
  <2>1. PICK h \in Headers(text) : text[h] = new[g]
    BY <1>7
  <2>2. <<Written(k)[1]>> # text[h].name
    BY TopFits
  <2> QED
    BY <1>3, <1>8, <2>1, <2>2
<1> QED
  BY <1>7, <1>9 DEF Edited

LEMMA EditIs ==
  ASSUME NEW text \in Texts, NEW k \in Keys, NEW v \in Int \cup {Unset}
  PROVE  Edited(text, Edit(text, k, v), k, v)
<1>1. CASE v = Unset
  BY <1>1, UnsetEdited DEF Edit
<1>2. CASE v # Unset /\ Active(text, k) # {}
  BY <1>2, WinnerEdited DEF Edit
<1>3. CASE v # Unset /\ Active(text, k) = {} /\ Opened(text, k) # {}
  BY <1>3, TableEdited DEF Edit, Add
<1>4. CASE v # Unset /\ Active(text, k) = {} /\ Opened(text, k) = {} /\ Examples(text, k) # {}
  BY <1>4, ExampleEdited DEF Edit, Add
<1>5. CASE v # Unset /\ Active(text, k) = {} /\ Opened(text, k) = {} /\ Examples(text, k) = {}
  BY <1>5, TopEdited DEF Edit, Add
<1> QED
  BY <1>1, <1>2, <1>3, <1>4, <1>5

LEMMA EditSets ==
  ASSUME NEW text \in Texts, NEW k \in Keys, NEW v \in Int \cup {Unset}, NoKeyTables(text),
         WellFormed(text)
  PROVE  WellFormed(Edit(text, k, v)) /\ Values(Edit(text, k, v)) = [Values(text) EXCEPT ![k] = v]
<1> DEFINE new == Edit(text, k, v)
<1>1. new \in Texts
  BY EditType
<1>2. Edited(text, new, k, v)
  BY EditIs
<1> HIDE DEF new
<1>3. PICK m, mine : Carried(m, text, new, mine, k, v) /\ (v # Unset => Fits(new, mine))
  BY <1>2 DEF Edited
<1>4. WellFormed(new) /\ Values(new) = [Values(text) EXCEPT ![k] = v]
  BY <1>1, <1>3, CarriedExact, SMTT(30)
<1> QED
  BY <1>4 DEF new

LEMMA EditOpensNone ==
  ASSUME NEW text \in Texts, NEW k \in Keys, NEW v \in Int \cup {Unset}, NoKeyTables(text)
  PROVE  NoKeyTables(Edit(text, k, v))
<1> DEFINE new == Edit(text, k, v)
<1>1. Edited(text, new, k, v)
  BY EditIs
<1> HIDE DEF new
<1>2. PICK m, mine : Carried(m, text, new, mine, k, v)
  BY <1>1 DEF Edited
<1>3. \A g \in Headers(new) : \E h \in Headers(text) : text[h] = new[g]
  BY <1>2 DEF Carried
<1> QED
  BY <1>3 DEF NoKeyTables, new

-----------------------------------------------------------------------------
\* No program opens a table called like a key where there was none.
TablesInv ==
  /\ NoKeyTables(TextOf(sys)) /\ (mode # Missing => NoKeyTables(mode))
  /\ \A w \in Windows : /\ NoKeyTables(system[w].text) /\ NoKeyTables(TextOf(system[w].read))
                        /\ NoKeyTables(helper[w].new)

LEMMA ModeOpensNone ==
  ASSUME NEW text \in Texts, NEW parts \in Seq(Part), NoKeyTables(text)
  PROVE  NoKeyTables(SetMode(text, parts))
<1> DEFINE new == SetMode(text, parts)
<1>1. PICK n : ModeText(text, new, parts, n)
  BY SetModeIs
<1> HIDE DEF new
<1>2. ASSUME NEW h \in Headers(new) PROVE \E g \in Headers(text) : text[g] = new[h]
  <2>1. h \in 1..Len(new) /\ new[h].kind = "header"
    BY DEF Headers
  <2>2. CASE h > n
    <3>1. h - n \in 1..Len(parts) /\ h = n + (h - n)
      BY <1>1, <2>1, <2>2 DEF ModeText
    <3>2. new[n + (h - n)] = Assign(Written(parts[h - n].key), parts[h - n].value)
      BY <1>1, <3>1 DEF ModeText
    <3>3. new[h].kind = "key"
      BY <3>1, <3>2 DEF Assign
    <3> QED
      BY <2>1, <3>3
  <2>3. CASE h <= n
    <3>1. h \in 1..n
      BY <1>1, <2>1, <2>3 DEF ModeText
    <3>2. PICK i \in 1..Len(text) : new[h] = text[i]
      BY <1>1, <3>1 DEF ModeText
    <3> QED
      BY <2>1, <3>2 DEF Headers
  <2> QED
    BY <1>1, <2>1, <2>2, <2>3 DEF ModeText
<1> QED
  BY <1>2 DEF NoKeyTables, new

LEMMA RowOpensNone ==
  ASSUME TextsTyped, TablesInv, NEW w \in Windows, RowStep(w)
  PROVE  \E text \in Texts : SetSystem(w, text) /\ NoKeyTables(text)
<1>0. system[w].text \in Texts /\ NoKeyTables(system[w].text)
  BY DEF TextsTyped, TablesInv
<1>1. ASSUME NEW k, NEW v, SystemRow(w, k, v)
      PROVE  \E text \in Texts : SetSystem(w, text) /\ NoKeyTables(text)
  <2>1. k \in DOMAIN Offered /\ v \in Offered[k]
    BY <1>1 DEF SystemRow, Within
  <2>2. k \in Keys /\ Literal(v, RowOf(k).default) \in Int \cup {Unset}
    BY <2>1, PickedType
  <2> QED
    BY <1>0, <1>1, <2>2, EditType, EditOpensNone DEF SystemRow
<1>2. ASSUME NEW k, NEW v, FieldRow(w, k, v)
      PROVE  \E text \in Texts : SetSystem(w, text) /\ NoKeyTables(text)
  <2>1. k \in Keys /\ v \in Int \cup {Unset}
    BY <1>2, OfferedAssumption DEF FieldRow
  <2> QED
    BY <1>0, <1>2, <2>1, EditType, EditOpensNone DEF FieldRow
<1>3. ASSUME NEW p, PresetRow(w, p)
      PROVE  \E text \in Texts : SetSystem(w, text) /\ NoKeyTables(text)
  <2>1. "motion" \in Keys /\ "residual" \in Keys /\ "preset" \in Keys
    BY DEF Keys, Settings, Floors
  <2>2. Literal(p, 2) \in Int \cup {Unset}
    BY <1>3, PickedType DEF PresetRow
  <2> DEFINE one == Edit(system[w].text, "motion", Unset)
             two == Edit(one, "residual", Unset)
             three == Edit(two, "preset", Literal(p, 2))
  <2>3. one \in Texts /\ NoKeyTables(one)
    BY <1>0, <2>1, EditType, EditOpensNone
  <2>4. SetSystem(w, three)
    BY <1>3 DEF PresetRow
  <2> HIDE DEF one
  <2>5. two \in Texts /\ NoKeyTables(two)
    BY <2>1, <2>3, EditType, EditOpensNone
  <2> HIDE DEF two
  <2>6. three \in Texts /\ NoKeyTables(three)
    BY <2>1, <2>2, <2>5, EditType, EditOpensNone
  <2> QED
    BY <2>4, <2>6
<1>4. ASSUME RemovePin(w) PROVE \E text \in Texts : SetSystem(w, text) /\ NoKeyTables(text)
  <2>1. "pinned" \in Keys
    BY DEF Keys, Settings, Policies
  <2> QED
    BY <1>0, <1>4, <2>1, EditType, EditOpensNone DEF RemovePin
<1> QED
  BY <1>1, <1>2, <1>3, <1>4 DEF RowStep

LEMMA TablesStep == ASSUME PlainFiles PROVE Inv /\ TextsTyped /\ TablesInv /\ [Next]_vars => TablesInv'
<1> SUFFICES ASSUME Inv, TextsTyped, TablesInv, [Next]_vars PROVE TablesInv'
  OBVIOUS
<1>0. Fn(system) /\ Fn(helper)
      /\ \A v \in Windows : Doc(system[v]) /\ HelperOf(helper[v])
  BY DEF Inv, Shape
<1>1. ASSUME UNCHANGED <<sys, mode, helper>>,
             \A v \in Windows : NoKeyTables(system'[v].text) /\ NoKeyTables(TextOf(system'[v].read))
      PROVE  TablesInv'
  BY <1>1 DEF TablesInv
<1>2. ASSUME UNCHANGED <<sys, mode, system, helper>> PROVE TablesInv'
  BY <1>2 DEF TablesInv
<1>3. CASE Unfocus \/ UNCHANGED vars
  BY <1>2, <1>3 DEF Unfocus, vars, files, windows
<1>4. ASSUME NEW w \in Windows, WindowStep(w) PROVE TablesInv'
  <2>1. CASE RowStep(w)
    <3>1. PICK text \in Texts : SetSystem(w, text) /\ NoKeyTables(text)
      BY <2>1, RowOpensNone
    <3>2. system' = SetText(system, w, text) /\ UNCHANGED <<sys, mode, helper>>
      BY <3>1 DEF SetSystem, SetText, files
    <3>3. \A v \in Windows : NoKeyTables(system'[v].text) /\ NoKeyTables(TextOf(system'[v].read))
      BY <1>0, <3>1, <3>2, TextSet DEF TablesInv
    <3> QED
      BY <1>1, <3>2, <3>3
  <2>2. CASE UserRowStep(w)
    <3>1. UNCHANGED <<sys, mode, system, helper>>
      BY <2>2 DEF UserRowStep, UserRow, files
    <3> QED
      BY <1>2, <3>1
  <2>3. CASE Focus(w) \/ TakeResult(w) \/ Open(w)
    <3>1. system' = system \/ system' = Put(system, w, Load(sys))
      BY <2>3 DEF Focus, TakeResult, Open, Put
    <3>2. UNCHANGED <<sys, mode, helper>>
      BY <2>3 DEF Focus, TakeResult, Open, files
    <3>3. NoKeyTables(Load(sys).text) /\ NoKeyTables(TextOf(Load(sys).read))
      <4>1. Load(sys).text = TextOf(sys) /\ TextOf(Load(sys).read) = TextOf(sys)
        BY DEF Load, TextOf
      <4> QED
        BY <4>1 DEF TablesInv
    <3>4. \A v \in Windows : NoKeyTables(system'[v].text) /\ NoKeyTables(TextOf(system'[v].read))
      BY <1>0, <3>1, <3>3, Replaced DEF TablesInv
    <3> QED
      BY <1>1, <3>2, <3>4
  <2>4. CASE Discard(w)
    <3>1. system' = SetText(system, w, TextOf(system[w].read)) /\ UNCHANGED <<sys, mode, helper>>
      BY <2>4 DEF Discard, SetText, files
    <3>2. \A v \in Windows : NoKeyTables(system'[v].text) /\ NoKeyTables(TextOf(system'[v].read))
      BY <1>0, <3>1, TextSet DEF TablesInv
    <3> QED
      BY <1>1, <3>1, <3>2
  <2>5. CASE ApplyNow(w)
    <3>1. /\ UNCHANGED <<sys, system, mode>>
          /\ helper' = Put(helper, w, [pc |-> "prompt", base |-> system[w].read,
                                       new |-> system[w].text, cur |-> Missing])
      BY <2>5 DEF ApplyNow, Put, files
    <3>2. \A v \in Windows : NoKeyTables(helper'[v].new)
      BY <1>0, <3>1, Replaced DEF TablesInv
    <3> QED
      BY <3>1, <3>2 DEF TablesInv
  <2>6. CASE Settle(w) \/ SaveFails(w) \/ Close(w)
    BY <1>2, <2>6 DEF Settle, SaveFails, Close, files
  <2> QED
    BY <1>4, <2>1, <2>2, <2>3, <2>4, <2>5, <2>6 DEF WindowStep
<1>5. ASSUME NEW w \in Windows, HelperStep(w) PROVE TablesInv'
  <2>1. \A v \in Windows : helper'[v].new = helper[v].new
    BY <1>5, HelperNews
  <2>2. UNCHANGED <<system, mode>> /\ (sys' = sys \/ sys' = helper[w].new)
    BY <1>5 DEF HelperStep, HelperChecks, HelperRefuses, HelperWrites, files, windows
  <2>3. NoKeyTables(TextOf(sys'))
    <3>1. helper[w].new \in Texts /\ NoKeyTables(helper[w].new)
      BY DEF TextsTyped, TablesInv
    <3>2. TextOf(helper[w].new) = helper[w].new
      BY <3>1, FilesAssumption DEF TextOf
    <3> QED
      BY <2>2, <3>1, <3>2 DEF TablesInv
  <2> QED
    BY <2>1, <2>2, <2>3 DEF TablesInv
<1>6. CASE OtherStep
  <2>1. UNCHANGED <<system, helper>>
    BY <1>6 DEF OtherStep, ModeReads, ModeWrites, HandWrites, TrayReads, TrayWrites, windows
  <2>2. ASSUME NEW parts \in Modes, ModeReads(parts) PROVE TablesInv'
    <3>1. sys' = sys /\ mode' = SetMode(TextOf(sys), parts)
      BY <2>2 DEF ModeReads, files
    <3>2. parts \in Seq(Part) /\ TextOf(sys) \in Texts
      BY ModesAssumption, FileText DEF TextsTyped
    <3>3. NoKeyTables(mode')
      BY <3>1, <3>2, ModeOpensNone DEF TablesInv
    <3> QED
      BY <2>1, <3>1, <3>3 DEF TablesInv
  <2>3. CASE ModeWrites
    <3>1. TextOf(mode) = mode /\ NoKeyTables(mode)
      BY <2>3, FilesAssumption DEF ModeWrites, TextOf, TextsTyped, TablesInv
    <3> QED
      BY <2>1, <2>3, <3>1 DEF ModeWrites, TablesInv
  <2>4. ASSUME NEW file \in HandFiles, HandWrites(file) PROVE TablesInv'
    BY <2>1, <2>4 DEF HandWrites, TablesInv, PlainFiles
  <2>5. CASE TrayWrites \/ \E minutes \in Minutes : TrayReads(minutes)
    BY <1>2, <2>1, <2>5 DEF TrayWrites, TrayReads, files
  <2> QED
    BY <1>6, <2>2, <2>3, <2>4, <2>5 DEF OtherStep
<1> QED
  BY <1>3, <1>4, <1>5, <1>6 DEF Next

LEMMA TablesInit == ASSUME PlainFiles PROVE Init => TablesInv
<1> SUFFICES ASSUME Init PROVE TablesInv
  OBVIOUS
<1>1. NoKeyTables(TextOf(sys)) /\ mode = Missing
  BY DEF Init, PlainFiles
<1>2. \A w \in Windows : system[w] = Load(sys) /\ helper[w] = NoHelper
  BY DEF Init
<1>3. Load(sys).text = TextOf(sys) /\ TextOf(Load(sys).read) = TextOf(sys)
  BY DEF Load, TextOf
<1>4. NoKeyTables(NoHelper.new)
  BY DEF NoHelper, NoKeyTables, Headers
<1> QED
  BY <1>1, <1>2, <1>3, <1>4 DEF TablesInv

LEMMA RowSetsKey ==
  ASSUME TextsTyped, TablesInv, Inv, NEW w \in Windows, NEW k \in DOMAIN Offered, NEW v \in Offered[k],
         SystemRow(w, k, v) \/ FieldRow(w, k, v), WellFormed(system[w].text), NEW written,
         written = IF k \in SystemRows THEN Literal(v, RowOf(k).default) ELSE v
  PROVE  /\ WellFormed(system'[w].text)
         /\ Values(system'[w].text) = [Values(system[w].text) EXCEPT ![k] = written]
<1>1. k \in Keys /\ v \in Int /\ written \in Int \cup {Unset}
  BY PickedType
<1>2. SetSystem(w, Edit(system[w].text, k, written))
  <2>1. CASE SystemRow(w, k, v)
    BY <2>1 DEF SystemRow
  <2>2. CASE FieldRow(w, k, v)
    <3>1. k \notin SystemRows
      BY <2>2 DEF FieldRow, SystemRows, MatchingRows, TimingRows, LivenessRows, SecurityRows,
                  CameraRows, ModelRows
    <3> QED
      BY <2>2, <3>1 DEF FieldRow
  <2> QED
    BY <2>1, <2>2
<1>3. system'[w].text = Edit(system[w].text, k, written)
  <2>1. system' = SetText(system, w, Edit(system[w].text, k, written))
    BY <1>2 DEF SetSystem, SetText
  <2> QED
    BY <2>1, TextSet DEF Inv, Shape
<1>4. system[w].text \in Texts /\ NoKeyTables(system[w].text)
  BY DEF TextsTyped, TablesInv
<1> QED
  BY <1>1, <1>3, <1>4, EditSets

(* "edits are line by line" and "Comments and other keys are left as they    *)
(* were" (keys.rs:4-10), for every text, key and value: a row sets its key,  *)
(* changes what no other key reads, and leaves a text that parses parsing,   *)
(* unless root's hand has opened a table called like a key, [motion], which  *)
(* no configuration may.                                                     *)
THEOREM EditExactHolds == ASSUME PlainFiles PROVE Spec => EditExact
<1>1. Init => Inv /\ TextsTyped /\ TablesInv
  BY InvInit, TypedInit, TablesInit
<1>2. (Inv /\ TextsTyped /\ TablesInv) /\ [Next]_vars => (Inv /\ TextsTyped /\ TablesInv)'
  BY InvStep, TypedStep, TablesStep
<1>3. (Inv /\ TextsTyped /\ TablesInv) /\ [Next]_vars
        => [rows' > rows =>
              \A w \in Windows : \A k \in DOMAIN Offered : \A v \in Offered[k] :
                (SystemRow(w, k, v) \/ FieldRow(w, k, v)) =>
                  LET old == system[w].text
                      new == system'[w].text
                      written == IF k \in SystemRows THEN Literal(v, RowOf(k).default) ELSE v
                  IN  WellFormed(old) =>
                        WellFormed(new) /\ Values(new) = [Values(old) EXCEPT ![k] = written]]_vars
  BY RowSetsKey
<1> QED
  BY <1>1, <1>2, <1>3, PTL DEF Spec, EditExact

-----------------------------------------------------------------------------
(* RowTakesEffect: first, the user's file opens no such table either.        *)

OwnTablesInv ==
  /\ NoKeyTables(TextOf(own)) /\ (tray # Missing => NoKeyTables(tray))
  /\ \A w \in Windows : NoKeyTables(user[w].text)

LEMMA MinutesOpenNone ==
  ASSUME NEW text \in Texts, NEW minutes \in Int, NoKeyTables(text)
  PROVE  NoKeyTables(WithMinutes(text, minutes))
<1> DEFINE line == Assign(Flat("tray_idle"), minutes)
           held == {i \in KeyLines(text) : i <= TopEnd(text) /\ text[i].name = Flat("tray_idle")}
           new == WithMinutes(text, minutes)
<1>1. Len(text) \in Nat /\ text \in Seq(Line) /\ KeyLines(text) \in SUBSET (1..Len(text))
  BY Places DEF Texts
<1>2. line \in Line /\ line.kind = "key"
  <2>1. Written("tray_idle") = Flat("tray_idle") /\ "tray_idle" \in Keys
    BY DEF Written, Group, Table, Keys
  <2> QED
    BY <2>1, KeyNames, AssignType DEF Assign
<1>3. new = IF held = {} THEN <<line>> \o text ELSE Replace(text, FirstOf(held), line)
  BY DEF WithMinutes
<1> SUFFICES ASSUME NEW h \in Headers(new) PROVE \E g \in Headers(text) : text[g] = new[h]
  BY DEF NoKeyTables
<1>4. CASE held = {}
  <2>1. <<line>> \in Seq(Line) /\ Len(<<line>>) = 1 /\ <<line>>[1] = line
    BY <1>2
  <2> HIDE DEF line, held
  <2>2. Len(new) = Len(text) + 1
        /\ \A i \in 1..(1 + Len(text)) : new[i] = IF i <= 1 THEN <<line>>[i] ELSE text[i - 1]
    BY <1>1, <1>3, <1>4, <2>1, ConcatProperties
  <2> HIDE DEF new
  <2>3. h \in 1..(1 + Len(text)) /\ new[h].kind = "header"
    BY <1>1, <2>2 DEF Headers
  <2>4. h # 1
    BY <1>2, <2>1, <2>2, <2>3
  <2>5. h - 1 \in 1..Len(text) /\ new[h] = text[h - 1]
    BY <1>1, <2>2, <2>3, <2>4
  <2> QED
    BY <2>3, <2>5 DEF Headers
<1>5. CASE held # {}
  <2>1. FirstOf(held) \in held
    <3>1. held \in SUBSET Nat
      BY <1>1
    <3> HIDE DEF held
    <3> QED
      BY <1>5, <3>1, FirstIs
  <2>2. FirstOf(held) \in 1..Len(text)
    BY <1>1, <2>1
  <2> HIDE DEF held, line
  <2>3. Len(new) = Len(text)
        /\ \A i \in 1..Len(text) : new[i] = IF i = FirstOf(held) THEN line ELSE text[i]
    BY <1>1, <1>2, <1>3, <1>5, <2>2, ExceptSeq DEF Replace
  <2> HIDE DEF new
  <2>4. h \in 1..Len(text) /\ new[h] = text[h]
    BY <1>2, <2>3 DEF Headers
  <2> QED
    BY <2>4 DEF Headers
<1> QED
  BY <1>4, <1>5

LEMMA UserRowText ==
  ASSUME Inv, NEW w \in Windows, NEW k, NEW v, UserRow(w, k, v)
  PROVE  /\ user'[w].text = Edit(user[w].text, k, Literal(v, UserDefault(w, k)))
         /\ \A u \in Windows : u # w => user'[u] = user[u]
<1>1. user' = SetText(user, w, Edit(user[w].text, k, Literal(v, UserDefault(w, k))))
  BY DEF UserRow, SetText
<1> QED
  BY <1>1, TextSet DEF Inv, Shape

LEMMA OwnTablesStep == Inv /\ TextsTyped /\ OwnTablesInv /\ [Next]_vars => OwnTablesInv'
<1> SUFFICES ASSUME Inv, TextsTyped, OwnTablesInv, [Next]_vars PROVE OwnTablesInv'
  OBVIOUS
<1>0. Fn(user) /\ \A v \in Windows : Doc(user[v])
  BY DEF Inv, Shape
<1>1. ASSUME UNCHANGED <<own, tray, user>> PROVE OwnTablesInv'
  BY <1>1 DEF OwnTablesInv
<1>2. CASE Unfocus \/ UNCHANGED vars
  BY <1>1, <1>2 DEF Unfocus, vars, files, windows
<1>3. ASSUME NEW w \in Windows, WindowStep(w) PROVE OwnTablesInv'
  <2>1. CASE RowStep(w)
    <3>1. UNCHANGED <<own, tray, user>>
      BY <2>1 DEF RowStep, SystemRow, FieldRow, PresetRow, RemovePin, SetSystem, files
    <3> QED
      BY <1>1, <3>1
  <2>2. CASE UserRowStep(w)
    <3>1. PICK k \in UserRows \cap DOMAIN Offered : \E v \in Offered[k] \cup {Unset} : UserRow(w, k, v)
      BY <2>2 DEF UserRowStep
    <3>2. PICK v \in Offered[k] \cup {Unset} : UserRow(w, k, v)
      BY <3>1
    <3>3. k \in Keys /\ Literal(v, UserDefault(w, k)) \in Int \cup {Unset}
      BY <3>2, OfferedAssumption DEF Literal
    <3>4. NoKeyTables(Edit(user[w].text, k, Literal(v, UserDefault(w, k))))
      BY <3>3, EditOpensNone DEF TextsTyped, OwnTablesInv
    <3>5. \A u \in Windows : NoKeyTables(user'[u].text)
      BY <3>2, <3>4, UserRowText DEF OwnTablesInv
    <3>6. UNCHANGED <<own, tray>>
      BY <3>2 DEF UserRow, files
    <3> QED
      BY <3>5, <3>6 DEF OwnTablesInv
  <2>3. CASE Focus(w) \/ TakeResult(w) \/ Open(w) \/ Discard(w) \/ ApplyNow(w) \/ SaveFails(w)
    <3>1. user' = user \/ user' = Put(user, w, Load(own))
      BY <2>3 DEF Focus, TakeResult, Open, Discard, ApplyNow, SaveFails, Put
    <3>2. UNCHANGED <<own, tray>>
      BY <2>3 DEF Focus, TakeResult, Open, Discard, ApplyNow, SaveFails, files
    <3>3. NoKeyTables(Load(own).text)
      BY DEF Load, OwnTablesInv
    <3>4. \A u \in Windows : NoKeyTables(user'[u].text)
      BY <1>0, <3>1, <3>3, Replaced DEF OwnTablesInv
    <3> QED
      BY <3>2, <3>4 DEF OwnTablesInv
  <2>4. CASE Settle(w) \/ Close(w)
    <3>1. user' = user \/ user' = SetRead(user, w, user[w].text)
      BY <2>4 DEF Settle, Close, SetRead
    <3>2. tray' = tray /\ (own' = own \/ own' = user[w].text)
      BY <2>4 DEF Settle, Close
    <3>3. NoKeyTables(TextOf(own'))
      <4>1. TextOf(user[w].text) = user[w].text
        BY FilesAssumption DEF TextsTyped, TextOf
      <4> QED
        BY <3>2, <4>1 DEF OwnTablesInv
    <3>4. \A u \in Windows : NoKeyTables(user'[u].text)
      BY <1>0, <3>1, ReadSet DEF OwnTablesInv
    <3> QED
      BY <3>2, <3>3, <3>4 DEF OwnTablesInv
  <2> QED
    BY <1>3, <2>1, <2>2, <2>3, <2>4 DEF WindowStep
<1>4. ASSUME NEW w \in Windows, HelperStep(w) PROVE OwnTablesInv'
  BY <1>1, <1>4 DEF HelperStep, HelperChecks, HelperRefuses, HelperWrites, files, windows
<1>5. CASE OtherStep
  <2>1. user' = user
    BY <1>5 DEF OtherStep, ModeReads, ModeWrites, HandWrites, TrayReads, TrayWrites, windows
  <2>2. ASSUME NEW minutes \in Minutes, TrayReads(minutes) PROVE OwnTablesInv'
    <3>1. own' = own /\ tray' = WithMinutes(TextOf(own), minutes)
      BY <2>2 DEF TrayReads, files
    <3>2. NoKeyTables(WithMinutes(TextOf(own), minutes))
      BY OfferedAssumption, FileText, MinutesOpenNone DEF TextsTyped, OwnTablesInv
    <3> QED
      BY <2>1, <3>1, <3>2 DEF OwnTablesInv
  <2>3. CASE TrayWrites
    <3>1. TextOf(tray) = tray /\ NoKeyTables(tray)
      BY <2>3, FilesAssumption DEF TrayWrites, TextOf, TextsTyped, OwnTablesInv
    <3> QED
      BY <2>1, <2>3, <3>1 DEF TrayWrites, OwnTablesInv
  <2>4. CASE ModeWrites \/ (\E parts \in Modes : ModeReads(parts))
             \/ \E file \in HandFiles : HandWrites(file)
    BY <1>1, <2>1, <2>4 DEF ModeWrites, ModeReads, HandWrites, files
  <2> QED
    BY <1>5, <2>2, <2>3, <2>4 DEF OtherStep
<1> QED
  BY <1>2, <1>3, <1>4, <1>5 DEF Next

LEMMA OwnTablesInit == ASSUME PlainFiles PROVE Init => OwnTablesInv
<1> SUFFICES ASSUME Init PROVE OwnTablesInv
  OBVIOUS
<1>1. NoKeyTables(TextOf(own)) /\ tray = Missing
  BY DEF Init, PlainFiles
<1>2. \A w \in Windows : user[w].text = TextOf(own)
  BY DEF Init, Load
<1> QED
  BY <1>1, <1>2 DEF OwnTablesInv

-----------------------------------------------------------------------------
(* What a text loads to, key by key. *)

LEMMA ReadsType ==
  ASSUME NEW text \in Texts, NEW k
  PROVE  Reads(text, k) \in Int \cup {Unset}
<1>1. ASSUME NEW name PROVE Said(text, name) \in Int \cup {Unset}
  <2>1. CASE Saying(text, name) = {}
    BY <2>1 DEF Said
  <2>2. CASE Saying(text, name) # {}
    <3>1. Saying(text, name) \in SUBSET Nat
      BY Places DEF Saying
    <3>2. FirstOf(Saying(text, name)) \in Saying(text, name)
      BY <2>2, <3>1, FirstIs
    <3>3. FirstOf(Saying(text, name)) \in 1..Len(text)
      BY <3>2, Places DEF Saying
    <3>4. text[FirstOf(Saying(text, name))] \in Line
      BY <3>3 DEF Texts
    <3> QED
      BY <2>2, <3>4 DEF Said, Line
  <2> QED
    BY <2>1, <2>2
<1> QED
  BY <1>1 DEF Reads

\* The preset a text names.
PresetOf(text) == AsFile(text).preset

LEMMA PresetIs ==
  ASSUME NEW text
  PROVE  PresetOf(text) = IF Reads(text, "preset") = Unset THEN "none"
                          ELSE IF Reads(text, "preset") \in 1..3
                               THEN PresetNames[Reads(text, "preset")] ELSE "other"
  BY DEF PresetOf, AsFile

\* What a setting has of a preset.
Filled(preset, s) ==
  IF preset \in Presets /\ s = "motion" THEN Motion[preset]
  ELSE IF preset \in Presets /\ s = "residual" THEN Residual[preset]
  ELSE Unset

LEMMA TomlIs ==
  ASSUME NEW text, NEW s \in Settings
  PROVE  FromToml(text)[s] = IF Reads(text, s) # Unset THEN Reads(text, s)
                             ELSE Filled(PresetOf(text), s)
<1>1. s \in Grouped <=> Group(s) # NoName
  BY DEF Settings, Floors, Timings, Policies, Grouped, Group, Table, NoName
<1>2. s \notin Grouped => Said(text, Group(s)) = Unset
  BY <1>1, SaidNoName
<1>3. AsFile(text).flat[s] = Said(text, Flat(s))
  BY DEF AsFile
<1>4. s \in Grouped => AsFile(text).group[s] = Said(text, Group(s))
  BY DEF AsFile
<1>5. FromPreset(AsFile(text), s) = Filled(PresetOf(text), s)
  BY DEF FromPreset, Filled, PresetOf
<1>6. FromToml(text)[s]
        = IF AsFile(text).flat[s] # Unset THEN AsFile(text).flat[s]
          ELSE IF s \in Grouped /\ AsFile(text).group[s] # Unset THEN AsFile(text).group[s]
          ELSE FromPreset(AsFile(text), s)
  BY DEF FromToml, FoldSections
<1> QED
  BY <1>2, <1>3, <1>4, <1>5, <1>6 DEF Reads

LEMMA Ranges ==
  ASSUME NEW s \in Floors
  PROVE  /\ Default[s] \in Lo[s]..Hi[s] /\ Lo[s] \in Int /\ Hi[s] \in Int
         /\ \A preset : Filled(preset, s) = Unset \/ Filled(preset, s) \in Lo[s]..Hi[s]
<1>1. Default[s] \in Lo[s]..Hi[s] /\ Lo[s] \in Int /\ Hi[s] \in Int
  BY DEF Floors, Default, Lo, Hi
<1>2. ASSUME NEW preset PROVE Filled(preset, s) = Unset \/ Filled(preset, s) \in Lo[s]..Hi[s]
  BY DEF Filled, Presets, Motion, Residual, Lo, Hi
<1> QED
  BY <1>1, <1>2

\* What config.rs clamps is no threshold.
LEMMA FloorValue ==
  ASSUME NEW config, NEW s \in Floors
  PROVE  Value(config, s) = IF config[s] = Unset THEN Default[s] ELSE config[s]
<1>1. s \notin Clamped /\ s # "lockout_threshold"
  BY DEF Floors, Clamped, Timings
<1> QED
  BY <1>1 DEF Value

(* A text loads if every threshold that it gives is in its range. *)
LEMMA LoadsIs ==
  ASSUME NEW text \in Texts
  PROVE  LoadsText(text) <=> /\ WellFormed(text) /\ PresetOf(text) # "other"
                             /\ \A s \in Floors : \/ Reads(text, s) = Unset
                                                  \/ Reads(text, s) \in Lo[s]..Hi[s]
<1>1. LoadsText(text) <=> WellFormed(text) /\ PresetOf(text) # "other" /\ Valid(FromToml(text))
  BY DEF LoadsText, Loads, Parses, PresetOf, FromToml
<1>2. ASSUME NEW s \in Floors
      PROVE  Value(FromToml(text), s) \in Lo[s]..Hi[s]
               <=> Reads(text, s) = Unset \/ Reads(text, s) \in Lo[s]..Hi[s]
  <2>1. s \in Settings
    BY DEF Settings
  <2>2. CASE Reads(text, s) # Unset
    <3>1. Value(FromToml(text), s) = Reads(text, s)
      BY <2>1, <2>2, TomlIs, FloorValue
    <3> QED
      BY <2>2, <3>1
  <2>3. CASE Reads(text, s) = Unset
    <3>1. FromToml(text)[s] = Filled(PresetOf(text), s)
      BY <2>1, <2>3, TomlIs
    <3>2. Value(FromToml(text), s) \in Lo[s]..Hi[s]
      BY <3>1, FloorValue, Ranges
    <3> QED
      BY <2>3, <3>2
  <2> QED
    BY <2>2, <2>3
<1>3. Valid(FromToml(text)) <=> \A s \in Floors : Value(FromToml(text), s) \in Lo[s]..Hi[s]
  BY DEF Valid
<1> QED
  BY <1>1, <1>2, <1>3

LEMMA SettingKeys == Settings \subseteq Keys /\ "preset" \in Keys /\ "preset" \notin Settings
  BY DEF Keys, Settings, Floors, Timings, Policies

LEMMA ReadsSet ==
  ASSUME NEW text \in Texts, NEW k \in Keys, NEW v \in Int \cup {Unset}, NoKeyTables(text),
         WellFormed(text), NEW new, new = Edit(text, k, v)
  PROVE  /\ new \in Texts /\ WellFormed(new) /\ NoKeyTables(new)
         /\ \A j \in Keys : Reads(new, j) = IF j = k THEN v ELSE Reads(text, j)
<1>1. new \in Texts /\ NoKeyTables(new) /\ WellFormed(new)
      /\ Values(new) = [Values(text) EXCEPT ![k] = v]
  BY EditType, EditOpensNone, EditSets
<1>2. Values(text) = [j \in Keys |-> Reads(text, j)] /\ Values(new) = [j \in Keys |-> Reads(new, j)]
  BY <1>1 DEF Values
<1>3. ASSUME NEW j \in Keys PROVE Reads(new, j) = IF j = k THEN v ELSE Reads(text, j)
  <2>1. Reads(new, j) = Values(new)[j] /\ Reads(text, j) = Values(text)[j]
    BY <1>2
  <2>2. DOMAIN Values(text) = Keys
    BY <1>2
  <2> QED
    BY <1>1, <2>1, <2>2
<1> QED
  BY <1>1, <1>3

(* Whatever is set but the preset, the text loads if it did. *)
LEMMA EditLoads ==
  ASSUME NEW text \in Texts, NEW k \in Keys, k # "preset", NEW v \in Int \cup {Unset},
         NoKeyTables(text), LoadsText(text), k \in Floors => v = Unset \/ v \in Lo[k]..Hi[k]
  PROVE  LoadsText(Edit(text, k, v))
<1> DEFINE new == Edit(text, k, v)
<1>1. WellFormed(text)
  BY LoadsIs
<1>2. /\ new \in Texts /\ WellFormed(new)
      /\ \A j \in Keys : Reads(new, j) = IF j = k THEN v ELSE Reads(text, j)
  BY <1>1, ReadsSet
<1> HIDE DEF new
<1>3. PresetOf(new) = PresetOf(text)
  BY <1>2, SettingKeys, PresetIs
<1>4. ASSUME NEW s \in Floors PROVE Reads(new, s) = Unset \/ Reads(new, s) \in Lo[s]..Hi[s]
  <2>1. s \in Keys
    BY SettingKeys DEF Settings
  <2>2. Reads(text, s) = Unset \/ Reads(text, s) \in Lo[s]..Hi[s]
    BY LoadsIs
  <2>3. CASE s = k
    BY <1>2, <2>1, <2>3
  <2>4. CASE s # k
    BY <1>2, <2>1, <2>2, <2>4
  <2> QED
    BY <2>3, <2>4
<1>5. PresetOf(text) # "other"
  BY LoadsIs
<1>6. LoadsText(new)
  BY <1>2, <1>3, <1>4, <1>5, LoadsIs
<1> QED
  BY <1>6 DEF new

LEMMA PresetLoads ==
  ASSUME NEW text \in Texts, NEW v \in (1..3) \cup {Unset}, NoKeyTables(text), LoadsText(text)
  PROVE  LoadsText(Edit(text, "preset", v))
<1> DEFINE new == Edit(text, "preset", v)
<1>1. WellFormed(text)
  BY LoadsIs
<1>2. /\ new \in Texts /\ WellFormed(new)
      /\ \A j \in Keys : Reads(new, j) = IF j = "preset" THEN v ELSE Reads(text, j)
  <2>1. "preset" \in Keys /\ v \in Int \cup {Unset}
    BY SettingKeys
  <2> QED
    BY <1>1, <2>1, ReadsSet
<1> HIDE DEF new
<1>3. PresetOf(new) # "other"
  <2>1. Reads(new, "preset") = v
    BY <1>2, SettingKeys
  <2>2. \A p \in 1..3 : PresetNames[p] # "other"
    BY DEF PresetNames
  <2> QED
    BY <2>1, <2>2, PresetIs
<1>4. ASSUME NEW s \in Floors PROVE Reads(new, s) = Unset \/ Reads(new, s) \in Lo[s]..Hi[s]
  <2>1. s \in Keys /\ s # "preset"
    BY SettingKeys DEF Settings
  <2>2. Reads(text, s) = Unset \/ Reads(text, s) \in Lo[s]..Hi[s]
    BY LoadsIs
  <2> QED
    BY <1>2, <2>1, <2>2
<1>5. LoadsText(new)
  BY <1>2, <1>3, <1>4, LoadsIs
<1> QED
  BY <1>5 DEF new

-----------------------------------------------------------------------------
(* The pages' table agrees with the accessors. *)

LEMMA RowKnown ==
  ASSUME NEW k \in SystemRows
  PROVE  /\ k \in Keys /\ k # "preset"
         /\ k \in Settings => RowOf(k).default = Default[k]
         /\ k \in Floors \cup Clamped => RowOf(k).lo = Lo[k] /\ RowOf(k).hi = Hi[k]
         /\ k = "lockout_threshold" => RowOf(k).lo = 1
         /\ RowOf(k).lo \in Int /\ RowOf(k).hi \in Int
<1> USE DEF Num, Switch, Clamped
<1>1. CASE k \in DOMAIN MatchingRows
  <2>1. RowOf(k) = MatchingRows[k] /\ k \in {"threshold", "detector_threshold", "min_face"}
    BY <1>1 DEF RowOf, MatchingRows
  <2> QED
    BY <2>1 DEF MatchingRows, Keys, Settings, Floors, Timings, Default, Lo, Hi
<1>2. CASE k \in DOMAIN TimingRows
  <2>1. RowOf(k) = TimingRows[k] /\ k \in {"scan_duration", "grace", "capture_timeout", "scan_interval"}
    BY <1>2 DEF RowOf, MatchingRows, TimingRows
  <2> QED
    BY <2>1 DEF TimingRows, Keys, Settings, Floors, Timings, Default, Lo, Hi
<1>3. CASE k \in DOMAIN LivenessRows
  <2>1. RowOf(k) = LivenessRows[k] /\ k \in {"motion", "residual", "window"}
    BY <1>3 DEF RowOf, MatchingRows, TimingRows, LivenessRows
  <2> QED
    BY <2>1 DEF LivenessRows, Keys, Settings, Floors, Timings, Policies, Default, Lo, Hi
<1>4. CASE k \in DOMAIN SecurityRows
  <2>1. RowOf(k) = SecurityRows[k]
        /\ k \in {"abort_if_ssh", "abort_if_lid_closed", "seat_check", "require_confirmation",
                  "start_delay", "start_delay_all", "lockout_threshold", "lockout_base_delay",
                  "lockout_max_delay", "seal", "update_check"}
    BY <1>4 DEF RowOf, MatchingRows, TimingRows, LivenessRows, SecurityRows
  <2> QED
    BY <2>1 DEF SecurityRows, Keys, Settings, Floors, Timings, Policies, Default, Lo, Hi
<1>5. CASE k \in DOMAIN CameraRows \cup DOMAIN ModelRows
  <2>1. k \in {"bind_camera", "backend", "npu_device"}
        /\ RowOf(k) = IF k = "bind_camera" THEN CameraRows[k] ELSE ModelRows[k]
    BY <1>5 DEF RowOf, MatchingRows, TimingRows, LivenessRows, SecurityRows, CameraRows, ModelRows
  <2> QED
    BY <2>1 DEF CameraRows, ModelRows, Keys, Settings, Floors, Timings, Policies, Default, Lo, Hi
<1> QED
  BY <1>1, <1>2, <1>3, <1>4, <1>5 DEF SystemRows

LEMMA FilledNone ==
  ASSUME NEW preset, NEW s, s \notin {"motion", "residual"} \/ preset = "none"
  PROVE  Filled(preset, s) = Unset
<1>1. "none" \notin Presets
  BY DEF Presets
<1> QED
  BY <1>1 DEF Filled

(* A value within its row's range is the one that counts. *)
LEMMA Unclamped ==
  ASSUME NEW config, NEW s \in Settings, config[s] \in Int,
         s \in Clamped => config[s] \in Lo[s]..Hi[s], s = "lockout_threshold" => config[s] >= 1
  PROVE  Value(config, s) = config[s]
<1>1. config[s] # Unset
  BY UnsetAssumption
<1>2. CASE s \in Clamped
  <2>1. Lo[s] \in Int /\ Hi[s] \in Int
    BY <1>2 DEF Clamped, Timings, Lo, Hi
  <2> QED
    BY <1>1, <1>2, <2>1 DEF Value, Clamp
<1>3. CASE s \notin Clamped
  BY <1>1, <1>3 DEF Value
<1> QED
  BY <1>2, <1>3

(* What a system row sets is what the file then says, and loads. *)
LEMMA RowTakes ==
  ASSUME NEW text \in Texts, NoKeyTables(text), ParsesText(text), NEW k \in SystemRows, NEW v \in Int,
         RowOf(k).lo <= v, v <= RowOf(k).hi, ~PresetFills(text, k, v, RowOf(k).default),
         NEW new, new = Edit(text, k, Literal(v, RowOf(k).default)), NEW j \in SystemRows
  PROVE  RowValue(new, j) = IF j = k THEN v ELSE RowValue(text, j)
<1> DEFINE d == RowOf(k).default
           written == Literal(v, d)
<1>0. written \in Int \cup {Unset} /\ written = IF v = d THEN Unset ELSE v
  BY DEF Literal
<1>1. WellFormed(text) /\ PresetOf(text) # "other"
  BY DEF ParsesText, Parses, PresetOf
<1>2. /\ new \in Texts /\ WellFormed(new)
      /\ \A i \in Keys : Reads(new, i) = IF i = k THEN written ELSE Reads(text, i)
  <2>1. new = Edit(text, k, written) /\ k \in Keys
    BY RowKnown
  <2> HIDE DEF written
  <2> QED
    BY <1>0, <1>1, <2>1, ReadsSet
<1> HIDE DEF written, d
<1>3. PresetOf(new) = PresetOf(text)
  BY <1>2, RowKnown, SettingKeys, PresetIs
<1>4. ParsesText(new)
  BY <1>1, <1>2, <1>3 DEF ParsesText, Parses, PresetOf
<1>5. /\ \A i \in Keys : Values(new)[i] = Reads(new, i) /\ Values(text)[i] = Reads(text, i)
      /\ Shown(new) = FromToml(new) /\ Shown(text) = FromToml(text)
  BY <1>1, <1>2, <1>4 DEF Values, Shown
<1>6. j \in Keys
  BY RowKnown
<1>7. CASE j # k
  <2>1. Reads(new, j) = Reads(text, j)
    BY <1>2, <1>6, <1>7
  <2>2. CASE j \in Settings
    <3>1. FromToml(new)[j] = FromToml(text)[j]
      BY <1>3, <2>1, <2>2, TomlIs
    <3>2. Value(FromToml(new), j) = Value(FromToml(text), j)
      BY <3>1 DEF Value
    <3> QED
      BY <1>5, <1>7, <2>2, <3>2 DEF RowValue
  <2>3. CASE j \notin Settings
    BY <1>5, <1>6, <1>7, <2>1, <2>3 DEF RowValue
  <2> QED
    BY <2>2, <2>3
<1>8. CASE j = k
  <2>1. Reads(new, k) = written
    BY <1>2, <1>6, <1>8
  <2>2. CASE k \in Settings /\ v # d
    <3>1. FromToml(new)[k] = v
      BY <1>0, <2>1, <2>2, TomlIs, UnsetAssumption
    <3>2. k \in Clamped => v \in Lo[k]..Hi[k]
      BY RowKnown DEF Clamped, Timings, Lo, Hi
    <3>3. k = "lockout_threshold" => v >= 1
      BY RowKnown
    <3>4. Value(FromToml(new), k) = v
      BY <2>2, <3>1, <3>2, <3>3, Unclamped
    <3> QED
      BY <1>5, <1>8, <2>2, <3>4 DEF RowValue
  <2>3. CASE k \in Settings /\ v = d
    <3>1. Filled(PresetOf(new), k) = Unset
      <4>1. k \in {"motion", "residual"} => Reads(text, "preset") = Unset
        BY <1>5, <2>3, SettingKeys DEF PresetFills, d
      <4>2. k \in {"motion", "residual"} => PresetOf(new) = "none"
        BY <1>3, <4>1, PresetIs
      <4> QED
        BY <4>2, FilledNone
    <3>2. FromToml(new)[k] = Unset
      BY <1>0, <2>1, <2>3, <3>1, TomlIs
    <3>3. Value(FromToml(new), k) = Default[k] /\ v = Default[k]
      BY <2>3, <3>2, RowKnown DEF Value, d
    <3> QED
      BY <1>5, <1>8, <2>3, <3>3 DEF RowValue
  <2>4. CASE k \notin Settings
    <3>1. Values(new)[k] = IF v = d THEN Unset ELSE v
      BY <1>0, <1>5, <1>6, <1>8, <2>1
    <3> QED
      BY <1>8, <2>4, <3>1, UnsetAssumption DEF RowValue, d
  <2> QED
    BY <2>2, <2>3, <2>4
<1> QED
  BY <1>7, <1>8

(* What a row of the user's sets is what unlocking goes by. *)
LEMMA UserRowTakes ==
  ASSUME NEW base \in Texts, LoadsText(base), NEW text \in Texts, NoKeyTables(text),
         ParsesText(text), NEW k \in Floors \cup Timings, NEW d, d = Value(FromToml(base), k),
         NEW v \in Int, v <= RowOf(k).hi, k \in Floors => d <= v, k \in Timings => RowOf(k).lo <= v,
         ~PresetFills(text, k, v, d), NEW new, new = Edit(text, k, Literal(v, d))
  PROVE  Value(LoadForAuth(AsFile(base), AsFile(new)), k) = v
<1> DEFINE written == Literal(v, d)
           loaded == FromToml(base)
<1>0. written \in Int \cup {Unset} /\ written = IF v = d THEN Unset ELSE v
  BY DEF Literal
<1>1. WellFormed(text) /\ PresetOf(text) # "other"
  BY DEF ParsesText, Parses, PresetOf
<1>2. k \in SystemRows /\ k \in Settings /\ k \in Keys /\ k # "preset"
  <2>1. k \in SystemRows /\ k \in Settings
    BY DEF SystemRows, MatchingRows, TimingRows, LivenessRows, Settings, Floors, Timings
  <2> QED
    BY <2>1, RowKnown
<1>3. /\ new \in Texts /\ WellFormed(new)
      /\ \A i \in Keys : Reads(new, i) = IF i = k THEN written ELSE Reads(text, i)
  <2>1. new = Edit(text, k, written)
    OBVIOUS
  <2> HIDE DEF written
  <2> QED
    BY <1>0, <1>1, <1>2, <2>1, ReadsSet
<1> HIDE DEF written, loaded
<1>4. PresetOf(new) = PresetOf(text)
  BY <1>2, <1>3, SettingKeys, PresetIs
<1>5. LoadForAuth(AsFile(base), AsFile(new)) = WithUserOverlay(loaded, FromToml(new))
  BY <1>1, <1>4 DEF LoadForAuth, Parses, PresetOf, FromToml, loaded
<1> DEFINE final == WithUserOverlay(loaded, FromToml(new))
<1>6. final[k] = IF Honours(loaded, FromToml(new), k) THEN FromToml(new)[k] ELSE loaded[k]
  BY <1>2 DEF WithUserOverlay
<1> HIDE DEF final
<1>7. Reads(new, k) = written
  BY <1>2, <1>3
<1>8. /\ RowOf(k).lo = Lo[k] /\ RowOf(k).hi = Hi[k] /\ Lo[k] \in Int /\ Hi[k] \in Int
      /\ k \in Floors => d \in Lo[k]..Hi[k]
  <2>1. RowOf(k).lo = Lo[k] /\ RowOf(k).hi = Hi[k] /\ Lo[k] \in Int /\ Hi[k] \in Int
    BY <1>2, RowKnown DEF Floors, Clamped, Timings, Lo, Hi
  <2>2. k \in Floors => d \in Lo[k]..Hi[k]
    BY DEF LoadsText, Loads, Valid, FromToml
  <2> QED
    BY <2>1, <2>2
<1>9. v \in Lo[k]..Hi[k]
  BY <1>8
<1>10. k # "lockout_threshold" /\ k \in Settings
  BY <1>2 DEF Floors, Timings
<1>11. CASE v # d
  <2>1. FromToml(new)[k] = v
    BY <1>0, <1>2, <1>7, <1>11, TomlIs, UnsetAssumption
  <2>2. Honours(loaded, FromToml(new), k)
    BY <1>9, <2>1, UnsetAssumption DEF Honours, InRange, loaded
  <2>3. final[k] = v
    BY <1>6, <2>1, <2>2
  <2>4. Value(final, k) = v
    BY <1>2, <1>9, <1>10, <2>3, Unclamped
  <2> QED
    BY <1>5, <2>4 DEF final
<1>12. CASE v = d
  <2>1. Filled(PresetOf(new), k) = Unset
    <3>1. k \in {"motion", "residual"} => Reads(text, "preset") = Unset
      BY <1>1, <1>12, SettingKeys DEF PresetFills, Values
    <3>2. k \in {"motion", "residual"} => PresetOf(new) = "none"
      BY <1>4, <3>1, PresetIs
    <3> QED
      BY <3>2, FilledNone
  <2>2. FromToml(new)[k] = Unset
    BY <1>0, <1>2, <1>7, <1>12, <2>1, TomlIs
  <2>3. final[k] = loaded[k]
    BY <1>6, <2>2 DEF Honours
  <2>4. Value(final, k) = Value(loaded, k)
    BY <2>3 DEF Value
  <2> QED
    BY <1>5, <1>12, <2>4 DEF final, loaded
<1> QED
  BY <1>11, <1>12

(* No row makes of a file that loads one that Apply is refused for. *)
LEMMA RowLoads ==
  ASSUME TextsTyped, TablesInv, NEW w \in Windows, LoadsText(system[w].text), RowStep(w)
  PROVE  \E text : SetSystem(w, text) /\ LoadsText(text)
<1>0. system[w].text \in Texts /\ NoKeyTables(system[w].text)
  BY DEF TextsTyped, TablesInv
<1>1. ASSUME NEW k, NEW v, SystemRow(w, k, v)
      PROVE  \E text : SetSystem(w, text) /\ LoadsText(text)
  <2>1. k \in SystemRows /\ k \in DOMAIN Offered /\ v \in Offered[k] /\ RowOf(k).lo <= v
        /\ v <= RowOf(k).hi
    BY <1>1 DEF SystemRow, Within
  <2>2. v \in Int /\ Literal(v, RowOf(k).default) \in Int \cup {Unset}
        /\ (Literal(v, RowOf(k).default) = Unset \/ Literal(v, RowOf(k).default) = v)
    BY <2>1, PickedType DEF Literal
  <2>3. k \in Keys /\ k # "preset" /\ (k \in Floors => v \in Lo[k]..Hi[k])
    BY <2>1, <2>2, RowKnown, Ranges
  <2>4. LoadsText(Edit(system[w].text, k, Literal(v, RowOf(k).default)))
    BY <1>0, <2>2, <2>3, EditLoads
  <2> QED
    BY <1>1, <2>4 DEF SystemRow
<1>2. ASSUME NEW k, NEW v, FieldRow(w, k, v)
      PROVE  \E text : SetSystem(w, text) /\ LoadsText(text)
  <2>1. k \in Keys /\ v \in Int \cup {Unset} /\ k # "preset" /\ k \notin Floors
    BY <1>2, OfferedAssumption DEF FieldRow, Floors
  <2>2. LoadsText(Edit(system[w].text, k, v))
    BY <1>0, <2>1, EditLoads
  <2> QED
    BY <1>2, <2>2 DEF FieldRow
<1>3. ASSUME NEW p, PresetRow(w, p), p \in 1..3
      PROVE  \E text : SetSystem(w, text) /\ LoadsText(text)
  <2>1. "motion" \in Keys /\ "residual" \in Keys
    BY DEF Keys, Settings, Floors
  <2>2. Literal(p, 2) \in (1..3) \cup {Unset}
    BY <1>3 DEF Literal
  <2> DEFINE one == Edit(system[w].text, "motion", Unset)
             two == Edit(one, "residual", Unset)
  <2>3. one \in Texts /\ NoKeyTables(one) /\ LoadsText(one)
    BY <1>0, <2>1, EditType, EditOpensNone, EditLoads
  <2>4. SetSystem(w, Edit(two, "preset", Literal(p, 2)))
    BY <1>3 DEF PresetRow
  <2> HIDE DEF one
  <2>5. two \in Texts /\ NoKeyTables(two) /\ LoadsText(two)
    BY <2>1, <2>3, EditType, EditOpensNone, EditLoads
  <2> HIDE DEF two
  <2>6. LoadsText(Edit(two, "preset", Literal(p, 2)))
    BY <2>2, <2>5, PresetLoads
  <2> QED
    BY <2>4, <2>6
<1>4. ASSUME RemovePin(w) PROVE \E text : SetSystem(w, text) /\ LoadsText(text)
  <2>1. "pinned" \in Keys /\ "pinned" \notin Floors
    BY DEF Keys, Settings, Policies, Floors
  <2>2. LoadsText(Edit(system[w].text, "pinned", Unset))
    BY <1>0, <2>1, EditLoads
  <2> QED
    BY <1>4, <2>2 DEF RemovePin
<1> QED
  BY <1>1, <1>2, <1>3, <1>4 DEF RowStep

\* Only rows count as rows.
LEMMA RowsCount ==
  ASSUME Counted, Next, rows' > rows
  PROVE  \E w \in Windows : RowStep(w) \/ UserRowStep(w)
<1>1. ASSUME rows' = rows PROVE FALSE
  BY <1>1 DEF Counted
<1>2. CASE Unfocus \/ OtherStep
  BY <1>1, <1>2 DEF Unfocus, OtherStep, ModeReads, ModeWrites, HandWrites, TrayReads, TrayWrites, counts
<1>3. ASSUME NEW w \in Windows, HelperStep(w) PROVE FALSE
  BY <1>1, <1>3 DEF HelperStep, HelperChecks, HelperRefuses, HelperWrites, counts
<1>4. ASSUME NEW w \in Windows, WindowStep(w), ~RowStep(w), ~UserRowStep(w) PROVE FALSE
  BY <1>1, <1>4 DEF WindowStep, Focus, Discard, ApplyNow, TakeResult, Settle, SaveFails, Close,
                    Open, counts
<1> QED
  BY <1>2, <1>3, <1>4 DEF Next

LEMMA RowsLoad ==
  ASSUME Inv, Counted, TextsTyped, TablesInv, Next, rows' > rows, NEW w \in Windows,
         LoadsText(system[w].text)
  PROVE  LoadsText(system'[w].text)
<1>1. PICK u \in Windows : RowStep(u) \/ UserRowStep(u)
  BY RowsCount
<1>2. CASE UserRowStep(u)
  BY <1>2 DEF UserRowStep, UserRow
<1>3. CASE RowStep(u)
  <2>1. PICK text : SetSystem(u, text) /\ (w = u => LoadsText(text))
    <3>1. CASE w = u
      BY <1>3, <3>1, RowLoads
    <3>2. CASE w # u
      BY <1>3, <3>2, RowSets
    <3> QED
      BY <3>1, <3>2
  <2>2. system' = SetText(system, u, text)
    BY <2>1 DEF SetSystem, SetText
  <2>3. system'[u].text = text /\ (w # u => system'[w] = system[w])
    BY <2>2, TextSet DEF Inv, Shape
  <2> QED
    BY <2>1, <2>3
<1> QED
  BY <1>1, <1>2, <1>3

LEMMA SystemRowTakes ==
  ASSUME Inv, TextsTyped, TablesInv, NEW w \in Windows, NEW k \in DOMAIN Offered, NEW v \in Offered[k],
         SystemRow(w, k, v), ParsesText(system[w].text),
         ~PresetFills(system[w].text, k, v, RowOf(k).default), NEW j \in SystemRows
  PROVE  RowValue(system'[w].text, j) = IF j = k THEN v ELSE RowValue(system[w].text, j)
<1> DEFINE new == Edit(system[w].text, k, Literal(v, RowOf(k).default))
<1>1. system'[w].text = new
  <2>1. system' = SetText(system, w, new)
    BY DEF SystemRow, SetSystem, SetText
  <2> HIDE DEF new
  <2> QED
    BY <2>1, TextSet DEF Inv, Shape
<1>2. k \in SystemRows /\ RowOf(k).lo <= v /\ v <= RowOf(k).hi /\ v \in Int
  BY PickedType DEF SystemRow, Within
<1>3. system[w].text \in Texts /\ NoKeyTables(system[w].text)
  BY DEF TextsTyped, TablesInv
<1> QED
  BY <1>1, <1>2, <1>3, RowTakes

LEMMA OwnRowTakes ==
  ASSUME Inv, TextsTyped, OwnTablesInv, NEW w \in Windows, NEW k \in DOMAIN Offered, NEW v \in Offered[k],
         UserRow(w, k, v), k \in Floors \cup Timings, ParsesText(user[w].text),
         system[w].text = sys, LoadsText(sys),
         ~PresetFills(user[w].text, k, v, UserDefault(w, k))
  PROVE  Value(LoadForAuth(AsFile(sys), AsFile(user'[w].text)), k) = v
<1>1. user'[w].text = Edit(user[w].text, k, Literal(v, UserDefault(w, k)))
  BY UserRowText
<1>2. sys \in Texts /\ user[w].text \in Texts /\ NoKeyTables(user[w].text)
  BY DEF TextsTyped, OwnTablesInv
<1>3. k # "tray_idle" /\ k # "device" /\ k \notin Floors \cap Timings
  BY DEF Floors, Timings
<1>4. UserDefault(w, k) = Value(FromToml(sys), k)
  <2>1. ParsesText(sys)
    BY DEF LoadsText, ParsesText, Loads
  <2> QED
    BY <1>3, <2>1 DEF UserDefault, Shown
<1>5. v \in UserRange(w, k)
  BY DEF UserRow
<1>6. /\ v \in Int /\ v <= RowOf(k).hi
      /\ k \in Floors => UserDefault(w, k) <= v
      /\ k \in Timings => RowOf(k).lo <= v
  BY <1>3, <1>5, PickedType DEF UserRange, Within
<1> QED
  BY <1>1, <1>2, <1>4, <1>6, UserRowTakes

(* "Not setting it means": a row that has been set means what it shows once  *)
(* it is in the file (window.rs:163, config.rs:270-274), for every text, row *)
(* and value, with the exceptions of the property: the same for the user's   *)
(* rows and what unlocking loads, and no row spoils a file that loads.       *)
THEOREM RowTakesEffectHolds == ASSUME PlainFiles PROVE Spec => RowTakesEffect
<1> DEFINE Kept == Inv /\ Counted /\ TextsTyped /\ TablesInv /\ OwnTablesInv
           Takes ==
             rows' > rows =>
               /\ \A w \in Windows : LoadsText(system[w].text) => LoadsText(system'[w].text)
               /\ \A w \in Windows : \A k \in DOMAIN Offered : \A v \in Offered[k] :
                    /\ SystemRow(w, k, v) /\ ParsesText(system[w].text)
                       /\ ~PresetFills(system[w].text, k, v, RowOf(k).default)
                       => \A j \in SystemRows : RowValue(system'[w].text, j)
                                                = IF j = k THEN v ELSE RowValue(system[w].text, j)
                    /\ UserRow(w, k, v) /\ k \in Floors \cup Timings /\ ParsesText(user[w].text)
                       /\ system[w].text = sys /\ LoadsText(sys)
                       /\ ~PresetFills(user[w].text, k, v, UserDefault(w, k))
                       => Value(LoadForAuth(AsFile(sys), AsFile(user'[w].text)), k) = v
<1>1. Init => Kept
  BY InvInit, TypedInit, TablesInit, OwnTablesInit DEF Init, Counted
<1>2. Kept /\ [Next]_vars => Kept'
  BY InvStep, CountedStep, TypedStep, TablesStep, OwnTablesStep
<1>3. Kept /\ [Next]_vars => [Takes]_vars
  <2> SUFFICES ASSUME Kept, Next PROVE Takes
    OBVIOUS
  <2>1. rows' > rows => \A w \in Windows : LoadsText(system[w].text) => LoadsText(system'[w].text)
    BY RowsLoad
  <2>2. ASSUME NEW w \in Windows, NEW k \in DOMAIN Offered, NEW v \in Offered[k],
               SystemRow(w, k, v), ParsesText(system[w].text),
               ~PresetFills(system[w].text, k, v, RowOf(k).default), NEW j \in SystemRows
        PROVE  RowValue(system'[w].text, j) = IF j = k THEN v ELSE RowValue(system[w].text, j)
    BY <2>2, SystemRowTakes
  <2>3. ASSUME NEW w \in Windows, NEW k \in DOMAIN Offered, NEW v \in Offered[k],
               UserRow(w, k, v), k \in Floors \cup Timings, ParsesText(user[w].text),
               system[w].text = sys, LoadsText(sys),
               ~PresetFills(user[w].text, k, v, UserDefault(w, k))
        PROVE  Value(LoadForAuth(AsFile(sys), AsFile(user'[w].text)), k) = v
    BY <2>3, OwnRowTakes
  <2> QED
    BY <2>1, <2>2, <2>3
<1> QED
  BY <1>1, <1>2, <1>3, PTL DEF Spec, RowTakesEffect
=============================================================================
