------------------------------ MODULE ConfigText ------------------------------
(***************************************************************************)
(* face-auth.toml as text, and the programs that change one key of it in   *)
(* place: the settings window (keys.rs), the tray's idle menu (idle.rs)    *)
(* and setting-mode.sh.                                                    *)
(*                                                                         *)
(* A text is a sequence of lines.  A line is a table header, a key with    *)
(* its value, a commented-out key (an example), or anything else.  A name  *)
(* is a sequence of words, so liveness.grace is <<"liveness", "grace">>.   *)
(* Spelling, spaces, quoting, inline tables and arrays of tables are left  *)
(* out; values are the integers of Config.                                 *)
(***************************************************************************)
EXTENDS Config, Sequences

\* What the file may set: Config's settings and those only a window shows.
Keys == Settings \cup {"preset", "device", "model_path", "detector_model_path",
  "embeddings_dir", "backend", "npu_device", "lockout_base_delay",
  "lockout_max_delay", "seal", "update_check", "tray_idle"}

Table == [motion |-> "liveness", residual |-> "liveness", window |-> "liveness",
          grace |-> "liveness", preset |-> "liveness",
          lockout_threshold |-> "lockout", lockout_base_delay |-> "lockout",
          lockout_max_delay |-> "lockout", start_delay |-> "guards",
          start_delay_all |-> "guards", seat_check |-> "guards",
          abort_if_ssh |-> "guards", abort_if_lid_closed |-> "guards",
          require_confirmation |-> "guards"]

\* The key within its table.  That lockout_threshold is lockout.threshold
\* matters: threshold is a key of its own.
Inner(k) == IF k = "lockout_threshold" THEN "threshold" ELSE k

NoName == <<>>

\* The two spellings of a key, NoName where there is none.
Flat(k)    == IF k = "preset" THEN NoName ELSE <<k>>
Group(k)   == IF k \in DOMAIN Table THEN <<Table[k], Inner(k)>> ELSE NoName
Names(k)   == {Flat(k), Group(k)} \ {NoName}
Written(k) == IF Group(k) # NoName THEN Group(k) ELSE Flat(k)

-----------------------------------------------------------------------------
\* What names are made of: "prose" stands for any word of no key's.
Words == Keys \cup {"liveness", "lockout", "guards", "prose"}
Line  == [kind : {"header", "key", "example", "other"},
          name : Seq(Words) \ {NoName}, value : Int]
Texts == Seq(Line)

Heading(t)      == [kind |-> "header", name |-> <<t>>, value |-> 0]
Assign(name, v) == [kind |-> "key", name |-> name, value |-> v]
Example(name)   == [kind |-> "example", name |-> name, value |-> 0]
Prose           == [kind |-> "other", name |-> <<"prose">>, value |-> 0]

FirstOf(S) == CHOOSE i \in S : \A j \in S : i <= j
LastOf(S)  == CHOOSE i \in S : \A j \in S : j <= i

Headers(text)    == {i \in 1..Len(text) : text[i].kind = "header"}
Above(text, i)   == {h \in Headers(text) : h <= i}
TableAt(text, i) == LET above == Above(text, i)
                    IN  IF above = {} THEN NoName ELSE text[LastOf(above)].name

\* A line's name, its table's first.
FullName(text, i) == TableAt(text, i) \o text[i].name

KeyLines(text)     == {i \in 1..Len(text) : text[i].kind = "key"}
Saying(text, name) ==
  IF name = NoName THEN {} ELSE {i \in KeyLines(text) : FullName(text, i) = name}

\* What TOML allows: no key twice, no table twice, and no header for a table
\* that dotted keys above have made.
WellFormed(text) ==
  /\ LET full == [i \in KeyLines(text) |-> FullName(text, i)]
     IN  \A i, j \in KeyLines(text) : full[i] = full[j] => i = j
  /\ \A g, h \in Headers(text) : text[g].name = text[h].name => g = h
  /\ \A h \in Headers(text), i \in KeyLines(text) :
       Above(text, i) = {} => <<text[i].name[1]>> # text[h].name

Said(text, name) ==
  LET lines == Saying(text, name)
  IN  IF lines = {} THEN Unset ELSE text[FirstOf(lines)].value

\* Key::value: the flat spelling wins.
Reads(text, k) ==
  LET flat == Said(text, Flat(k))
  IN  IF flat # Unset THEN flat ELSE Said(text, Group(k))

\* The file as Config takes it, and what it loads to.
PresetNames == <<"off", "standard", "strict">>
AsFile(text) ==
  [flat   |-> [s \in Settings |-> Said(text, Flat(s))],
   group  |-> [s \in Settings |-> IF s \in Grouped THEN Said(text, Group(s)) ELSE Unset],
   preset |-> LET p == Reads(text, "preset") IN
              IF p = Unset THEN "none"
              ELSE IF p \in 1..3 THEN PresetNames[p] ELSE "other"]

FromToml(text)   == FoldSections(AsFile(text))
ParsesText(text) == WellFormed(text) /\ Parses(AsFile(text))
LoadsText(text)  == WellFormed(text) /\ Loads(AsFile(text))

-----------------------------------------------------------------------------
(* keys::edit. *)

Active(text, k)  == {i \in KeyLines(text) : FullName(text, i) \in Names(k)}
CommentOut(text, S) ==
  [i \in 1..Len(text) |-> IF i \in S THEN Example(text[i].name) ELSE text[i]]
Replace(text, i, line) == [text EXCEPT ![i] = line]
Insert(text, at, line) ==
  SubSeq(text, 1, at) \o <<line>> \o SubSeq(text, at + 1, Len(text))

\* The line that wins now, flat spelling first.
Winner(text, k) ==
  LET flat == {i \in Active(text, k) : FullName(text, i) = Flat(k)}
  IN  FirstOf(IF flat # {} THEN flat ELSE Active(text, k))

\* The first header of the key's table, if the text opens it.
Opened(text, k) ==
  {h \in Headers(text) : Group(k) # NoName /\ text[h].name = <<Table[k]>>}

\* The lines above the first header, and those of the table that h opens.
TopEnd(text) == IF Headers(text) = {} THEN Len(text) ELSE FirstOf(Headers(text)) - 1
TableEnd(text, h) ==
  LET next == {g \in Headers(text) : g > h}
  IN  IF next = {} THEN Len(text) ELSE FirstOf(next) - 1

\* After the last key of the lines after "from" up to "to".
LastContent(text, from, to) ==
  LET held == {i \in KeyLines(text) : from < i /\ i <= to}
  IN  IF held = {} THEN from ELSE LastOf(held)

Examples(text, k) ==
  {i \in 1..TopEnd(text) : text[i].kind = "example" /\ text[i].name \in Names(k)}

\* Mutant of Add: at the end of the file, as a shell script would.
AddAtEnd(text, k, v) == Append(text, Assign(Written(k), v))

\* A new line for a key the text does not set: inside its table if the text
\* opens one, else over its example, else after the last top-level key.
Add(text, k, v) ==
  IF Opened(text, k) # {}
  THEN LET h == FirstOf(Opened(text, k))
       IN  Insert(text, LastContent(text, h, TableEnd(text, h)), Assign(<<Inner(k)>>, v))
  ELSE IF Examples(text, k) # {}
  THEN Replace(text, FirstOf(Examples(text, k)), Assign(Written(k), v))
  ELSE Insert(text, IF Headers(text) = {} THEN Len(text)
                    ELSE LastContent(text, 0, TopEnd(text)), Assign(Written(k), v))

\* The text with k set to v, or commented out.
Edit(text, k, v) ==
  IF v = Unset THEN CommentOut(text, Active(text, k))
  ELSE IF Active(text, k) # {}
  THEN LET w == Winner(text, k)
       IN  Replace(CommentOut(text, Active(text, k) \ {w}), w, Assign(text[w].name, v))
  ELSE Add(text, k, v)

-----------------------------------------------------------------------------
(* idle::with_minutes: the top-level line, or a new first one. *)
WithMinutes(text, minutes) ==
  LET line == Assign(Flat("tray_idle"), minutes)
      held == {i \in KeyLines(text) : i <= TopEnd(text) /\ text[i].name = Flat("tray_idle")}
  IN  IF held = {} THEN <<line>> \o text ELSE Replace(text, FirstOf(held), line)

(* setting-mode.sh set: the lines of a choice's keys dropped, whatever table *)
(* they are in, and the new ones at the end of the file.                     *)
Part == [key : Keys, value : Int]

Without(text, S) ==
  LET left[n \in 0..Len(text)] ==
        IF n = 0 THEN <<>>
        ELSE IF n \in S THEN left[n - 1] ELSE Append(left[n - 1], text[n])
  IN  left[Len(text)]

SetMode(text, parts) ==
  LET names == UNION {Names(parts[n].key) : n \in 1..Len(parts)}
  IN  Without(text, {i \in KeyLines(text) : text[i].name \in names})
        \o [n \in 1..Len(parts) |-> Assign(Written(parts[n].key), parts[n].value)]
=============================================================================
