--------------------------- MODULE LockoutCounter ---------------------------
(***************************************************************************)
(* What the lockout promises, with no files, locks or processes' memory:   *)
(* one record per account that every attempt bumps in one indivisible step *)
(* and that only a granted attempt clears.  The record is kept outside, so *)
(* it may become unreadable, or a scan may fail to read it: such a scan    *)
(* starts from the empty record.  Lockout implements it.                   *)
(***************************************************************************)
EXTENDS LockoutPolicy

CONSTANTS
  Scans,
  MayMiss, \* scans whose reading of the record may fail
  Spoils   \* whether the record may become unreadable

VARIABLES
  record,   \* the account's failures and the time of the last one
  readable, \* whether it can still be read
  stage,    \* where each scan stands
  clock     \* the wall clock

vars == <<record, readable, stage, clock>>

Stages == {"out", "trying", "counted", "uncounted", "granted"}

Move(s, from, to) ==
  /\ stage[s] \in from
  /\ stage' = [stage EXCEPT ![s] = to]

Init ==
  /\ record = Empty
  /\ readable = FALSE
  /\ stage = [s \in Scans |-> "out"]
  /\ clock = 0

\* Whether scan s may take the record for empty.
MayReset(s) == s \in MayMiss \/ ~readable

\* A scan starts only while the account is not cooling down, as far as it can see.
Pass(s) ==
  /\ CoolingDown(record, clock) => MayReset(s)
  /\ Move(s, {"out"}, "trying")
  /\ UNCHANGED <<record, readable, clock>>

\* It is counted in one step, on top of whatever others have counted.
Count(s) ==
  /\ Move(s, {"trying"}, "counted")
  /\ record'.last \in Nat
  /\ \/ record' = Counted(record, record'.last)
     \/ MayReset(s) /\ record' = Counted(Empty, record'.last)
  /\ readable'
  /\ UNCHANGED clock

\* A count that cannot be written lets the scan go on uncounted.
Uncounted(s) ==
  /\ Move(s, {"trying"}, "uncounted")
  /\ UNCHANGED <<record, readable, clock>>

\* A match clears the record, or leaves it if that write fails.
Grant(s) ==
  /\ Move(s, {"counted", "uncounted"}, "granted")
  /\ \/ record' = Empty /\ readable'
     \/ UNCHANGED <<record, readable>>
  /\ UNCHANGED clock

\* Any other end of a scan leaves the record alone.
Leave(s) ==
  /\ Move(s, Stages, "out")
  /\ UNCHANGED <<record, readable, clock>>

SetClock ==
  /\ clock' \in Nat
  /\ UNCHANGED <<record, readable, stage>>

\* The record is lost where it is kept: scans start from the empty one.
Forget ==
  /\ Spoils
  /\ readable' = FALSE
  /\ UNCHANGED <<record, stage, clock>>

Next ==
  \/ \E s \in Scans : Pass(s) \/ Count(s) \/ Uncounted(s) \/ Grant(s) \/ Leave(s)
  \/ SetClock
  \/ Forget

Spec == Init /\ [][Next]_vars
=============================================================================
