---------------------------- MODULE LockoutPolicy ----------------------------
(***************************************************************************)
(* The pure part of crates/face-auth-core/src/lockout.rs: the state kept   *)
(* in state.bin, how one update changes it, and when an account is cooling *)
(* down.  Times are whole ticks of the wall clock (now_unix_ms).           *)
(***************************************************************************)
EXTENDS Integers

CONSTANTS
  Threshold,     \* policy.threshold: failures allowed before any cooldown
  BaseDelay,     \* policy.base_delay_ms
  MaxDelay,      \* policy.max_delay_ms
  MaxDoublings,  \* MAX_DOUBLINGS
  FailuresMax    \* u32::MAX, where the count saturates

\* lockout_policy() takes threshold.max(1), so an empty state never cools down.
ASSUME PolicyAssumption ==
  /\ Threshold \in Nat \ {0}
  /\ BaseDelay \in Nat
  /\ MaxDelay \in Nat
  /\ MaxDoublings \in Nat
  /\ FailuresMax \in Nat
  /\ Threshold <= FailuresMax

LockoutState == [failures : 0..FailuresMax, last : Nat]

\* LockoutState::default()
Empty == [failures |-> 0, last |-> 0]

\* The change record_failure makes: saturating_add(1), stamped with the time.
Counted(state, now) ==
  [failures |-> IF state.failures < FailuresMax THEN state.failures + 1
                                                ELSE FailuresMax,
   last |-> now]

(* extra.min(MAX_DOUBLINGS) *)
Doublings(state) ==
  LET extra == state.failures - Threshold
  IN  IF extra < MaxDoublings THEN extra ELSE MaxDoublings

(* base << extra.  The u64 product saturates before the cap is applied,     *)
(* which the cap makes invisible, so the product is taken in the integers.  *)
Shifted[extra \in 0..MaxDoublings] ==
  IF extra = 0 THEN BaseDelay ELSE 2 * Shifted[extra - 1]

(* remaining_cooldown's delay_ms, for an account past the threshold. *)
Delay(state) ==
  LET grown == Shifted[Doublings(state)]
  IN  IF grown < MaxDelay THEN grown ELSE MaxDelay

\* now.saturating_sub(last): a clock set back counts as no time at all.
Elapsed(state, now) == IF state.last <= now THEN now - state.last ELSE 0

\* remaining_cooldown(state, policy).is_some()
CoolingDown(state, now) ==
  /\ state.failures >= Threshold
  /\ Elapsed(state, now) < Delay(state)
=============================================================================
