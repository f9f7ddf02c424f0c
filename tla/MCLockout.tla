------------------------------ MODULE MCLockout ------------------------------
(* Lockout on small instances: the scans are model values.                 *)
EXTENDS Lockout, TLC

\* Scans with nothing to tell them apart are interchangeable.
Alike == Permutations(Scans \ (Refused \cup MayMiss \cup MayStop))

=============================================================================
