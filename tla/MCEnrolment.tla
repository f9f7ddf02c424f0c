----------------------------- MODULE MCEnrolment -----------------------------
(* Small accounts for TLC: cameras, models and runs are interchangeable.    *)
EXTENDS Enrolment, TLC
Sym == Permutations(Runs) \cup Permutations(Cameras) \cup Permutations(Models)

\* Enrolments only, of an account that has templates, on a machine with one
\* camera that stays.
OneCameraSpec ==
  Init /\ store # Nothing /\ plugged \in Cameras /\ [][\E r \in Runs : RunStep(r)]_vars
=============================================================================
