------------------------------- MODULE MCModels -------------------------------
(* Models with interchangeable processes and encoders.                        *)
EXTENDS Models, TLC

Symmetry == Permutations(Processes) \cup Permutations(Encoders)
=============================================================================
