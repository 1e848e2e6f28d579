-------------------------- MODULE MCReorganisation --------------------------
(* Instances of Reorganisation for TLC. *)
EXTENDS Reorganisation, TLC

Symmetry == Permutations(Handlers)
=============================================================================
