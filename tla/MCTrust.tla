------------------------------ MODULE MCTrust ------------------------------
(* Instances of Trust for TLC. *)
EXTENDS Trust, TLC

\* Request handlers are alike.
Symmetry == Permutations(Workers)
=============================================================================
