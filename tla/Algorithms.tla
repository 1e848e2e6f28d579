----------------------------- MODULE Algorithms -----------------------------
(***************************************************************************)
(* The two algorithms of the API that compute with no row of the database  *)
(* in hand: text patches, and the neighbourhood of a table.                *)
(***************************************************************************)
EXTENDS TextPatch, Neighbourhood

\* A patch and a neighbourhood are what their definitions say: spans are compared
\* and replaced one by one, tables met one by one, and the result is that of all at
\* once (text_patch, structure_api).
AlgorithmsExact ==
    /\ NoOverlapIsMissed /\ PatchIsSimultaneous
    /\ NeighbourhoodIsExact /\ PathIsShortest
=============================================================================
