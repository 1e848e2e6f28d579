---------------------------- MODULE MCDeployment ----------------------------
EXTENDS Deployment, TLC

CONSTANTS a, b, x

\* Every path renders to a URL of its own, or both to one.
OwnUrl == [p \in Paths |-> p]
OneUrl == [p \in Paths |-> x]

\* With OwnUrl nothing tells two paths apart.
Symmetry == Permutations(Paths)
=============================================================================
