---------------------------- MODULE MCProjection -----------------------------
(* Instances of Projection for TLC: processes are interchangeable.            *)
EXTENDS Projection, TLC

Symmetry == Permutations(Procs)
=============================================================================
