---------------------------- MODULE MCViewLocker -----------------------------
(* Instances of ViewLocker for TLC. Processes are interchangeable; the symmetry *)
(* is used where no liveness property is checked.                             *)
EXTENDS ViewLocker, TLC

Symmetry == Permutations(Procs)
=============================================================================
