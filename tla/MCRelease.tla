----------------------------- MODULE MCRelease -----------------------------
(* Model-checking instance of Release.  The maintainers are alike.          *)
EXTENDS Release, TLC

Symmetry == Permutations(Maintainers)
=============================================================================
