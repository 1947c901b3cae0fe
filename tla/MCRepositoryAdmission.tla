------------------------ MODULE MCRepositoryAdmission ------------------------
(* RepositoryAdmission on a small instance.  Runs are interchangeable, and so    *)
(* are a run's sessions, so both sets are symmetric.                          *)
EXTENDS RepositoryAdmission, TLC

CONSTANTS r1, r2, r3, s1, s2
MCRun == {r1, r2, r3}
MCSession == {s1, s2}
Symmetry == Permutations(MCRun) \cup Permutations(MCSession)
==============================================================================
