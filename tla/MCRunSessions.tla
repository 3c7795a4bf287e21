---------------------------- MODULE MCRunSessions ----------------------------
(* Model-checking instance of RunSessions: runs, requests, sweeps, pages and *)
(* keys are interchangeable.                                                 *)
EXTENDS RunSessions, TLC

Symmetry ==
  Permutations(Runs) \cup Permutations(Callers) \cup Permutations(Sweepers)
    \cup Permutations(Targets) \cup Permutations(Keys) \cup Permutations(Profiles)
=============================================================================
