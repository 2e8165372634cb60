----------------------- MODULE MCConnectionLifecycle -----------------------
(***************************************************************************)
(* Instances of ConnectionLifecycle for TLC.                               *)
(***************************************************************************)
EXTENDS ConnectionLifecycle, TLC

Symmetry ==
  Permutations(Users) \cup Permutations(Sessions) \cup Permutations(Txns)
    \cup Permutations(Callbacks) \cup Permutations(Attempts)
=============================================================================
