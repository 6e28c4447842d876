-------------------------- MODULE MCDBMDeepEngine --------------------------
(* Small instances of DBMDeepEngine for TLC.                               *)
EXTENDS DBMDeepEngine, TLC

\* Offsets, keys and engines are only compared for equality.
Symmetry ==
  Permutations(Sectors) \cup Permutations(Engines) \cup Permutations(Keys)
=============================================================================
