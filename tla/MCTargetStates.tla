--------------------------- MODULE MCTargetStates ---------------------------
(* Instances of TargetStates for TLC. *)
EXTENDS TargetStates, TLC

CONSTANTS c1, c2, t1, t2, v1, v2

MCComponents == {c1, c2}
MCTargets == {t1, t2}
MCValues == {v1, v2}
MCOneValue == {v1}

\* Components, targets and contents are interchangeable.
Interchangeable ==
  Permutations(MCComponents) \cup Permutations(MCTargets) \cup Permutations(MCValues)
=============================================================================
