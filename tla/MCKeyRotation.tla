--------------------------- MODULE MCKeyRotation ---------------------------
(* Instances of KeyRotation for TLC.  Symmetric: rotation commands,        *)
(* writers and values are interchangeable in every safety property.        *)
EXTENDS KeyRotation, TLC

Symmetry ==
  Permutations(Rotators) \cup Permutations(Writers) \cup Permutations(Values)
=============================================================================
