------------------------- MODULE MCAccountSecurity -------------------------
(* Instances of AccountSecurity for TLC.  Symmetric: requests and mail     *)
(* jobs are interchangeable in every safety property.                      *)
EXTENDS AccountSecurity, TLC

Symmetry == Permutations(Requests) \cup Permutations(Jobs)
=============================================================================
