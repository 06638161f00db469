---------------------------- MODULE MCSigningKeys ----------------------------
(* Instances of SigningKeys for TLC. *)
EXTENDS SigningKeys, TLC

CONSTANTS k1, k2, k3, w1, w2, s1

Symmetry == Permutations(Kids) \cup Permutations(Workers)
===============================================================================
