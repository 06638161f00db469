------------------------------ MODULE MCSignIn ------------------------------
(* Instances of SignIn for TLC.                                            *)
EXTENDS SignIn, TLC

Symmetry == Permutations(Calls) \cup Permutations(Interactions) \cup Permutations(Inits)
=============================================================================
