--------------------------- MODULE MCOAuthGrants ---------------------------
(* Instances of OAuthGrants for TLC. *)
EXTENDS OAuthGrants, TLC

CONSTANTS s1, s2, u1, c1, c2, g1, g2, a1, a2, a3, a4

MCSubjectOf == [s \in Sessions |-> u1]
OneSidOf == [g \in Grants |-> s1]
OneClientOf == [g \in Grants |-> c1]
TwoSidOf == [g \in Grants |-> IF g = g1 THEN s1 ELSE s2]
TwoClientOf == [g \in Grants |-> IF g = g1 THEN c1 ELSE c2]
AttemptSymmetry == Permutations(Attempts)
=============================================================================
