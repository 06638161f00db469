--------------------------- MODULE MCDeviceGrant ---------------------------
(* Instances of DeviceGrant for TLC: two approvers, one of them with a     *)
(* second factor.                                                          *)
EXTENDS DeviceGrant, TLC

CONSTANTS d1, s1, s2, u1, u2, c1, c2

MCSubjectOf == [s \in Sessions |-> IF s = s1 THEN u1 ELSE u2]
CallSymmetry == Permutations(Calls)
=============================================================================
