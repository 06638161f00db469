---------------------------- MODULE MCScimOutbox ----------------------------
(* Instances of ScimOutbox for TLC. *)
EXTENDS ScimOutbox

CONSTANTS r1, r2

Scenario(p, u, g) == [provisioned |-> p, user |-> u, group |-> g]

(* Two changes of a provisioned user, two of a group, a group of the        *)
(* provisioned user.                                                        *)
Changes == {Scenario(1, 2, 0), Scenario(0, 0, 2), Scenario(1, 0, 1)}
NewUser == {Scenario(0, 2, 0)}
=============================================================================
