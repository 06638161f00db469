--------------------------- MODULE MCSaasCredential ---------------------------
EXTENDS SaasCredential, TLC

Symmetry == Permutations(Calls) \cup Permutations(Requests)

MCScenarios ==
    { [ready |-> FALSE, kinds |-> {"connect"}, changes |-> 4],
      [ready |-> TRUE, kinds |-> {"connect", "refresh"}, changes |-> 3],
      [ready |-> TRUE, kinds |-> {"refresh"}, changes |-> 4],
      [ready |-> TRUE, kinds |-> {"connect", "grant"}, changes |-> 3],
      [ready |-> TRUE, kinds |-> {"refresh", "grant"}, changes |-> 2],
      [ready |-> TRUE, kinds |-> {"connect", "handoff"}, changes |-> 3],
      [ready |-> TRUE, kinds |-> {"refresh", "handoff"}, changes |-> 2] }
===============================================================================
