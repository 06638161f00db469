----------------------------- MODULE MCMasterKeys -----------------------------
(* Instances of MasterKeys for TLC: a cluster of three and a single node. *)
EXTENDS MasterKeys, TLC

CONSTANTS n1, n2, n3, k1, k2, k3, c1, c2, r1, r2

Symmetry == Permutations(Calls) \cup Permutations(Nodes)

MCScenarios ==
    { [members |-> {n1}, keys |-> {k1, k2, k3}, plan |-> {k1, k2, k3} \X {k1, k2, k3},
       ttls |-> {1}, epochs |-> 2, writes |-> 1, cookies |-> 0, restarts |-> 2],
      [members |-> {n1}, keys |-> {k1, k2}, plan |-> {<<k1, k2>>},
       ttls |-> {0, 2}, epochs |-> 2, writes |-> 0, cookies |-> 2, restarts |-> 2],
      [members |-> {n1, n2, n3}, keys |-> {k1, k2}, plan |-> {<<k1, k2>>},
       ttls |-> {1}, epochs |-> 1, writes |-> 1, cookies |-> 0, restarts |-> 3],
      [members |-> {n1, n2, n3}, keys |-> {k1, k2}, plan |-> {<<k1, k2>>},
       ttls |-> {2}, epochs |-> 1, writes |-> 0, cookies |-> 1, restarts |-> 3] }
===============================================================================
