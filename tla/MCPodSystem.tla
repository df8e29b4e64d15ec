---------------------------- MODULE MCPodSystem ----------------------------
(***************************************************************************)
(* Instances of PodSystem for TLC. Goroutines are named after their node.   *)
(***************************************************************************)
EXTENDS PodSystem, TLC

CONSTANTS
    a, b,              \* nodes
    ra1, ra2, rb1, rb2, \* reconcile goroutines
    ha, hb,            \* holders
    ua, ub,            \* users
    c1, c2             \* containers

MCNodeOf ==
    [p \in Procs |-> IF p \in {ra1, ra2, ha, ua} THEN a ELSE b]

(* The two goroutines of a node that run Reconcile are interchangeable. *)
Symmetry ==
    { f @@ g : f \in Permutations({ra1, ra2}), g \in Permutations({rb1, rb2}) }

(* Where goroutines may run in any order: users move or delete the pod      *)
(* once, and one thing goes wrong.                                          *)
OneCallAndOneMishap ==
    /\ used["migrations"] + used["deletes"] <= 1
    /\ used["faults"] + used["crashes"] + used["cleanups"] + used["exits"] <= 1
=============================================================================
