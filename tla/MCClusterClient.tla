---------------------------- MODULE MCClusterClient ----------------------------
(* Instances of ClusterClient for TLC: the node types of the machine names. *)
EXTENDS ClusterClientRefinement, TLC

\* Two masters and a worker.
MCNodeType == [m \in Machine |-> IF m <= 2 THEN "master" ELSE "worker"]

\* A master, workers, and a load balancer, which only Safespring has.
MCNodeTypeBalanced ==
    [m \in Machine |-> CASE m = 1 -> "master" [] m = 4 -> "loadbalancer" [] OTHER -> "worker"]

\* Control plane identities are interchangeable.
ControlPlaneSymmetry == Permutations(ControlPlane)

=============================================================================
