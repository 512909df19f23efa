----------------------------- MODULE MCCluster -----------------------------
(* Cluster for TLC.                                                        *)
EXTENDS Cluster, TLC
CONSTANTS seed, m1, m2
UsedPorts == (seed :> {1}) @@ (m1 :> {2}) @@ (m2 :> {1, 2, 3})
=============================================================================
