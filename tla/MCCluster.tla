------------------------------- MODULE MCCluster -------------------------------
(* Instances of Cluster. *)
EXTENDS Cluster, TLC

Sym == Permutations(Nodes \ Founders)
===============================================================================
