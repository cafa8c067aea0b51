----------------------------- MODULE MCCluster -----------------------------
EXTENDS Cluster, TLC
Symmetry == Permutations(Procs)
=============================================================================
