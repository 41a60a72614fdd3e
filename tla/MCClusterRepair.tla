---------------------------- MODULE MCClusterRepair ----------------------------
\* An instance of ClusterRepair: one index, which may be a closed internal one.
EXTENDS ClusterRepair

CONSTANTS a, s1, s2
=============================================================================
