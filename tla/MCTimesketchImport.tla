-------------------------- MODULE MCTimesketchImport --------------------------
\* Instances of TimesketchImport: two files of one case, or of two cases, and
\* a report whose name is that case.
EXTENDS TimesketchImport

CONSTANTS f, g, r, c, d

OneCase == [x \in Files \cup Reports |-> c]
TwoCases == [x \in Files \cup Reports |-> IF x = g THEN d ELSE c]
=============================================================================
