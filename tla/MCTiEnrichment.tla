---------------------------- MODULE MCTiEnrichment ----------------------------
\* An instance of TiEnrichment: a real indicator and a test one, and an event
\* that carries both.
EXTENDS TiEnrichment

CONSTANTS i1, t1, e1

Carried == [e \in Events |-> {i1, t1}]
=============================================================================
