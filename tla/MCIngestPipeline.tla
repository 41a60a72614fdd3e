-------------------------- MODULE MCIngestPipeline --------------------------
EXTENDS IngestPipeline

\* The uploads of the configurations: each names those of the IT portal and
\* those the CERT portal can parse itself.
CONSTANTS u1, u2, nobody
=============================================================================
