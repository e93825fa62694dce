----------------------------- MODULE MCIngestion -----------------------------
(* Values for the constants of Ingestion.                                   *)
EXTENDS Ingestion

CONSTANTS m1, m2
==============================================================================
