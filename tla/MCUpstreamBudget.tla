--------------------------- MODULE MCUpstreamBudget ---------------------------
(* Values for the constants of UpstreamBudget.                              *)
EXTENDS UpstreamBudget

CONSTANTS c1, c2, c3

AllDisciplines == {"reserve", "graph", "after", "free"}
GraphOnly == {"graph"}
==============================================================================
