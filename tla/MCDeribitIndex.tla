--------------------------- MODULE MCDeribitIndex ---------------------------
(* DeribitIndex for two tabs and one recompute; no symmetry, because LoadEnds *)
(* is a liveness property.                                                    *)
EXTENDS DeribitIndex
=============================================================================
