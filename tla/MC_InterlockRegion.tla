------------------------- MODULE MC_InterlockRegion -------------------------
(* Small instances of InterlockRegion for TLC.                             *)
EXTENDS InterlockRegion, MC_CFGVisit

=============================================================================
