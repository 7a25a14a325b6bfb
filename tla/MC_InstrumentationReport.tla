---------------------- MODULE MC_InstrumentationReport ----------------------
(* Small instances of InstrumentationReport for TLC.                       *)
EXTENDS InstrumentationReport, TLC

\* Instructions 1 and 3 collide in a buffer of two or of four slots.
MCHash == 1 :> 1 @@ 2 :> 2 @@ 3 :> 5
MCCookieHash == [p \in {1, 2, 3} \X {11, 12} |-> MCHash[p[1]] + p[2]]

=============================================================================
