-------------------------- MODULE MC_RecomputeCFG ---------------------------
(* Small instances of RecomputeCFG for TLC.                                *)
EXTENDS RecomputeCFG, MC_CFGVisit

\* Every function, up to the names of the blocks that the entry reaches: those
\* are 1 .. k, numbered in the order of their first mention.
AllFunctions ==
  {sc \in Functions2 :
     \E k \in Blocks : /\ \A n \in 1 .. k : Elements(sc[n]) \subseteq 1 .. k
                       /\ NumberedUpTo(sc, k)}

=============================================================================
