---------------------------- MODULE LoopAnalysis ----------------------------
(***************************************************************************)
(* What the structurizer makes of a loop once recompute_cfg is done        *)
(* (cfg_structurizer.cpp): analyze_loop sorts the exits of a loop by how   *)
(* control leaves through them, and analyze_loop_merge derives the blocks  *)
(* where it comes together again.  Operators on the state of RecomputeCFG; *)
(* a list whose order no result depends on is a set.                       *)
(***************************************************************************)
EXTENDS RecomputeCFG, FiniteSets

\* Every branch of block n, the back edge included.
BranchTargets(n) == {m \in Nodes : <<n, m>> \in Branches}

\* The terminator is Terminator::Type::Branch.  A condition whose two targets
\* are one block is not told apart from it.
IsBranch(n) == n \notin Switches /\ Cardinality(BranchTargets(n)) = 1

\* find_common_post_dominator of a list of candidates.  A single candidate is
\* its own; the exit block is no answer.
CommonPostDominatorOf(S) ==
  LET pdom == FoldPairs(CommonPostDominator, ByFallingOrder(S))
  IN  IF S = {} \/ pdom = exit_block THEN Null ELSE pdom

\* CFGNode::can_loop_merge_to.
CanLoopMergeTo(header, n) ==
  LET latch == pred_back_edge[header]
  IN  /\ Dominates(header, n)
      /\ latch # Null /\ succ[latch] # << >> => n \in Elements(succ[latch])
      /\ latch # Null /\ succ[latch] = << >> /\ Len(fake_succ[latch]) = 1 =>
           fake_succ[latch][1] = n

-----------------------------------------------------------------------------
(* analyze_loop.                                                           *)

\* A dominated exit that no branch of the continue block leads to: it leaves to
\* the continue block of the outer loop, or simply escapes.
EscapeType(header, n) ==
  LET outer == pred_back_edge[InnermostLoopHeader(entry_block, idom[header])]
      latch == pred_back_edge[n]
      loops == latch # Null /\ succ[latch] # << >> /\ Reaches(latch, outer)
  IN  IF outer # Null /\ PostDominates(outer, n) /\ ~ loops
        THEN "MergeToOuterBackEdge" ELSE "Escape"

\* An exit of the loop that is dominated by the header of an inner one.
InnerType(inner, n) ==
  LET latch == pred_back_edge[inner]
  IN  IF /\ latch # Null
         /\ IsBranch(latch)
         /\ CommonPostDominatorOf({n, latch}) = latch
        THEN "InnerLoopFalsePositive" ELSE "InnerLoopMerge"

\* get_loop_exit_type.
LoopExitType(header, n) ==
  LET inner   == InnermostLoopHeader(header, n)
      reached == Reaches(pred_back_edge[header], n) \/ CanLoopMergeTo(header, n)
      returns == ~ reached /\ DominatesAllReachableExits(n)
  IN  CASE ~ Dominates(header, n) -> "Escape"
        [] Dominates(header, n) /\ returns /\ inner = header -> "Exit"
        [] Dominates(header, n) /\ returns /\ inner # header -> "InnerLoopExit"
        [] Dominates(header, n) /\ ~ returns /\ inner # header -> InnerType(inner, n)
        [] Dominates(header, n) /\ ~ returns /\ inner = header ->
             IF CanLoopMergeTo(header, n) THEN "Merge" ELSE EscapeType(header, n)

\* The exits in the order LoopMergeTracer::trace_from_parent meets them.
TracedExits(header) ==
  LET inside == LoopBlocks(header)
      Trace[n \in Nodes, found \in Seq(Nodes)] ==
        LET Each[i \in 0 .. Len(succ[n])] ==
              IF i = 0 THEN found ELSE Trace[succ[n][i], Each[i - 1]]
        IN  IF n \in inside THEN Each[Len(succ[n])] ELSE AppendUnique(found, n)
  IN  Trace[header, << >>]

\* takes_convergent_path: a continue exit that goes the way of a normal exit.
TakesConvergentPath(outer, candidate, exit) ==
  \/ Reaches(candidate, exit)
  \/ ipdom[candidate] = ipdom[exit]
  \/ frontiers.dom[candidate] \cap frontiers.dom[exit] # {}
  \/ Reaches(exit, outer)

\* The continue exits that are ordinary breaks, found in order.
DemotedContinues(outer, continues, breaks) ==
  LET Demoted[i \in 0 .. Len(continues)] ==
        IF i = 0 THEN {}
        ELSE Demoted[i - 1] \cup
               {c \in {continues[i]} :
                  \E e \in breaks \cup Demoted[i - 1] : TakesConvergentPath(outer, c, e)}
  IN  Demoted[Len(continues)]

ExitsOf(type, t) == {e \in DOMAIN type : type[e] = t}

\* The exits by type; the continue exits that were kept are joined into one.
ExitsByType(header, type, demoted, kept) ==
  LET common == CommonPostDominatorOf(kept)
      joined == common # Null /\ Dominates(header, common)
  IN  [direct    |-> ExitsOf(type, "Exit"),
       inner_direct |-> ExitsOf(type, "InnerLoopExit"),
       dominated |-> ExitsOf(type, "Merge"),
       inner_dominated |-> ExitsOf(type, "InnerLoopMerge"),
       continue  |-> CASE Cardinality(kept) <= 1 -> kept
                       [] Cardinality(kept) > 1 /\ joined -> {common}
                       [] OTHER -> {},
       non_dominated |-> ExitsOf(type, "Escape") \cup demoted
                           \cup (IF Cardinality(kept) > 1 /\ ~ joined THEN kept ELSE {})]

\* What becomes of the exits, which were met in the order of the list.
SortedExits(header, exits, type) ==
  LET outer     == pred_back_edge[InnermostLoopHeader(entry_block, idom[header])]
      continues == SelectSeq(exits, LAMBDA e : type[e] = "MergeToOuterBackEdge")
      demoted   == DemotedContinues(outer, continues,
                                    ExitsOf(type, "Merge") \cup ExitsOf(type, "Escape"))
  IN  ExitsByType(header, type, demoted, Elements(continues) \ demoted)

\* The exchanges at the end of analyze_loop: where a better candidate is missing
\* a weaker one takes its place, and several are reduced to one of them that
\* post-dominates the others.
InnerForDominated(e) ==
  IF e.dominated = {} /\ e.inner_dominated # {}
    THEN [e EXCEPT !.dominated = e.inner_dominated, !.inner_dominated = {}] ELSE e

InnerForDirect(e) ==
  IF e.direct = {} THEN [e EXCEPT !.direct = e.inner_direct, !.inner_direct = {}] ELSE e

DirectForDominated(e) ==
  IF e.dominated = {} THEN [e EXCEPT !.dominated = e.direct, !.direct = {}] ELSE e

ReducedDominated(e) ==
  LET m == CommonPostDominatorOf(e.dominated)
  IN  IF Cardinality(e.dominated) >= 2 /\ m \in e.dominated
        THEN [e EXCEPT !.dominated = {m}] ELSE e

AnalyzeLoop(header) ==
  LET exits == TracedExits(header)
      type  == [e \in Elements(exits) |-> LoopExitType(header, e)]
  IN  ReducedDominated(DirectForDominated(InnerForDirect(InnerForDominated(
        SortedExits(header, exits, type)))))

=============================================================================
