---------------------------- MODULE RecomputeCFG ----------------------------
(***************************************************************************)
(* CFGStructurizer::recompute_cfg: after the traversal of CFGVisit it      *)
(* prunes dead predecessors, computes immediate dominators, forward        *)
(* reachability, a backwards traversal that links loops it cannot reach to *)
(* their exits, immediate post-dominators, and the dominance frontiers.    *)
(* Every decision of the structurizer rests on these results.              *)
(*                                                                         *)
(* Vectors whose order no result depends on (the frontiers) and the        *)
(* reachability bitset are sets.                                           *)
(***************************************************************************)
EXTENDS CFGVisit

CONSTANT Switches      \* the blocks that end in a switch

ASSUME RCConstants == Switches \subseteq Nat

VARIABLES
  stage,            \* the pass of recompute_cfg that is running
  cursor,           \* the index its loop has reached
  idom,             \* per block: immediate_dominator, or Null
  reachability,     \* per block: the blocks its bitset row names
  leaf_nodes,       \* leaves in post-order
  bstack,           \* the calls of backwards_visit that have not returned
  backward_visited,
  border,           \* per block: its member backward_post_visit_order
  blist,            \* the structurizer's vector backward_post_visit_order
  fake_succ,        \* per block: fake successors
  revisit,          \* need_revisit
  grew,             \* history: this run has added a branch to the function
  ipdom,            \* per block: immediate_post_dominator, or Null
  frontiers         \* per block: its dominance_frontier and its
                    \* post_dominance_frontier

backVars == <<leaf_nodes, bstack, backward_visited, border, blist, fake_succ, revisit, grew>>
analysisVars == <<stage, cursor, idom, reachability, backVars, ipdom, frontiers>>
vars == <<visitVars, analysisVars>>

-----------------------------------------------------------------------------

exit_block == -1

\* Everything that is reached from S in any number of steps.
Closure(next, S) ==
  LET R[k \in 0 .. num_nodes] ==
        IF k = 0 THEN S ELSE UNION {{n} \cup next[n] : n \in R[k - 1]}
  IN  R[num_nodes]

SuccSets == [n \in Nodes |-> Elements(succ[n])]

\* The blocks of S by falling post-order.
ByFallingOrder(S) ==
  EraseAll([i \in DOMAIN post_order |-> post_order[Len(post_order) + 1 - i]], Nodes \ S)

AppendUnique(s, e) == IF e \in Elements(s) THEN s ELSE Append(s, e)

\* The elements of a sequence folded from the first on by op.
FoldPairs(op(_, _), s) ==
  LET F[k \in 1 .. Len(s)] == IF k = 1 THEN s[1] ELSE op(F[k - 1], s[k])
  IN  F[Len(s)]

-----------------------------------------------------------------------------
(* Dominators.                                                             *)

\* CFGNode::dominates.
Dominates(a, b) ==
  LET Up[n \in Nodes] ==
        n = a \/ (idom[n] \notin {Null, n} /\ Up[idom[n]])
  IN  Up[b]

\* Mutant: the block with the higher number climbs.
ClimbHigher(a, b) == Order(a) > Order(b)

\* Whether it is a that climbs in find_common_dominator.
ClimbFirst(a, b) == Order(a) < Order(b)

\* The blocks that have a dominator.
Processed == {n \in Nodes : idom[n] # Null}

\* find_common_dominator.  Both have a dominator when it is called, as the
\* blocks are processed by falling post-order.
CommonDominator(a, b) ==
  LET C[p \in Processed \X Processed] ==
        LET x == p[1]
            y == p[2]
        IN  CASE x = y -> x
              [] x # y /\ ClimbFirst(x, y) /\ x = idom[x] -> y
              [] x # y /\ ClimbFirst(x, y) /\ x # idom[x] -> C[<<idom[x], y>>]
              [] x # y /\ ~ ClimbFirst(x, y) /\ y = idom[y] -> x
              [] OTHER -> C[<<x, idom[y]>>]
  IN  C[<<a, b>>]

\* recompute_immediate_dominator.
ImmediateDominator(n) ==
  IF pred[n] = << >> THEN n ELSE FoldPairs(CommonDominator, pred[n])

LivePreds(n) == EraseAll(pred[n], Nodes \ visited)

PruneDeadPreds ==
  /\ stage = "visit"
  /\ phase = "visited"
  /\ pred' = [n \in Nodes |-> IF n \in visited THEN LivePreds(n) ELSE pred[n]]
  /\ stage' = "dominators"
  /\ cursor' = Len(post_order)
  /\ UNCHANGED <<phase, visits, origin, num_nodes, succ, backEdgeVars, fake_pred,
                 visited, stack, post_order, previous,
                 idom, reachability, backVars, ipdom, frontiers>>

\* build_immediate_dominators, for one block.
BuildDominator ==
  /\ stage = "dominators"
  /\ cursor > 0
  /\ idom' = [idom EXCEPT ![post_order[cursor]] = ImmediateDominator(post_order[cursor])]
  /\ cursor' = cursor - 1
  /\ UNCHANGED <<visitVars, stage, reachability, backVars, ipdom, frontiers>>

\* visit_reachability: a row is the union of the rows of the successors, which
\* were built before it.
ReachabilityRows ==
  LET R[k \in DOMAIN post_order] ==
        {post_order[k]} \cup UNION {R[Order(s)] : s \in Elements(succ[post_order[k]])}
  IN  [n \in Nodes |-> IF n \in visited THEN R[Order(n)] ELSE {}]

\* A leaf returns; a block that only branches back is none.
IsLeaf(n) == succ[n] = << >> /\ succ_back_edge[n] = Null

BuildReachability ==
  /\ stage = "dominators"
  /\ cursor = 0
  /\ reachability' = ReachabilityRows
  /\ stage' = "backward"
  /\ cursor' = 1
  /\ leaf_nodes' = EraseAll(post_order, {n \in Nodes : ~ IsLeaf(n)})
  /\ backward_visited' = {}
  /\ revisit' = FALSE
  /\ grew' = FALSE
  /\ UNCHANGED <<visitVars, idom, bstack, border, blist, fake_succ, ipdom, frontiers>>

\* query_reachability.
Reaches(a, b) == a = b \/ b \in reachability[a]

-----------------------------------------------------------------------------
(* The backwards traversal, first and second pass.                         *)

Preds(n) == pred[n] \o fake_pred[n]
BTop == bstack[Len(bstack)]
BMore == bstack # << >> /\ BTop.next <= Len(Preds(BTop.node))

BackwardsVisitLeaf ==
  /\ stage \in {"backward", "backward again"}
  /\ bstack = << >>
  /\ cursor <= Len(leaf_nodes)
  /\ bstack' = <<Frame(leaf_nodes[cursor])>>
  /\ backward_visited' = backward_visited \cup {leaf_nodes[cursor]}
  /\ cursor' = cursor + 1
  /\ UNCHANGED <<visitVars, stage, idom, reachability, leaf_nodes, border, blist,
                 fake_succ, revisit, grew, ipdom, frontiers>>

BackwardsVisitPred ==
  /\ stage \in {"backward", "backward again"}
  /\ BMore
  /\ LET p       == Preds(BTop.node)[BTop.next]
         advance == [bstack EXCEPT ![Len(bstack)].next = @ + 1]
     IN  IF p \in backward_visited
           THEN bstack' = advance /\ UNCHANGED backward_visited
           ELSE /\ bstack' = Append(advance, Frame(p))
                /\ backward_visited' = backward_visited \cup {p}
  /\ UNCHANGED <<visitVars, stage, cursor, idom, reachability, leaf_nodes, border, blist,
                 fake_succ, revisit, grew, ipdom, frontiers>>

BackwardsReturn ==
  /\ stage \in {"backward", "backward again"}
  /\ bstack # << >> /\ ~ BMore
  /\ border' = [border EXCEPT ![BTop.node] = Len(blist)]
  /\ blist' = Append(blist, BTop.node)
  /\ bstack' = SubSeq(bstack, 1, Len(bstack) - 1)
  /\ UNCHANGED <<visitVars, stage, cursor, idom, reachability, leaf_nodes,
                 backward_visited, fake_succ, revisit, grew, ipdom, frontiers>>

BackwardsDone == bstack = << >> /\ cursor > Len(leaf_nodes)

-----------------------------------------------------------------------------
(* Loops that the backwards traversal does not reach.                      *)

\* LoopBacktracer::trace_to_parent from the block that closes the loop.
LoopBlocks(header) ==
  Closure([n \in Nodes |->
             IF n = header THEN {}
             ELSE Elements(pred[n]) \cup ({pred_back_edge[n]} \ {Null})],
          {pred_back_edge[header]})

\* LoopMergeTracer::trace_from_parent.
LoopExits(header) ==
  Closure([n \in Nodes |-> IF n \in LoopBlocks(header) THEN Elements(succ[n]) ELSE {}],
          {header})
  \ LoopBlocks(header)

\* get_innermost_loop_header_for.
InnermostLoopHeader(header, node) ==
  LET Up[n \in Nodes] ==
        IF \/ n = header
           \/ pred[n] = << >>
           \/ /\ pred_back_edge[n] # Null
              /\ pred_back_edge[n] = node \/ ~ Reaches(pred_back_edge[n], node)
        THEN n
        ELSE Up[idom[n]]
  IN  Up[node]

\* dominates_all_reachable_exits.
DominatesAllReachableExits(n) ==
  \A m \in Closure(SuccSets, {n}) :
    /\ succ_back_edge[m] # Null => Dominates(n, succ_back_edge[m])
    /\ \A s \in Elements(succ[m]) : Dominates(n, s)

\* The only exit of the loop is a return, which becomes its merge block.
TransposesLoopExit(header) ==
  \E e \in LoopExits(header) :
    /\ LoopExits(header) = {e}
    /\ DominatesAllReachableExits(e)
    /\ InnermostLoopHeader(header, e) = header

\* reaches_backward_visited_node.
ReachesBackwardVisited(n) ==
  Closure([m \in Nodes |-> Elements(succ[m]) \cup Elements(fake_succ[m])], {n})
    \cap backward_visited # {}

\* The exit is a case label: the branch to it is a real one.
NeedsTrueBranch(header, e) ==
  idom[e] # Null /\ idom[e] \in Switches /\ Dominates(header, idom[e])

\* The exits that the block which closes the loop is linked to.
LinkTargets(header) ==
  IF TransposesLoopExit(header) THEN LoopExits(header)
  ELSE {e \in LoopExits(header) : ReachesBackwardVisited(e)}

\* Mutant: a loop that could not be linked is tried again.
UnreachedHeadersAgain ==
  {i \in DOMAIN post_order :
     /\ pred_back_edge[post_order[i]] # Null
     /\ pred_back_edge[post_order[i]] \notin backward_visited}

\* The headers, by post-order index, whose loop was not reached.
UnreachedHeaders ==
  {i \in DOMAIN post_order :
     /\ i <= cursor
     /\ pred_back_edge[post_order[i]] # Null
     /\ pred_back_edge[post_order[i]] \notin backward_visited}

StartLinking ==
  /\ stage = "backward"
  /\ BackwardsDone
  /\ stage' = "link"
  /\ cursor' = Len(post_order)
  /\ UNCHANGED <<visitVars, idom, reachability, backVars, ipdom, frontiers>>

\* The exits that get a real branch.
TrueTargets(header) ==
  {e \in LinkTargets(header) : TransposesLoopExit(header) /\ NeedsTrueBranch(header, e)}

\* Outer loops first: the next header by falling post-order.
LinkLoop ==
  /\ stage = "link"
  /\ UnreachedHeaders # {}
  /\ LET i      == CHOOSE i \in UnreachedHeaders : \A j \in UnreachedHeaders : j <= i
         header == post_order[i]
         latch  == pred_back_edge[header]
     IN  \E real \in {TrueTargets(header) \ Elements(succ[latch])},
            fake \in {LinkTargets(header) \ (TrueTargets(header) \cup Elements(succ[latch]))} :
           /\ succ' = [succ EXCEPT ![latch] = @ \o ByFallingOrder(real)]
           /\ pred' = [n \in Nodes |-> IF n \in real THEN AppendUnique(pred[n], latch) ELSE pred[n]]
           /\ fake_succ' = [fake_succ EXCEPT ![latch] =
                              @ \o ByFallingOrder(fake \ Elements(fake_succ[latch]))]
           /\ fake_pred' = [n \in Nodes |-> IF n \in fake THEN AppendUnique(fake_pred[n], latch)
                                                          ELSE fake_pred[n]]
           /\ backward_visited' =
                IF succ'[latch] # << >> \/ fake_succ'[latch] # << >>
                  THEN backward_visited \cup {latch} ELSE backward_visited
           /\ cursor' = i - 1
           /\ grew' = (grew \/ real # {})
  /\ revisit' = TRUE
  /\ UNCHANGED <<phase, visits, origin, num_nodes, backEdgeVars, visited, stack, post_order,
                 previous, stage, idom, reachability, leaf_nodes, bstack, border, blist,
                 ipdom, frontiers>>

\* The second pass.  The vector keeps the blocks of the first.
BackwardsAgain ==
  /\ stage = "link"
  /\ UnreachedHeaders = {}
  /\ revisit
  /\ stage' = "backward again"
  /\ cursor' = 1
  /\ backward_visited' = {}
  /\ border' = [n \in Nodes |-> IF n \in visited THEN 0 ELSE border[n]]
  /\ UNCHANGED <<visitVars, idom, reachability, leaf_nodes, bstack, blist, fake_succ,
                 revisit, grew, ipdom, frontiers>>

-----------------------------------------------------------------------------
(* Post-dominators and frontiers.                                          *)

\* The end of backwards_visit: the leaves' post-dominator is the exit block.
FinishBackwards ==
  /\ \/ stage = "link" /\ UnreachedHeaders = {} /\ ~ revisit
     \/ stage = "backward again" /\ BackwardsDone
  /\ ipdom' = [n \in Nodes |-> IF n \in Elements(leaf_nodes) THEN exit_block ELSE Null]
  /\ stage' = "post-dominators"
  /\ cursor' = Len(blist)
  /\ UNCHANGED <<visitVars, idom, reachability, backVars, frontiers>>

BOrder(n) == IF n = exit_block THEN Len(blist) ELSE border[n]
IPDom(n) == IF n = exit_block THEN exit_block ELSE ipdom[n]

\* CFGNode::post_dominates.
PostDominates(a, b) ==
  LET Up[n \in Nodes \cup {exit_block}] ==
        n = a \/ (IPDom(n) \notin {Null, n} /\ Up[IPDom(n)])
  IN  Up[b]

\* find_common_post_dominator; Null where it asserts that a block has an
\* immediate post-dominator.  Only a block that no return is reached from has
\* none, and then neither have the blocks it leads to.
CommonPostDominator(a, b) ==
  LET C[p \in (Nodes \cup {exit_block, Null}) \X (Nodes \cup {exit_block})] ==
        LET x == p[1]
            y == p[2]
        IN  CASE x = y -> x
              [] x # y /\ (x = Null \/ IPDom(x) = Null \/ IPDom(y) = Null) -> Null
              [] x # y /\ BOrder(x) < BOrder(y) -> C[<<IPDom(x), y>>]
              [] OTHER -> C[<<x, IPDom(y)>>]
  IN  C[<<a, b>>]

Succs(n) == succ[n] \o fake_succ[n]

\* The vector is read from its end.
NextEntry == blist[cursor]

\* build_immediate_post_dominators, for one entry of the vector.
BuildPostDominator ==
  /\ stage = "post-dominators"
  /\ cursor > 0
  /\ LET n == NextEntry
     IN  IF Succs(n) = << >>
           THEN UNCHANGED <<ipdom, stage>>
           ELSE /\ ipdom' = [ipdom EXCEPT ![n] = FoldPairs(CommonPostDominator, Succs(n))]
                /\ stage' = IF ipdom'[n] = Null THEN "no post-dominator" ELSE stage
  /\ cursor' = cursor - 1
  /\ UNCHANGED <<visitVars, idom, reachability, backVars, frontiers>>

\* What the immediate dominator inherits.
Inherited(n, own) ==
  IF succ[n] = << >> THEN {} ELSE {f \in own : ~ Dominates(idom[n], f)}

\* The frontiers with those of the blocks of S cleared.
Cleared(frontier, S) == [n \in Nodes |-> IF n \in S THEN {} ELSE frontier[n]]

\* The frontiers with that of n replaced by own, and what is passed on to m.
PassOn(frontier, n, own, m, passed) ==
  [k \in Nodes |-> (IF k = n THEN own ELSE frontier[k])
                   \cup (IF k = m THEN passed ELSE {})]

StartFrontiers ==
  /\ stage = "post-dominators"
  /\ cursor = 0
  /\ frontiers' = [frontiers EXCEPT !.dom = Cleared(@, visited)]
  /\ stage' = "frontiers"
  /\ cursor' = 1
  /\ UNCHANGED <<visitVars, idom, reachability, backVars, ipdom>>

\* compute_dominance_frontier: recompute_dominance_frontier by post-order.
ComputeDominanceFrontier ==
  /\ stage = "frontiers"
  /\ cursor <= Len(post_order)
  /\ LET n   == post_order[cursor]
         own == frontiers.dom[n] \cup {s \in Elements(succ[n]) : idom[s] # n}
     IN  frontiers' = [frontiers EXCEPT !.dom = PassOn(@, n, own, idom[n], Inherited(n, own))]
  /\ cursor' = cursor + 1
  /\ UNCHANGED <<visitVars, stage, idom, reachability, backVars, ipdom>>

StartPostFrontiers ==
  /\ stage = "frontiers"
  /\ cursor > Len(post_order)
  /\ frontiers' = [frontiers EXCEPT !.postdom = Cleared(@, Elements(blist))]
  /\ stage' = "post-frontiers"
  /\ cursor' = 1
  /\ UNCHANGED <<visitVars, idom, reachability, backVars, ipdom>>

\* Mutant: the frontier of a block is not passed on to its post-dominator.
NoPostInherited(n, own) == {}

\* What the immediate post-dominator inherits.
PostInherited(n, own) ==
  IF pred[n] = << >> THEN {} ELSE {f \in own : ~ PostDominates(ipdom[n], f)}

\* compute_post_dominance_frontier, by the vector of the backwards traversals.
\* It looks at predecessors, and not at fake ones.
ComputePostDominanceFrontier ==
  /\ stage = "post-frontiers"
  /\ cursor <= Len(blist)
  /\ LET n   == blist[cursor]
         own == frontiers.postdom[n] \cup {p \in Elements(pred[n]) : ipdom[p] # n}
     IN  frontiers' =
           [frontiers EXCEPT !.postdom = PassOn(@, n, own, ipdom[n], PostInherited(n, own))]
  /\ cursor' = cursor + 1
  /\ UNCHANGED <<visitVars, stage, idom, reachability, backVars, ipdom>>

FinishRecompute ==
  /\ stage = "post-frontiers"
  /\ cursor > Len(blist)
  /\ stage' = "done"
  /\ UNCHANGED <<visitVars, cursor, idom, reachability, backVars, ipdom, frontiers>>

-----------------------------------------------------------------------------

AnalysisInit ==
  /\ stage = "visit"
  /\ cursor = 0
  /\ idom = [n \in Blocks |-> Null]
  /\ reachability = [n \in Blocks |-> {}]
  /\ leaf_nodes = << >>
  /\ bstack = << >>
  /\ backward_visited = {}
  /\ border = [n \in Blocks |-> 0]
  /\ blist = << >>
  /\ fake_succ = [n \in Blocks |-> << >>]
  /\ revisit = FALSE
  /\ grew = FALSE
  /\ ipdom = [n \in Blocks |-> Null]
  /\ frontiers = [dom |-> [n \in Blocks |-> {}], postdom |-> [n \in Blocks |-> {}]]

RCInit == CVInit /\ AnalysisInit

\* recompute_cfg again, or for the first time.  The numbers of the backwards
\* traversals and the frontiers are not reset; only new blocks have none.
RecomputeAll ==
  /\ stage = "done" \/ phase = "analysis"
  /\ Recompute
  /\ stage' = "visit"
  /\ cursor' = 0
  /\ idom' = [n \in Nodes |-> Null]
  /\ reachability' = [n \in Nodes |-> {}]
  /\ leaf_nodes' = << >>
  /\ bstack' = << >>
  /\ backward_visited' = {}
  /\ border' = [n \in Nodes |-> IF n \in DOMAIN border THEN border[n] ELSE 0]
  /\ blist' = << >>
  /\ fake_succ' = [n \in Nodes |-> << >>]
  /\ revisit' = FALSE
  /\ grew' = FALSE
  /\ ipdom' = [n \in Nodes |-> Null]
  /\ frontiers' = [dom     |-> Cleared(frontiers.dom, Nodes \ DOMAIN border),
                    postdom |-> Cleared(frontiers.postdom, Nodes \ DOMAIN border)]

Traverse ==
  /\ VisitSucc \/ RecordBackEdge \/ ReturnFromAnalysis \/ VisitBackEdge \/ ReturnFromVisit
  /\ UNCHANGED analysisVars

RCNext ==
  \/ Traverse
  \/ RecomputeAll
  \/ PruneDeadPreds
  \/ BuildDominator
  \/ BuildReachability
  \/ BackwardsVisitLeaf
  \/ BackwardsVisitPred
  \/ BackwardsReturn
  \/ StartLinking
  \/ LinkLoop
  \/ BackwardsAgain
  \/ FinishBackwards
  \/ BuildPostDominator
  \/ StartFrontiers
  \/ ComputeDominanceFrontier
  \/ StartPostFrontiers
  \/ ComputePostDominanceFrontier
  \/ FinishRecompute

RCSpec == RCInit /\ [][RCNext]_vars /\ WF_vars(RCNext)

-----------------------------------------------------------------------------
(* Reference definitions: what a path reaches is in every set of blocks    *)
(* that no edge leaves, and a block is dominated by the blocks without     *)
(* which it is not reached.                                                *)

\* The sets of nodes that contain `from` and that no edge leaves.
ClosedSets(nodes, edges, from) ==
  {S \in SUBSET nodes : from \in S /\ \A e \in edges : e[1] \in S /\ e[2] \in nodes => e[2] \in S}

\* The nodes that are reached from `from`, which is one of them.
Reached(nodes, edges, from) ==
  LET closed == ClosedSets(nodes, edges, from)
  IN  {b \in nodes : \A S \in closed : b \in S}

\* The blocks that are reached from `from` only through a.
OnlyThrough(nodes, edges, from, a) ==
  LET others == Reached(nodes \ {a}, edges, from)
  IN  {b \in nodes : b = a \/ a = from \/ b \notin others}

\* No set of nodes can be gone round in for ever.
Acyclic(nodes, edges) ==
  \A S \in SUBSET nodes : S # {} => \E n \in S : \A m \in S : <<n, m>> \notin edges

\* Without the edges to a block that dominates their source, a reducible graph
\* has no cycle.
ReducibleGraph(nodes, edges) ==
  LET dom == [a \in nodes |-> OnlyThrough(nodes, edges, entry_block, a)]
  IN  Acyclic(nodes, {e \in edges \cap (nodes \X nodes) : e[1] \notin dom[e[2]]})

\* The input function is reducible.
Reducible == ReducibleGraph(visited \cap Blocks, origin)

\* The function as it is now, back edges included.
Branches ==
  Edges(succ) \cup {<<n, succ_back_edge[n]>> : n \in {m \in Nodes : succ_back_edge[m] # Null}}

\* Every reachable block can reach a return.
Returning ==
  LET live == visited \cap Blocks
  IN  \A a \in live : \E b \in Reached(live, origin, a) : \A c \in Blocks : <<b, c>> \notin origin

-----------------------------------------------------------------------------
(* Properties.                                                             *)

\* The type of every variable but ipdom.
RCTypeOK ==
  /\ cursor \in Nat
  /\ idom \in [DOMAIN idom -> Nodes \cup {Null}]
  /\ stage \notin {"visit", "dominators"} => \A n \in visited : idom[n] \in visited
  /\ reachability \in [DOMAIN idom -> SUBSET Nodes]
  /\ leaf_nodes \in Seq(Nodes)
  /\ bstack \in Seq([node : Nodes, next : Nat \ {0}])
  /\ backward_visited \subseteq Nodes
  /\ border \in [DOMAIN idom -> Nat]
  /\ blist \in Seq(Nodes)
  /\ fake_succ \in [DOMAIN idom -> Seq(Nodes)]
  /\ revisit \in BOOLEAN /\ grew \in BOOLEAN
  /\ \A f \in {frontiers.dom, frontiers.postdom} : f \in [DOMAIN idom -> SUBSET Nodes]

\* In a reducible function dominates(), which climbs immediate dominators that
\* were computed without the back edges, is dominance in the whole function,
\* unless this very run has added a branch to it.
DominatorsAreDominators ==
  stage = "done" /\ ~ grew =>
    (ReducibleGraph(visited, Branches) =>
      \A a \in visited :
        {b \in visited : Dominates(a, b)} = OnlyThrough(visited, Branches, entry_block, a))

\* With the same exception query_reachability answers for the paths of branches
\* that are no back edges.
ReachabilityIsPaths ==
  stage = "done" /\ ~ grew =>
    \A a \in visited : {b \in visited : Reaches(a, b)} = Reached(visited, Edges(succ), a)

\* With the same exception the dominance frontier of a block is where its
\* dominance ends: the blocks it does not dominate that follow a block it
\* dominates.
FrontierIsWhereDominanceEnds ==
  stage = "done" /\ ~ grew =>
    \A a \in visited :
      frontiers.dom[a] = {s \in visited : /\ a = s \/ ~ Dominates(a, s)
                                     /\ \E p \in visited : s \in Elements(succ[p]) /\ Dominates(a, p)}

\* The post-dominance frontier of a block is where its post-dominance begins:
\* the blocks it does not post-dominate that branch to a block it does.
PostFrontierIsWherePostDominanceBegins ==
  stage = "done" /\ visited \subseteq backward_visited =>
    \A a \in visited :
      frontiers.postdom[a] =
        {p \in visited : /\ a = p \/ ~ PostDominates(a, p)
                         /\ \E s \in Elements(succ[p]) : PostDominates(a, s)}

\* The analyses that a recompute_cfg from the entry leaves: dominators,
\* reachability and dominance frontiers are those of the function.
ForwardAnalysesCorrect ==
  RCTypeOK /\ DominatorsAreDominators /\ ReachabilityIsPaths /\ FrontierIsWhereDominanceEnds

BackwardsFinished ==
  stage \in {"post-dominators", "no post-dominator", "done"}

\* "This way, we ensure that every forward-reachable block is reachable in a
\* backwards traversal as well" (backwards_visit), in a reducible function in
\* which every block can reach a return.
BackwardsReachesAll ==
  BackwardsFinished /\ Reducible /\ Returning =>
    visited \subseteq backward_visited

\* Every loop is left by a branch other than the back edge of an outer loop.
LoopsHaveForwardExits ==
  \A h \in visited : pred_back_edge[h] # Null => LoopExits(h) # {}

\* Where every loop has such an exit the fake branches do make every block
\* reachable backwards.
BackwardsReachesLoops ==
  BackwardsFinished =>
    (LoopsHaveForwardExits => BackwardsReachesAll)

\* post_dominates() is post-dominance in the graph of the forward and the fake
\* branches: a block is on every path from the other to the exit.
PostDominatorsArePostDominators ==
  stage = "done" /\ Reducible /\ Returning =>
    LET nodes == visited \cup {exit_block}
        edges == {<<e[2], e[1]>> : e \in Edges(succ) \cup Edges(fake_succ)}
                   \cup {<<exit_block, n>> : n \in Elements(leaf_nodes)}
    IN  \A a \in visited :
          {b \in visited : PostDominates(a, b)} = OnlyThrough(nodes, edges, exit_block, a) \ {exit_block}

\* find_common_post_dominator meets no block without a post-dominator, which its
\* assertions exclude, if every block was reached backwards.
PostDominatorsExist ==
  stage = "no post-dominator" => ~ (visited \subseteq backward_visited)

PostTypeOK == ipdom \in [DOMAIN idom -> Nodes \cup {Null, exit_block}]

\* The analyses from the returns: every block of a loop with an exit is reached,
\* post-dominators exist and are those of the graph with the fake branches, and
\* so are the post-dominance frontiers.
BackwardAnalysesCorrect ==
  /\ PostTypeOK /\ BackwardsReachesLoops /\ PostDominatorsExist
  /\ PostDominatorsArePostDominators /\ PostFrontierIsWherePostDominanceBegins

\* recompute_cfg ends, however its walks up the dominators go.
RecomputeEnds ==
  <>[](stage \in {"done", "no post-dominator"} \/ phase = "block has two back edges")

=============================================================================
