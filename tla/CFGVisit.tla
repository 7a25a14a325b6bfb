------------------------------ MODULE CFGVisit ------------------------------
(***************************************************************************)
(* The depth-first traversals the structurizer starts every analysis with  *)
(* (cfg_structurizer.cpp, node.cpp): rewrite_multiple_back_edges, which    *)
(* gives each loop header a single back edge, and reset_traversal with     *)
(* visit, which numbers the blocks in post-order and moves the back edges  *)
(* out of the successor and predecessor lists.  recompute_cfg runs the     *)
(* second pair again and again on the graph the first run left behind.     *)
(*                                                                         *)
(* A recursive call is a frame of an explicit stack; one step looks at one *)
(* successor or returns.                                                   *)
(***************************************************************************)
EXTENDS Integers, Sequences

CONSTANTS
  NumBlocks,      \* blocks of the function; block 1 is the entry block
  Inputs,         \* the functions to traverse: per block, its successors
  MaxVisits       \* bound: how often the traversal is repeated

Null == 0
entry_block == 1
Blocks == 1 .. NumBlocks

\* A function is its blocks' lists of successors.  add_branch keeps the
\* successors of a block different; the entry block is nobody's successor.
IsFunction(sc) ==
  /\ sc \in [Blocks -> Seq(Blocks \ {entry_block})]
  /\ \A n \in Blocks : \A i, j \in DOMAIN sc[n] : sc[n][i] = sc[n][j] => i = j

ASSUME CVConstants ==
  /\ NumBlocks \in Nat \ {0} /\ MaxVisits \in Nat \ {0}
  /\ \A sc \in Inputs : IsFunction(sc)

VARIABLES
  phase,            \* "analysis", "visit", "visited", or the assertion that failed
  visits,           \* how many traversals were started
  origin,           \* the edges of the input function (never changed)
  num_nodes,        \* blocks in the pool
  succ, pred,       \* per block: its successors and predecessors, in order
  succ_back_edge,   \* per block: the loop header it branches back to, or Null
  pred_back_edge,   \* per block: the block that branches back to it, or Null
  fake_pred,        \* per block: the back edges the analysis found
  visited,          \* blocks that were entered
  stack,            \* the calls that have not returned
  post_order,       \* forward_post_visit_order: the blocks that returned
  previous          \* history: the result of the traversal before

graphVars == <<num_nodes, succ, pred>>
backEdgeVars == <<succ_back_edge, pred_back_edge>>
visitVars == <<phase, visits, origin, graphVars, backEdgeVars, fake_pred,
               visited, stack, post_order, previous>>

-----------------------------------------------------------------------------

Nodes == 1 .. num_nodes

Elements(s) == {s[i] : i \in DOMAIN s}

Edges(sc) == {e \in (DOMAIN sc) \X (DOMAIN sc) : e[2] \in Elements(sc[e[1]])}

\* vector::erase of the element that std::find finds.
Position(s, e) == CHOOSE k \in DOMAIN s : s[k] = e
Erase(s, e) ==
  IF e \notin Elements(s) THEN s
  ELSE [i \in 1 .. Len(s) - 1 |-> IF i < Position(s, e) THEN s[i] ELSE s[i + 1]]

\* Erase(s, e) for every e of a set.
EraseAll(s, es) ==
  LET Rest[i \in 0 .. Len(s)] ==
        IF i = 0 THEN << >> ELSE IF s[i] \in es THEN Rest[i - 1] ELSE Append(Rest[i - 1], s[i])
  IN  Rest[Len(s)]

Replace(s, old, new) == [i \in DOMAIN s |-> IF s[i] = old THEN new ELSE s[i]]

PushUnlessNull(s, e) == IF e = Null THEN s ELSE Append(s, e)

-----------------------------------------------------------------------------
(* The traversals.                                                         *)

Frame(n) == [node |-> n, next |-> 1]
Top == stack[Len(stack)]
Pop == SubSeq(stack, 1, Len(stack) - 1)
Traversing == {stack[i].node : i \in DOMAIN stack}

\* The loop over the successors moves on.
Advance == [stack EXCEPT ![Len(stack)].next = @ + 1]

MoreSucc == stack # << >> /\ Top.next <= Len(succ[Top.node])
NextSucc == succ[Top.node][Top.next]
Returns == stack # << >> /\ Top.next > Len(succ[Top.node])

\* The call of a traversal on the entry block.
Enter(n) ==
  /\ stack' = <<Frame(n)>>
  /\ visited' = {n}

\* A successor that was visited before and is not an ancestor, or one that
\* was not visited: the same in both traversals.
VisitSucc ==
  /\ phase \in {"analysis", "visit"}
  /\ MoreSucc
  /\ NextSucc \notin Traversing
  /\ IF NextSucc \in visited
       THEN stack' = Advance /\ UNCHANGED visited
       ELSE /\ stack' = Append(Advance, Frame(NextSucc))
            /\ visited' = visited \cup {NextSucc}
  /\ UNCHANGED <<phase, visits, origin, graphVars, backEdgeVars, fake_pred, post_order, previous>>

\* visit_for_back_edge_analysis: the successor is an ancestor.
RecordBackEdge ==
  /\ phase = "analysis"
  /\ MoreSucc
  /\ NextSucc \in Traversing
  /\ fake_pred' = [fake_pred EXCEPT ![NextSucc] = Append(@, Top.node)]
  /\ stack' = Advance
  /\ UNCHANGED <<phase, visits, origin, graphVars, backEdgeVars, visited, post_order, previous>>

NeedsMerge(n) == Len(fake_pred[n]) >= 2

\* A new block takes the back edges of header n over and branches to n:
\* retarget_branch_pre_traversal of each, then add_branch.
MergeBackEdges(n) ==
  LET new     == num_nodes + 1
      latches == Elements(fake_pred[n])
  IN  /\ num_nodes' = new
      /\ succ' = [m \in 1 .. new |->
                    IF m = new THEN <<n>>
                    ELSE IF m \in latches THEN Replace(succ[m], n, new) ELSE succ[m]]
      /\ pred' = [m \in 1 .. new |->
                    IF m = new THEN fake_pred[n]
                    ELSE IF m = n THEN Append(EraseAll(pred[n], latches), new) ELSE pred[m]]
      /\ succ_back_edge' = [m \in 1 .. new |-> Null]
      /\ pred_back_edge' = [m \in 1 .. new |-> Null]
      /\ fake_pred' = [m \in 1 .. new |-> IF m = new THEN << >> ELSE fake_pred[m]]

ReturnFromAnalysis ==
  /\ phase = "analysis"
  /\ Returns
  /\ stack' = Pop
  /\ IF NeedsMerge(Top.node)
       THEN MergeBackEdges(Top.node)
       ELSE UNCHANGED <<graphVars, backEdgeVars, fake_pred>>
  /\ UNCHANGED <<phase, visits, origin, visited, post_order, previous>>

\* reset_traversal puts the back edge of a block back, as its last edge.
RestoreBackEdges(edges, back) == [n \in Nodes |-> PushUnlessNull(edges[n], back[n])]

Result == <<post_order, succ_back_edge, pred_back_edge>>

\* recompute_cfg: reset_traversal, and the call of visit.
Recompute ==
  /\ \/ phase = "analysis" /\ stack = << >>
     \/ phase = "visited"
  /\ visits < MaxVisits
  /\ phase' = "visit"
  /\ visits' = visits + 1
  /\ succ' = RestoreBackEdges(succ, succ_back_edge)
  /\ pred' = RestoreBackEdges(pred, pred_back_edge)
  /\ succ_back_edge' = [n \in Nodes |-> Null]
  /\ pred_back_edge' = [n \in Nodes |-> Null]
  /\ fake_pred' = [n \in Nodes |-> << >>]
  /\ post_order' = << >>
  /\ previous' = Result
  /\ Enter(entry_block)
  /\ UNCHANGED <<origin, num_nodes>>

\* visit: the successor is an ancestor.  The two assertions allow a block one
\* back edge and a header one back edge.
VisitBackEdge ==
  /\ phase = "visit"
  /\ MoreSucc
  /\ NextSucc \in Traversing
  /\ LET n == Top.node
         s == NextSucc
     IN  CASE succ_back_edge[n] \notin {Null, s} ->
                /\ phase' = "block has two back edges"
                /\ UNCHANGED <<backEdgeVars, stack>>
           [] pred_back_edge[s] \notin {Null, n} ->
                /\ phase' = "header has two back edges"
                /\ UNCHANGED <<backEdgeVars, stack>>
           [] OTHER ->
                /\ succ_back_edge' = [succ_back_edge EXCEPT ![n] = s]
                /\ pred_back_edge' = [pred_back_edge EXCEPT ![s] = n]
                /\ stack' = Advance
                /\ UNCHANGED phase
  /\ UNCHANGED <<visits, origin, graphVars, fake_pred, visited, post_order, previous>>

\* Mutant: the back edge stays among the successors.
KeepSucc(n) == succ[n]

\* Mutant: the back edge stays among the predecessors.
KeepPred(n) == pred[n]

ForwardSucc(n) == Erase(succ[n], succ_back_edge[n])
ForwardPred(n) == Erase(pred[n], pred_back_edge[n])

ReturnFromVisit ==
  /\ phase = "visit"
  /\ Returns
  /\ succ' = [succ EXCEPT ![Top.node] = ForwardSucc(Top.node)]
  /\ pred' = [pred EXCEPT ![Top.node] = ForwardPred(Top.node)]
  /\ post_order' = Append(post_order, Top.node)
  /\ stack' = Pop
  /\ phase' = IF Len(stack) = 1 THEN "visited" ELSE "visit"
  /\ UNCHANGED <<visits, origin, num_nodes, backEdgeVars, fake_pred, visited, previous>>

-----------------------------------------------------------------------------

\* The function as add_branch builds it, block after block.
FunctionInit ==
  /\ succ \in Inputs
  /\ pred = [n \in Blocks |-> EraseAll([m \in Blocks |-> m], {m \in Blocks : n \notin Elements(succ[m])})]
  /\ origin = Edges(succ)
  /\ num_nodes = NumBlocks
  /\ succ_back_edge = [n \in Blocks |-> Null]
  /\ pred_back_edge = [n \in Blocks |-> Null]
  /\ fake_pred = [n \in Blocks |-> << >>]
  /\ post_order = << >>
  /\ previous = << >>
  /\ visits = 0
  /\ phase = "analysis"

\* rewrite_multiple_back_edges has reset the traversal and entered the entry.
CVInit ==
  /\ FunctionInit
  /\ stack = <<Frame(entry_block)>>
  /\ visited = {entry_block}

CVNext ==
  \/ VisitSucc
  \/ RecordBackEdge
  \/ ReturnFromAnalysis
  \/ Recompute
  \/ VisitBackEdge
  \/ ReturnFromVisit

CVSpec == CVInit /\ [][CVNext]_visitVars

-----------------------------------------------------------------------------
(* Properties.                                                             *)

\* The type of every variable.
CVTypeOK ==
  /\ phase \in {"analysis", "visit", "visited",
                "block has two back edges", "header has two back edges"}
  /\ visits \in 0 .. MaxVisits
  /\ num_nodes \in Nat /\ num_nodes >= NumBlocks
  /\ succ \in [Nodes -> Seq(Nodes)]
  /\ pred \in [Nodes -> Seq(Nodes)]
  /\ fake_pred \in [Nodes -> Seq(Nodes)]
  /\ succ_back_edge \in [Nodes -> Nodes \cup {Null}]
  /\ pred_back_edge \in [Nodes -> Nodes \cup {Null}]
  /\ visited \subseteq Nodes
  /\ stack \in Seq([node : Nodes, next : Nat \ {0}])
  /\ post_order \in Seq(Nodes)

Order(n) == CHOOSE k \in DOMAIN post_order : post_order[k] = n

\* "If parent can branch to this, then post_order(parent) must be greater than
\* post_order(this)" (node.cpp): the graph without its back edges is acyclic.
ForwardEdgesDescend ==
  phase = "visited" =>
    \A n \in visited : \A s \in Elements(succ[n]) :
      s \in visited /\ Order(s) < Order(n)

\* "We make the assumption during traversal that there is only one back edge.
\* Fix this up here" (run): in no traversal that follows does a loop header
\* have two back edges, be the graph reducible or not.
OneBackEdgePerHeader == phase # "header has two back edges"

\* recompute_cfg may be repeated at will: reset_traversal reorders the branches
\* of the blocks that close a loop, and still the next traversal finds the same
\* back edges and the same order.
RecomputeIsStable == phase = "visited" /\ visits > 1 => Result = previous

\* Every edge is recorded at both of its ends, in every traversal.
EdgesHaveTwoEnds ==
  phase = "visited" =>
    /\ \A a, b \in visited : b \in Elements(succ[a]) <=> a \in Elements(pred[b])
    /\ \A a, b \in visited : succ_back_edge[a] = b <=> pred_back_edge[b] = a

\* Where a branch to node n leads in the input function: a block that merges
\* back edges leads to its header.
Leads(n) ==
  IF n \in Blocks THEN n
  ELSE CHOOSE h \in Blocks : h \in Elements(succ[n]) \/ h = succ_back_edge[n]

\* The traversals rewrite branches and move back edges, but a reachable block
\* keeps its branches.
BranchesPreserved ==
  phase = "visited" =>
    \A a \in visited \cap Blocks :
      {Leads(s) : s \in (Elements(succ[a]) \cup {succ_back_edge[a]}) \ {Null}}
        = {b \in Blocks : <<a, b>> \in origin}

\* A traversal, repeated at will, leaves the function what it was: see the four
\* properties above.
TraversalsSound ==
  CVTypeOK /\ OneBackEdgePerHeader /\ EdgesHaveTwoEnds /\ RecomputeIsStable /\ BranchesPreserved

\* "For now, only support one back edge" (visit): after the back edges of each
\* header were merged, no block branches back to two headers.
OneBackEdgePerBlock == phase # "block has two back edges"

=============================================================================
