---------------------------- MODULE BlockEmission ----------------------------
(***************************************************************************)
(* Emission of a structured function as SPIR-V blocks (spirv_module.cpp,   *)
(* CFGStructurizer::traverse).  Every node is given a block before any is  *)
(* emitted.  A node may become several blocks: masked loads and stores,    *)
(* conditional returns and some loop headers split it, and from then on    *)
(* node->id names its last block.  PHIs name their predecessors by         *)
(* node->id, so those emitted too early are rewritten when a terminator    *)
(* is emitted.                                                             *)
(***************************************************************************)
EXTENDS Integers, Sequences, FiniteSets, SequencesExt

CONSTANTS Functions,     \* structured functions: per node its terminator, targets and merge
          OpLists        \* per function, the operations its nodes may hold

VARIABLES
  function,   \* the function and the operations of its nodes
  emitted,    \* how many nodes traverse has emitted
  blocks,     \* the SPIR-V blocks by id
  nodeId,     \* node->id
  module      \* what the module remembers: the last id, the helper, the error mark

beVars == <<function, emitted, blocks, nodeId, module>>

Nodes == 1 .. Len(function.nodes)
Node(n) == function.nodes[n]
Targets(n) == {Node(n).succ[i] : i \in DOMAIN Node(n).succ}
NodePreds(n) == {p \in Nodes : n \in Targets(p)}

None == 0
NoMerge == [kind |-> "none", merge |-> None, continue |-> None]
EmptyBlock == [phis |-> {}, merge |-> NoMerge, term |-> "none", succ |-> << >>, ops |-> << >>]

\* register_block, for every node in the order of traversal.
BEInit ==
  \E f \in Functions : \E ops \in OpLists[f] :
    /\ function = [nodes |-> f, ops |-> ops]
    /\ emitted = 0
    /\ blocks = [n \in 1 .. Len(f) |-> EmptyBlock]
    /\ nodeId = [n \in 1 .. Len(f) |-> n]
    /\ module = [last |-> Len(f), assume |-> 0, calls |-> {}, error |-> FALSE]

-----------------------------------------------------------------------------
(* Emission of one node works on a context: the blocks so far, the block   *)
(* that is written to, the node's id and what the module remembers.        *)

Fresh(c, k) == c.module.last + k
WithBlocks(c, new) == [c EXCEPT !.module.last = @ + Len(new),
                                !.blocks = @ @@ [i \in Fresh(c, 1) .. Fresh(c, Len(new)) |->
                                                   new[i - c.module.last]]]
WrittenBlocks(c, b, fields) == [c EXCEPT !.blocks[b] = fields]
WithMerge(c, kind, merge, continue) ==
  WrittenBlocks(c, c.bb, [c.blocks[c.bb] EXCEPT !.merge = [kind |-> kind, merge |-> merge, continue |-> continue]])
WithTerm(c, term, succ) == WrittenBlocks(c, c.bb, [c.blocks[c.bb] EXCEPT !.term = term, !.succ = succ])
Unreachable == [EmptyBlock EXCEPT !.term = "unreachable"]
To(b) == [EmptyBlock EXCEPT !.term = "branch", !.succ = <<b>>]

IsLoop(n) == Node(n).merge = "loop"

\* A loop without a continue block, or without a merge block, gets a block of its own.
Fakes(n) == IsLoop(n) /\ ((Node(n).mb = None) # (Node(n).cb = None))

\* emit_loop_header; the fake block was given its id when the node was entered.
LoopHeader(c, n, replacement) ==
  LET continue == IF replacement # None THEN replacement ELSE Node(n).cb
  IN  CASE Node(n).mb # None /\ Node(n).cb # None -> WithMerge(c, "loop", Node(n).mb, continue)
        [] Node(n).mb # None /\ Node(n).cb = None ->
             WithMerge(WrittenBlocks(c, c.fake, To(n)), "loop", Node(n).mb, c.fake)
        [] Node(n).mb = None /\ Node(n).cb # None ->
             WithMerge(WrittenBlocks(c, c.fake, Unreachable), "loop", c.fake, continue)
        [] OTHER -> c

\* The loop header is finished before the block is replaced: its operations go on in a
\* block of their own, which is the continue block if the header was.
SplitHeader(c, n) ==
  LET direct == Fresh(c, 1)
      c1 == LoopHeader(WithBlocks(c, <<EmptyBlock>>), n, IF Node(n).cb = n THEN direct ELSE None)
  IN  [WithTerm(c1, "branch", <<direct>>) EXCEPT !.bb = direct]

\* PseudoOpReturnCond, PseudoOpMaskedLoad and PseudoOpMaskedStore.
SplitBlock(c, op) ==
  LET inner == Fresh(c, 1)
      merge == Fresh(c, 2)
      body  == IF op = "return_cond" THEN [EmptyBlock EXCEPT !.term = "return"] ELSE To(merge)
      joins == IF op = "masked_load" THEN {inner, c.bb} ELSE {}
      c1    == WithBlocks(c, <<[body EXCEPT !.ops = <<op>>], [EmptyBlock EXCEPT !.phis = joins]>>)
      c2    == WithTerm(WithMerge(c1, "selection", merge, None), "condition", <<inner, merge>>)
  IN  [c2 EXCEPT !.bb = merge, !.id = merge, !.rewritten = TRUE]

Splits == {"return_cond", "masked_load", "masked_store"}
Terminating == {"terminate_ray", "emit_mesh_tasks"}

\* add_instrumented_instruction: the helper is built for its first caller.
Assume(c, arguments) ==
  LET built == IF c.module.assume = 0 THEN arguments + 1 ELSE c.module.assume
  IN  [c EXCEPT !.module.assume = built, !.module.calls = @ \cup {<<built, arguments + 1>>}]

EmitOp(c, n, op) ==
  LET header == IF IsLoop(n) /\ ~ c.rewritten THEN SplitHeader(c, n) ELSE c
      plain  == WrittenBlocks(c, c.bb, [c.blocks[c.bb] EXCEPT !.ops = Append(@, op)])
  IN  CASE c.stopped          -> c
        [] ~ c.stopped /\ op \in Splits      -> SplitBlock(header, op)
        [] ~ c.stopped /\ op = "assume"      -> Assume(c, 1)
        [] ~ c.stopped /\ op = "assume_code" -> Assume(c, 2)
        [] ~ c.stopped /\ op \in Terminating -> [plain EXCEPT !.stopped = TRUE]
        [] OTHER -> plain

\* The block as the node is entered: a PHI takes node->id of its predecessors as they are now.
Enter(n) ==
  LET base == [blocks |-> blocks, module |-> module, bb |-> n, id |-> nodeId[n],
               fake |-> None, rewritten |-> FALSE, stopped |-> FALSE]
      c    == IF Fakes(n) THEN [WithBlocks(base, <<EmptyBlock>>) EXCEPT !.fake = Fresh(base, 1)] ELSE base
      back == IF Fakes(n) /\ Node(n).cb = None THEN {c.fake} ELSE {}
      phis == IF NodePreds(n) = {} THEN {} ELSE {nodeId[p] : p \in NodePreds(n)} \cup back
  IN  WrittenBlocks(c, n, [c.blocks[n] EXCEPT !.phis = phis])

\* The structured merge of the node, unless a split has emitted it.
EmitMerge(c, n) ==
  CASE Node(n).merge = "selection" /\ Node(n).mb # None -> WithMerge(c, "selection", Node(n).mb, None)
    [] Node(n).merge = "selection" /\ Node(n).mb = None ->
         WithMerge(WithBlocks(c, <<Unreachable>>), "selection", Fresh(c, 1), None)
    [] IsLoop(n) /\ ~ c.rewritten -> LoopHeader(c, n, None)
    [] OTHER -> c

\* A loop header may only branch to its merge or continue block or unconditionally.
NeedsSelection(n) ==
  /\ IsLoop(n) /\ Node(n).term = "condition"
  /\ Targets(n) \cap {Node(n).mb, Node(n).cb} = {}

EmitCondition(c, n) ==
  LET fake == Fresh(c, 1)
      selection == [EmptyBlock EXCEPT !.term = "condition", !.succ = Node(n).succ,
                                      !.merge = [kind |-> "selection", merge |-> fake + 1, continue |-> None]]
  IN  CASE NeedsSelection(n) /\ ~ c.rewritten ->
             [WithTerm(WithBlocks(c, <<selection, Unreachable>>), "branch", <<fake>>) EXCEPT !.id = fake]
        [] NeedsSelection(n) /\ c.rewritten ->
             WithTerm(WithMerge(WithBlocks(c, <<Unreachable>>), "selection", fake, None),
                      "condition", Node(n).succ)
        [] OTHER -> WithTerm(c, "condition", Node(n).succ)

\* rewritePhiIncoming on every target, once node->id is another block.
\* Mutant: only blocks still to be emitted are right.
NoRewrite(c, n) == c
RewritePhis(c, n) ==
  IF ~ c.rewritten THEN c
  ELSE [c EXCEPT !.blocks = [b \in DOMAIN @ |->
          IF b \in Targets(n)
            THEN [@[b] EXCEPT !.phis = {IF p = nodeId[n] THEN c.id ELSE p : p \in @}] ELSE @[b]]]

EmitTerminator(c, n) ==
  RewritePhis(IF Node(n).term = "condition" THEN EmitCondition(c, n)
              ELSE WithTerm(c, Node(n).term, Node(n).succ), n)

\* A node that terminates in the middle must not merge, and must end the function.
Stop(c, n) ==
  LET bad == Node(n).merge # "none" \/ Node(n).term \notin {"unreachable", "return"}
  IN  WithTerm([c EXCEPT !.module.error = @ \/ bad], "terminated", << >>)

\* emit_basic_block.
EmitBasicBlock ==
  /\ emitted < Len(function.nodes)
  /\ LET n == emitted + 1 IN
     \E body \in {FoldLeft(LAMBDA c, op : EmitOp(c, n, op), Enter(n), function.ops[n])} :
     \E c \in {IF body.stopped THEN Stop(body, n) ELSE EmitTerminator(EmitMerge(body, n), n)} :
       /\ blocks' = c.blocks
       /\ module' = c.module
       /\ nodeId' = [nodeId EXCEPT ![n] = c.id]
       /\ emitted' = n
  /\ UNCHANGED function

BENext == EmitBasicBlock
BESpec == BEInit /\ [][BENext]_beVars

-----------------------------------------------------------------------------
(* Properties.                                                             *)

Emitted == emitted = Len(function.nodes) /\ ~ module.error
Succs(b) == {blocks[b].succ[i] : i \in DOMAIN blocks[b].succ}
BlockPreds(b) == {p \in DOMAIN blocks : b \in Succs(p)}

\* Every PHI names exactly the blocks that branch to its block, however the nodes in
\* between were split and in whatever order they were emitted.
PhisNamePredecessors ==
  Emitted => \A b \in DOMAIN blocks : blocks[b].phis # {} => blocks[b].phis = BlockPreds(b)

LoopHeaders == {b \in DOMAIN blocks : blocks[b].merge.kind = "loop"}

RECURSIVE ReachedWithout(_, _)
ReachedWithout(found, avoid) ==
  LET next == found \cup (UNION {Succs(b) : b \in found} \ avoid)
  IN  IF next = found THEN found ELSE ReachedWithout(next, avoid)
ReachedBlocks == ReachedWithout({1}, {})
BlockDominates(a, b) == a = b \/ a = 1 \/ b \notin ReachedWithout({1}, {a})

\* From the block of a node, through the blocks that were added for it.
Leaves(n) == UNION {Succs(b) : b \in ReachedWithout({n}, Nodes)} \cap Nodes

\* The rules of structured control flow for the emitted blocks.  A block that chooses
\* between blocks has a merge, unless it leaves or continues a loop.  The block that
\* branches back to a header is dominated by the continue block, and a header that is
\* its own continue block is the whole loop (emit_loop_header and its replacement).  The
\* blocks of a node lead to the targets of the node and nowhere else.
BlocksStructured ==
  Emitted =>
    /\ \A n \in Nodes \cap ReachedBlocks :
         Leaves(n) = IF ToSet(function.ops[n]) \cap Terminating # {} THEN {} ELSE Targets(n)
    /\ \A b \in ReachedBlocks : blocks[b].term # "none"
    /\ \A b \in ReachedBlocks :
         (blocks[b].term \in {"condition", "switch"} /\ Cardinality(Succs(b)) > 1 /\ blocks[b].merge.kind = "none")
           => \E h \in LoopHeaders : Succs(b) \cap {blocks[h].merge.merge, blocks[h].merge.continue} # {}
    /\ \A h \in LoopHeaders \cap ReachedBlocks :
         LET m == blocks[h].merge
             back == {p \in BlockPreds(h) \cap ReachedBlocks : BlockDominates(h, p)}
         IN  /\ Cardinality(back) <= 1
             /\ \A p \in back : BlockDominates(m.continue, p)
             /\ m.continue = h => back = {h}
             /\ Succs(h) \subseteq {m.merge, m.continue} \/ Cardinality(Succs(h)) = 1
                  \/ Succs(h) \cap {m.merge, m.continue} # {}

\* Every call of the AssumeTrue helper passes as many arguments as the helper was built
\* with (add_instrumented_instruction).
AssumeCallsFit == \A call \in module.calls : call[1] = call[2]
=============================================================================
