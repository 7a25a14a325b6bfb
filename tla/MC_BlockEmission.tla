-------------------------- MODULE MC_BlockEmission --------------------------
(* Structured functions of up to seven nodes, in the order traverse emits   *)
(* them.  Up to two nodes hold operations.      *)
EXTENDS BlockEmission

CONSTANT Lists

MCNode(term, succ, merge, mb, cb) ==
  [term |-> term, succ |-> succ, merge |-> merge, mb |-> mb, cb |-> cb]
Br(t) == MCNode("branch", <<t>>, "none", 0, 0)
Ret == MCNode("return", << >>, "none", 0, 0)
Sel(a, b, m) == MCNode("condition", <<a, b>>, "selection", m, 0)
Loop(succ, m, c) == MCNode(IF Len(succ) = 1 THEN "branch" ELSE "condition", succ, "loop", m, c)
Cond(a, b) == MCNode("condition", <<a, b>>, "none", 0, 0)

MCFunctions == {
  \* A selection, one that never merges and a switch.
  <<Sel(2, 3, 4), Br(4), Br(4), Ret>>,
  <<Sel(2, 3, 0), MCNode("unreachable", << >>, "none", 0, 0), Ret>>,
  <<MCNode("switch", <<4, 2, 3>>, "selection", 4, 0), Br(3), Br(4), Ret>>,
  \* Loops: of one block, tested first, tested last.
  <<Br(2), Loop(<<2, 3>>, 3, 2), Ret>>,
  <<Br(2), Loop(<<3, 5>>, 5, 4), Br(4), Br(2), Ret>>,
  <<Br(2), Loop(<<3>>, 6, 5), Cond(4, 6), Br(5), Cond(2, 6), Ret>>,
  \* A header that chooses between two bodies.
  <<Br(2), Loop(<<3, 4>>, 6, 5), Br(6), Br(5), Br(2), Ret>>,
  \* Loops without a continue block and without a merge block.
  <<Br(2), Loop(<<3, 4>>, 5, 0), Br(5), Br(5), Ret>>,
  <<Br(2), Loop(<<3>>, 5, 0), Cond(4, 5), Br(5), Ret>>,
  <<Br(2), Loop(<<3>>, 0, 3), Br(2)>>,
  \* A loop in a loop; the inner one ends in the outer continue block.
  <<Br(2), Loop(<<3, 7>>, 7, 6), Loop(<<4, 5>>, 5, 4), Br(3), Br(6), Br(2), Ret>>}

Ends(node) == node.term \in {"return", "unreachable"}
Allowed(f, n) == {l \in Lists : ToSet(l) \cap Terminating # {} => Ends(f[n])}
MCOpLists == [f \in Functions |->
  UNION {{[n \in 1 .. Len(f) |-> IF n = a THEN la ELSE IF n = b THEN lb ELSE << >>] :
            la \in Allowed(f, a), lb \in Allowed(f, b)} : a, b \in 1 .. Len(f)}]

MCLists == {<<"masked_load">>, <<"plain", "return_cond">>, <<"assume_code", "masked_store", "masked_load">>,
            <<"emit_mesh_tasks", "plain">>, <<"assume_code">>}
\* emit_set_mesh_output_counts_instruction adds the first code to the comparison.
MeshLists == {<<"assume", "assume_code">>}
=============================================================================
