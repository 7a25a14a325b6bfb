-------------------------- MODULE InterlockRegion ---------------------------
(***************************************************************************)
(* Rasterizer-ordered views: CFGStructurizer::rewrite_rov_lock_region and  *)
(* its caller build_rov_main.  The converter emits a begin and an end of   *)
(* the invocation interlock around every single access; SPIR-V allows one  *)
(* pair per invocation.  The pass widens the pairs to one region, or gives *)
(* up, and then the whole function is called inside of a pair.             *)
(*                                                                         *)
(* It works on a structurizer of its own, on which nothing but             *)
(* recompute_cfg has run: the back edges were not merged.                  *)
(***************************************************************************)
EXTENDS LoopAnalysis

VARIABLES
  rov_blocks,   \* the blocks that access a rasterizer-ordered view
  operations,   \* per block: its accesses and the locks around them
  rewritten     \* "no", "trivial", or "wrapped" in a function that locks

lockVars == <<rov_blocks, operations, rewritten>>
ilVars == <<vars, lockVars>>

\* Converter::Impl::add, for each of the two accesses of a block.
AddedOperations == <<"begin", "access", "end", "begin", "access", "end">>

-----------------------------------------------------------------------------
(* The region: a block idom in which it begins, a block pdom in which it   *)
(* ends, or Null.                                                          *)

\* A block's closest dominator that post-dominates the entry block.
StretchToEntry(n) ==
  LET Up[m \in Nodes] ==
        IF m = entry_block \/ PostDominates(m, entry_block) THEN m ELSE Up[idom[m]]
  IN  Up[n]

\* The outermost loop around n; the entry block if there is none.
OutermostLoopHeader(n) ==
  LET Out[h \in Nodes] ==
        LET around == InnermostLoopHeader(entry_block, idom[h])
        IN  IF h = entry_block \/ around = entry_block THEN h ELSE Out[around]
  IN  Out[InnermostLoopHeader(entry_block, n)]

\* Mutant: that the region is left once is not looked at.
EntryOnly(begin, end) == DominatesAllReachableExits(begin)

\* execution_path_is_single_entry_and_dominates_exit.
SingleEntryDominatesExit(begin, end) ==
  LET pdom == CommonPostDominator(end, begin)
      Path[n \in Nodes] == n = begin \/ (pred_back_edge[n] = Null /\ Path[idom[n]])
  IN  /\ DominatesAllReachableExits(begin)
      /\ pdom \notin {Null, exit_block}
      /\ pred_back_edge[begin] = Null
      /\ Dominates(begin, pdom)
      /\ Path[pdom]

\* The merge block of a loop that analyze_loop_merge is sure of: where all exits
\* come together, and the dominated ones do, is the same block.  Where the
\* header does not dominate the first the second is another one or none.
CleanMerge(header, exits) ==
  LET latch     == pred_back_edge[header]
      merge     == CommonPostDominatorOf(exits.inner_dominated \cup exits.dominated
                                           \cup exits.non_dominated)
      dominated == IF Len(succ[latch]) = 1 /\ succ[latch][1] \in exits.dominated
                     THEN succ[latch][1] ELSE CommonPostDominatorOf(exits.dominated)
  IN  IF /\ merge # Null /\ merge = dominated
         /\ Dominates(header, merge)
         /\ exits.continue = {}
        THEN merge ELSE Null

Region(begin, end) == [begin |-> begin, end |-> end]
NoRegion == Region(Null, Null)

\* The region from before a loop to its merge block.
RegionAroundLoop(header, merge) ==
  IF merge # Null /\ Len(pred[header]) = 1 /\ IsBranch(pred[header][1])
    THEN Region(pred[header][1], merge) ELSE NoRegion

\* find_single_entry_exit_lock_region; header is that of the outermost loop
\* around the beginning.
SingleEntryExitRegion(blocks, begin, end, header) ==
  LET contains == \A r \in blocks :
                    Dominates(header, r) /\ Reaches(r, pred_back_edge[header])
  IN  IF header = entry_block THEN Region(begin, end)
      ELSE IF contains THEN RegionAroundLoop(header, CleanMerge(header, AnalyzeLoop(header)))
      ELSE IF SingleEntryDominatesExit(begin, end) THEN Region(begin, end)
      ELSE NoRegion

\* The region, up to a block that post-dominates all of it.
ClosedRegion(region) ==
  LET pdom == CommonPostDominator(region.end, region.begin)
  IN  IF \/ region = NoRegion
         \/ ~ Dominates(region.begin, region.end)
         \/ pdom \in {Null, exit_block}
        THEN NoRegion ELSE Region(region.begin, pdom)

RegionFrom(blocks, begin, end) ==
  IF end = Null THEN NoRegion
  ELSE ClosedRegion(SingleEntryExitRegion(blocks, begin, end, OutermostLoopHeader(begin)))

\* The region rewrite_rov_lock_region settles on.
LockRegion(blocks) ==
  RegionFrom(blocks, StretchToEntry(FoldPairs(CommonDominator, ByFallingOrder(blocks))),
             CommonPostDominatorOf(blocks))

-----------------------------------------------------------------------------
(* The operations.                                                         *)

\* scrub_rov_begin_lock and scrub_rov_end_lock: the first begin and the last end
\* may stay.
ScrubLocks(ops, keepBegin, keepEnd) ==
  LET Last(i) == \A j \in i + 1 .. Len(ops) : ops[j] # "end"
      First(i) == \A j \in 1 .. i - 1 : ops[j] # "begin"
      kept == {i \in DOMAIN ops : CASE ops[i] = "begin" -> keepBegin /\ First(i)
                                    [] ops[i] = "end" -> keepEnd /\ Last(i)
                                    [] OTHER -> TRUE}
      Filter[i \in 0 .. Len(ops)] ==
        IF i = 0 THEN << >>
        ELSE IF i \in kept THEN Append(Filter[i - 1], ops[i]) ELSE Filter[i - 1]
  IN  Filter[Len(ops)]

\* What becomes of the operations of block n.
RewrittenOperations(ops, n, blocks, region) ==
  LET scrubbed == ScrubLocks(ops, n = region.begin, n = region.end)
      ended    == IF n = region.end /\ n \notin blocks
                    THEN <<"end">> \o scrubbed ELSE scrubbed
  IN  IF n = region.begin /\ n \notin blocks THEN Append(ended, "begin") ELSE ended

\* rewrite_rov_lock_region after its recompute_cfg, and what build_rov_main does
\* about the result.  Which blocks have accesses is decided here.
RewriteRovLockRegion ==
  /\ stage = "done"
  /\ rewritten = "no"
  /\ \E blocks \in SUBSET visited :
       \E region \in {IF blocks = {} THEN NoRegion ELSE LockRegion(blocks)} :
         /\ rov_blocks' = blocks
         /\ operations' = [n \in Nodes |->
                             RewrittenOperations(IF n \in blocks THEN AddedOperations ELSE << >>,
                                                 n, blocks, region)]
         /\ rewritten' = IF blocks # {} /\ region = NoRegion THEN "wrapped" ELSE "trivial"
  /\ UNCHANGED vars

-----------------------------------------------------------------------------

\* A new structurizer on the converted function: recompute_cfg is called on it
\* as it is.
ILInit ==
  /\ FunctionInit
  /\ stack = << >>
  /\ visited = {}
  /\ AnalysisInit
  /\ rov_blocks = {}
  /\ operations = [n \in Blocks |-> << >>]
  /\ rewritten = "no"

ILNext ==
  \/ RCNext /\ rewritten = "no" /\ UNCHANGED lockVars
  \/ RewriteRovLockRegion

ILSpec == ILInit /\ [][ILNext]_ilVars

-----------------------------------------------------------------------------
(* Executions of the rewritten function.                                   *)

\* The lock after one operation, and "fault" if the operation is not allowed:
\* an access outside of the region, or a second begin or end.
LockAfter(lock, op) ==
  CASE op = "begin" /\ lock = "outside" -> "inside"
    [] op = "access" /\ lock = "inside" -> "inside"
    [] op = "end" /\ lock = "inside" -> "left"
    [] OTHER -> "fault"

LockAfterBlock(lock, n) ==
  LET ops == operations[n]
      After[i \in 0 .. Len(ops)] == IF i = 0 THEN lock ELSE LockAfter(After[i - 1], ops[i])
  IN  After[Len(ops)]

Locks == {"outside", "inside", "left", "fault"}

\* Every lock state some execution leaves some block in.
Executions ==
  LET start   == IF rewritten = "wrapped" THEN "inside" ELSE "outside"
      after   == [lock \in Locks |-> [n \in Nodes |-> LockAfterBlock(lock, n)]]
      Run[S \in SUBSET (Nodes \X Locks)] ==
        LET next == S \cup UNION {{<<e[2], after[x[2]][e[2]]>> : e \in {e \in origin : e[1] = x[1]}} : x \in S}
        IN  IF next = S THEN S ELSE Run[next]
  IN  Run[{<<entry_block, after[start][entry_block]>>}]

\* What recompute_cfg leaves for the pass to read is right: every block of a loop
\* with an exit is reached backwards, post-dominators exist and are those of the
\* graph with the fake branches, and so are the post-dominance frontiers.  The
\* pass changes none of it.
LockAnalysesCorrect == rewritten = "no" => BackwardAnalysesCorrect

\* "Rules: OpBegin and OpEnd must be dynamically called exactly once"
\* (rewrite_rov_lock_region): in every execution each access is inside of the
\* region, which is entered and left once, before the function returns.
LockedExactlyOnce ==
  rewritten # "no" =>
    \A <<n, lock>> \in Executions :
      /\ lock # "fault"
      /\ (\A m \in Blocks : <<n, m>> \notin origin) =>
           CASE rewritten = "wrapped" -> lock = "inside"
             [] rewritten = "trivial" /\ rov_blocks # {} -> lock = "left"
             [] OTHER -> TRUE

\* The end of the region is in a loop that the beginning is not in: accesses
\* before a loop make the pass overlook the loop.
EndsInsideLoop ==
  \E h \in visited, n, m \in visited :
    /\ pred_back_edge[h] # Null
    /\ "begin" \in Elements(operations[n]) /\ n \notin LoopBlocks(h)
    /\ "end" \in Elements(operations[m]) /\ m \in LoopBlocks(h)

\* With that exception the rule is kept in every reducible function.
LockedOnceOutsideLoops ==
  ~ LockedExactlyOnce => EndsInsideLoop \/ ~ Reducible

=============================================================================
