----------------------------- MODULE WorkGraph -----------------------------
(***************************************************************************)
(* The dispatcher that is emitted around the entry point of a work graph   *)
(* node (emit_workgraph_dispatcher, opcodes/dxil/dxil_workgraph.cpp).  The *)
(* driver launches workgroups; the dispatcher finds out which input        *)
(* record, and which workgroup of the record's grid, the launched one      *)
(* stands for, resolves the payload pointer and calls the node.  A         *)
(* broadcasting node may be amplified: the workgroups of one (x, y) column *)
(* share the grid of a record, striding through it by the size of z.       *)
(*                                                                         *)
(* A unit is a launched workgroup, or an invocation of a node with thread  *)
(* launch.  Units run concurrently; a step is the prologue or one          *)
(* iteration of the amplification loop.                                    *)
(***************************************************************************)
EXTENDS Integers, FiniteSets

CONSTANTS
  RowLength,      \* workgroups in a row of a dispatch (32 * 1024)
  ThreadGroup,    \* ThreadGroupSize of a node with thread launch
  CoalesceStride, \* the coalescing factor of a coalescing node
  MaxRecords,     \* bound: input records of a launch
  MaxGrid,        \* bound: workgroups in one dimension
  MaxDepth,       \* bound: workgroups launched in z
  WordBits        \* bits of a 32-bit word

\* What is shifted out by n bits.
Pow2[n \in Nat] == IF n = 0 THEN 1 ELSE 2 * Pow2[n - 1]

\* Records and the workgroups of a grid are counted in words.
ASSUME WorkGraphAssumption ==
  /\ {RowLength, ThreadGroup, CoalesceStride, MaxRecords, MaxGrid, MaxDepth} \subseteq Nat \ {0}
  /\ WordBits \in Nat
  /\ MaxGrid * MaxGrid * MaxGrid < Pow2[WordBits] /\ MaxRecords < Pow2[WordBits]

VARIABLES
  job,    \* what is launched
  unit,   \* state of every launched unit
  ran     \* the calls of the node so far: who made it, for what

gvars == <<job, unit, ran>>

WordRange == Pow2[WordBits]
Sub(a, b) == (a - b + WordRange) % WordRange

----------------------------------------------------------------------------
(* The driver: an input range [first, end) of records, cut into a dispatch *)
(* of whole rows and one of the remaining workgroups.                      *)

Stride(launch) == CASE launch = "thread" -> ThreadGroup
                    [] launch = "coalescing" -> CoalesceStride
                    [] launch = "broadcasting" -> 1
End == job.first + job.records
Workgroups == (job.records + Stride(job.launch) - 1) \div Stride(job.launch)

\* Launched workgroups [offset: what NodeLinearOffsetBDA holds, x, y, z].
Rows ==
  {[offset |-> job.first, x |-> x, y |-> y, z |-> z] :
     x \in 0 .. RowLength - 1, y \in 0 .. (Workgroups \div RowLength) - 1, z \in 0 .. job.depth - 1}
Rest ==
  {[offset |-> job.first + (Workgroups \div RowLength) * RowLength * Stride(job.launch),
    x |-> x, y |-> 0, z |-> z] :
     x \in 0 .. (Workgroups % RowLength) - 1, z \in 0 .. job.depth - 1}
\* A static payload: the dispatch is the grid of one record.
Static ==
  {[offset |-> job.first + r, x |-> x, y |-> y, z |-> z] :
     r \in 0 .. job.records - 1, x \in 0 .. job.grid[1] - 1,
     y \in 0 .. job.grid[2] - 1, z \in 0 .. job.grid[3] - 1}

Launched ==
  LET groups == IF job.static THEN Static ELSE Rows \cup Rest
      locals == IF job.launch = "thread" THEN 0 .. ThreadGroup - 1 ELSE {0}
  IN  groups \X locals

\* Where the payload of a record is: entry points read an array, other nodes
\* an array of offsets.
Address(r) == IF job.entry THEN <<job.base, r * job.stride>> ELSE <<job.base, "offset", r>>

----------------------------------------------------------------------------
(* emit_linear_node_index.                                                 *)

LinearIndex(u) ==
  LET g == u[1]
      wg == g.y * RowLength + g.x
      id == CASE job.launch = "thread" -> wg * ThreadGroup + u[2]
              [] job.launch = "coalescing" -> wg * CoalesceStride
              [] job.launch = "broadcasting" -> wg
  IN  IF job.launch = "broadcasting" /\ job.static THEN g.offset ELSE id + g.offset

\* The payload base: a push constant, or what it points to when the payload
\* description of an entry point was written by the GPU.
Pushed == IF job.entry /\ job.indirect THEN "pointer" ELSE job.base
Base == IF job.entry /\ Pushed = "pointer" THEN job.base ELSE Pushed

\* emit_payload_pointer_resolve, build_node_coalesce_payload_offset.
Resolve(index) ==
  IF job.entry THEN <<Base, index * job.stride>> ELSE <<Base, "offset", index>>

\* emit_payload_pointer_resolve for coalescing: how many records are left.
CoalesceCount(index) ==
  IF Sub(End, index) < CoalesceStride THEN Sub(End, index) ELSE CoalesceStride

----------------------------------------------------------------------------
(* The amplification loop of emit_workgraph_dispatcher_path_broadcast_     *)
(* amplified.                                                              *)

\* The grid comes out of the payload, and fewer than three dimensions of it.
InPayload == job.maxgrid /\ job.dims > 0

\* emit_dispatch_bit_count: FindUMsb(size - 1) + 1.
BitCount(size) ==
  LET m == Sub(size, 1)
  IN  IF m = 0 THEN 0 ELSE 1 + CHOOSE n \in 0 .. WordBits - 1 : Pow2[n] <= m /\ m < Pow2[n + 1]

Size(i) == IF i <= job.dims THEN job.grid[i] ELSE 1
BitOffset(i) == CASE i = 1 -> 0
                  [] i = 2 -> BitCount(Size(1))
                  [] i = 3 -> BitCount(Size(1)) + BitCount(Size(2))

\* upper_dimension_size_id.
LastOfUpper == Sub(job.grid[job.dims], 1)
UpperDimension == job.grid[job.dims]

\* How many iterations the column makes: zero if a dimension is empty.
Rate ==
  IF InPayload
  THEN IF \E i \in 1 .. job.dims : Sub(job.grid[i], 1) >= WordRange \div 2 THEN 0
       ELSE (UpperDimension * Pow2[BitOffset(job.dims)]) % WordRange
  ELSE job.grid[1] * job.grid[2] * job.grid[3]

\* The workgroup an iteration stands for.
WorkgroupId(amp) ==
  IF InPayload
  THEN [i \in 1 .. 3 |-> IF i > job.dims THEN 0
                         ELSE (amp \div Pow2[BitOffset(i)]) % Pow2[BitCount(Size(i))]]
  ELSE <<amp % job.grid[1], (amp \div job.grid[1]) % job.grid[2],
         (amp \div job.grid[1]) \div job.grid[2]>>

\* Iterations that fall outside the grid call nothing.
InGrid(wg) == InPayload => \A i \in 1 .. 3 : wg[i] <= Sub(Size(i), 1)

NextByOne(amp) == amp + 1
NextIteration(amp) == amp + job.depth

----------------------------------------------------------------------------
Called(u, records, wg, amp) ==
  ran' = ran \cup {[by |-> <<u, amp>>, records |-> records, wg |-> wg]}

NoGrid == <<0, 0, 0>>

\* The thread path: execution is masked by the end of the records.
EnterThread(u) ==
  /\ job.launch = "thread" /\ unit[u].pc = "enter"
  /\ \E index \in {LinearIndex(u)} :
       IF index < End THEN Called(u, <<Resolve(index)>>, NoGrid, 0) ELSE UNCHANGED ran
  /\ unit' = [unit EXCEPT ![u].pc = "done"]
  /\ UNCHANGED job

EnterCoalescing(u) ==
  /\ job.launch = "coalescing" /\ unit[u].pc = "enter"
  /\ \E index \in {LinearIndex(u)} :
       Called(u, [k \in 1 .. CoalesceCount(index) |-> Resolve(index + k - 1)], NoGrid, 0)
  /\ unit' = [unit EXCEPT ![u].pc = "done"]
  /\ UNCHANGED job

EnterStatic(u) ==
  /\ job.launch = "broadcasting" /\ job.static /\ unit[u].pc = "enter"
  /\ Called(u, <<Resolve(LinearIndex(u))>>, <<u[1].x, u[1].y, u[1].z>>, 0)
  /\ unit' = [unit EXCEPT ![u].pc = "done"]
  /\ UNCHANGED job

EnterAmplified(u) ==
  /\ job.launch = "broadcasting" /\ ~job.static /\ unit[u].pc = "enter"
  /\ unit' = [unit EXCEPT ![u] = [pc |-> "loop", amp |-> u[1].z]]
  /\ UNCHANGED <<job, ran>>

Amplify(u) ==
  /\ unit[u].pc = "loop" /\ unit[u].amp < Rate
  /\ \E wg \in {WorkgroupId(unit[u].amp)} :
       IF InGrid(wg) THEN Called(u, <<Resolve(LinearIndex(u))>>, wg, unit[u].amp)
       ELSE UNCHANGED ran
  /\ unit' = [unit EXCEPT ![u].amp = NextIteration(@)]
  /\ UNCHANGED job

LeaveLoop(u) ==
  /\ unit[u].pc = "loop" /\ unit[u].amp >= Rate
  /\ unit' = [unit EXCEPT ![u].pc = "done"]
  /\ UNCHANGED <<job, ran>>

----------------------------------------------------------------------------
Jobs(launches, entries, indirects, statics, maxgrids, dims, grids, records, depths) ==
  [launch : launches, entry : entries, indirect : indirects, static : statics,
   maxgrid : maxgrids, dims : dims, grid : grids, records : records, depth : depths,
   first : {0, 1}, base : {"payloads"}, stride : {4}]

Grids == [1 .. 3 -> 0 .. MaxGrid]
FullGrids == [1 .. 3 -> 1 .. MaxGrid]
OneGrid == {[i \in 1 .. 3 |-> 1]}

\* What a driver may launch.  A static payload implies a fixed grid.
LaunchedJobs ==
  Jobs({"thread", "coalescing"}, BOOLEAN, BOOLEAN, {FALSE}, {FALSE}, {0}, OneGrid, 0 .. MaxRecords, {1})
    \cup Jobs({"broadcasting"}, BOOLEAN, {FALSE}, {TRUE}, {FALSE}, {0},
              {[i \in 1 .. 3 |-> IF i = 1 THEN 2 ELSE 1]}, {1, 2}, {1})
    \cup Jobs({"broadcasting"}, BOOLEAN, {FALSE}, {FALSE}, BOOLEAN, 0 .. 3, OneGrid, 0 .. MaxRecords, {1})
    \cup Jobs({"broadcasting"}, {TRUE}, {FALSE}, {FALSE}, {TRUE}, 1 .. 3, Grids, {1}, 1 .. MaxDepth)
    \cup Jobs({"broadcasting"}, {TRUE}, {FALSE}, {FALSE}, BOOLEAN, {0}, FullGrids, {1}, 1 .. MaxDepth)

WGInit ==
  /\ job \in LaunchedJobs
  /\ unit = [u \in Launched |-> [pc |-> "enter", amp |-> 0]]
  /\ ran = {}

Step(u) == EnterThread(u) \/ EnterCoalescing(u) \/ EnterStatic(u) \/ EnterAmplified(u)
             \/ Amplify(u) \/ LeaveLoop(u)

WGNext == \E u \in DOMAIN unit : Step(u)

\* Launched workgroups are executed.
WGSpec == WGInit /\ [][WGNext]_gvars /\ WF_gvars(WGNext)

----------------------------------------------------------------------------
(* What the graph asked for: the calls <<records, workgroup>>.             *)

Records == job.first .. End - 1

GridOf ==
  LET n == IF InPayload THEN [i \in 1 .. 3 |-> Size(i)] ELSE job.grid
  IN  {<<x, y, z>> : x \in 0 .. n[1] - 1, y \in 0 .. n[2] - 1, z \in 0 .. n[3] - 1}

\* The windows a coalescing node gets its records in.
Windows ==
  {[k \in 1 .. (IF End - r < CoalesceStride THEN End - r ELSE CoalesceStride) |-> Address(r + k - 1)] :
     r \in {s \in Records : (s - job.first) % CoalesceStride = 0}}

Asked ==
  CASE job.launch = "thread" -> {<<Address(r)>> : r \in Records} \X {NoGrid}
    [] job.launch = "coalescing" -> Windows \X {NoGrid}
    [] job.launch = "broadcasting" -> {<<Address(r)>> : r \in Records} \X GridOf

\* No record is processed twice and no workgroup that is not in its grid ever
\* runs, however the launch is cut into rows and whichever workgroups of a
\* column stride through the grid: the calls are among those asked for, and
\* no two units make the same one.
NothingRunsTwice ==
  /\ \A c \in ran : <<c.records, c.wg>> \in Asked
  /\ \A c, d \in ran : c.records = d.records /\ c.wg = d.wg => c = d

\* All units have left the dispatcher, and all calls were made.
AllRan ==
  /\ \A u \in DOMAIN unit : unit[u].pc = "done"
  /\ {<<c.records, c.wg>> : c \in ran} = Asked

\* Every record is processed for every workgroup of its grid, an empty grid
\* for none: the dispatcher comes to an end with all calls made.
EverythingRuns == <>[]AllRan
=============================================================================
