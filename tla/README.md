# A TLA+ model of dxil-spirv

dxil-spirv translates DXIL (and, through a library, DXBC) shaders to SPIR-V. The
compiler is sequential C++; a host such as vkd3d-proton calls it from many
threads, one translation per thread. Four kinds of behaviour are hard to get right
and hard to test:

* the **code it emits** runs on a GPU in many invocations at once: the
  instrumentation (descriptor checks, NaN/Inf and assertion reports, a race
  detector), the dispatcher and the record allocator of work graphs and the wave
  operations are small concurrent programs;
* the **control-flow structurizer** rewrites arbitrary graphs of blocks, and every
  decision rests on analyses that are repeated after every rewrite;
* the **readers** take counts, offsets, sizes and forward references from a file;
* the **converter** makes two passes over a shader, an analysis that decides what
  to declare and an emission that must agree with it, and follows protocols that a
  shader speaks with a driver in ordinary instructions.

This project models those parts in TLA+, checks them with TLC on small instances
and proves the central results with TLAPS.

## Inventory

| component | source | state | what is hard | correctness |
|---|---|---|---|---|
| Descriptor QA (emitted) | `descriptor_qa.cpp` | report buffer with a fault counter, heap of descriptor entries, table of live cookies | two calls fault at once; the host acts between two loads; the order of visible stores; a counter that wraps | one complete, immutable report; what passes is valid |
| NaN/Inf and assertion instrumentation (emitted) | `spirv_module_instrumentation.cpp` 690–1046 | control words with a claim and a publish bit per slot, payloads | slots collide; a store and its publication may be reordered; aborts | a published payload is complete; one writer per slot; no report is lost |
| Buffer synchronization validation (emitted) | `spirv_module_instrumentation.cpp` 200–690 | bloom filter of marks and locks, invocation counter | many relaxed atomics per call interleave | no made-up report, no missed race |
| Wave and quad operations (emitted) | `dxil_waveops.cpp`, helpers in `spirv_module.cpp` | lanes of a subgroup | helper lanes take part in SPIR-V and not in DXIL; loops that lanes leave one by one | the result DXIL defines; loops end |
| Work graphs (emitted) | `dxil_workgraph.cpp`, helpers in `spirv_module.cpp` | counters and lists in memory, shared words, barriers | separate atomics of many groups; coordinates decoded from a launch; early returns before barriers | every workgroup of every grid once; disjoint records; everyone returns |
| CFG traversal | `cfg_structurizer.cpp` | edges, back edges, post-order | runs again and again on its own output | forward branches are acyclic, nothing is lost |
| CFG analyses | `cfg_structurizer.cpp`, `node.cpp` | immediate (post-)dominators, reachability, fake edges, frontiers | a chain of passes, each relying on the order of the one before | each result is what its name says |
| Interlock regions | `cfg_structurizer.cpp` 481–614, 861–936 | begin and end per access | one pair per invocation on every path | locked once, around every access |
| Block emission | `spirv_module.cpp` | blocks, PHIs, helper cache | blocks split while others already name them | PHIs name predecessors; calls fit helpers |
| Container parser, memory stream | `dxil_parser.cpp`, `memory_stream.cpp` | a cursor into a blob | size arithmetic of fields of the blob | reads stay in the blob; the parser ends |
| LLVM bitcode reader | `bc/module.cpp` | table of values, proxies | values named before they exist; tables cut back after a body | the module read is the one written |
| Thread allocator | `util/thread_local_allocator.*` | chain of blocks, huge allocations | malloc fails in the middle; reuse after reset | objects disjoint and in memory; nothing leaks |
| Raw and structured buffers | `dxil_buffer.cpp`, `dxil_common.cpp` | tracked accesses, declared arrays | byte offsets taken apart; two passes | the byte that was named |
| AGS and NVAPI packets | `dxil_ags.cpp`, `dxil_nvapi.cpp` | a packet that is reassembled in each pass | packets without separators, late fake calls | each intrinsic once, with its operands |
| Integers, floats | `opcodes_llvm_builtins.cpp`, `dxil_arithmetic.cpp`, `spirv_module.cpp` | – | odd widths, denormals, FP8 | the value DXIL defines |
| Ray tracing variables | `dxil_ray_tracing.cpp` | storage class per alloca, variable per hit object | one alloca in several classes; phis of opaque values | contents and identity are kept |
| Resource binding | `dxil_converter.cpp`, `dxil_resources.cpp` | reference per range, variables | register arithmetic modulo 2^32, six places a range may live | the bound descriptor |
| Stages, view instancing | `dxil_converter.cpp`, `dxil_tessellation.cpp`, `dxil_geometry.cpp`, `dxil_mesh.cpp` | variables, locations, patch offset | shaders converted one by one must fit; hull phases | the next stage reads what was written; a view gets its primitives once |
| Structurizer passes, phi insertion, barriers, sampling, DXBC, IR classes, C API, tools, logging, vendored code | – | – | see *What is not modelled* | – |

The readers build IR, the converter turns it into blocks of SPIR-V operations, the
structurizer rewrites their graph, the SPIR-V module emits them. All allocate
through the thread allocator. `PROJECT.json` lists every component with its status,
and under `hazards` each place where something can go wrong that a test would hardly
reach, with the properties that would catch it.

## Modules

| module | models | composes |
|---|---|---|
| `FaultSlots` | abstract specification: a store of write-once report slots | – |
| `DescriptorQA` | the two emitted functions of descriptor QA and the host | refines `FaultSlots` |
| `InstrumentationReport` | `AssumeTrue`, `NanInfInstrumentation`, `emit_instrumentation_hash` | refines `FaultSlots` |
| `BDAValidate` | the race detector on buffer addresses | – |
| `ThreadAllocator` | the allocator behind containers and pools | – |
| `MemoryStream`, `ContainerParser` | a cursor with bounds checks; `parse_container` | the parser extends the stream |
| `BitcodeModule` | `ModuleParseContext` next to the writer of the module | – |
| `CFGVisit` | back-edge merging and the forward traversal | – |
| `RecomputeCFG` | the whole of `recompute_cfg` | extends `CFGVisit` |
| `LoopAnalysis`, `InterlockRegion` | exits and merges of loops; `rewrite_rov_lock_region` and its caller | extend `RecomputeCFG` |
| `BlockEmission` | `register_block`, `emit_basic_block`, helper cache | – |
| `WaveOps` | wave and quad opcodes and their helpers | – |
| `WorkGraph`, `NodeRecords` | the dispatcher of a node; allocation of output records | – |
| `BufferAccess` | analysis, declaration and access of raw and structured buffers | – |
| `AGSPackets`, `NVAPIPackets` | the two driver protocols | – |
| `IntegerOps`, `FloatConversions` | integers of odd widths; emulated halves and FP8 | – |
| `RayPayloads`, `RayObjects` | variables handed to other shaders; hit objects and ray queries | – |
| `ResourceBinding` | `emit_resources` and `emit_create_handle` | – |
| `StageIO`, `ViewInstancing` | a pipeline of shaders; views of a draw | – |
| `*_proofs` (eight modules) | theorems, invariants and lemmas | extend their module and `TLAPS` |
| `MC_*` | constants and inputs for TLC | extend what they check |

A run may hold several modules side by side (`MC_ShaderChecks`, `MC_FrontEnd`,
`MC_Device`, `MC_Buffers`, `MC_Opcodes`, `MC_Converter`): the variable `running`
chooses in the initial state which of them a behaviour runs, and the variables of
the others stay idle. An
invariant is an implication from `running`, or a property of its module that holds
in the idle states as well.

Operators marked `Mutant:` are altered versions of the operator below them. They
are used by no specification; put in its place they make a property fail, which
shows that the property depends on that piece of the code.

### Instrumentation: DescriptorQA, InstrumentationReport, BDAValidate

The emitted code is modelled, not the C++ that emits it: each load, atomic, store
and barrier is one action. In `DescriptorQA`, `LoadTimestamp`, `LoadEntry` and
`LoadStatus` read the host's buffers at three different moments, `Check` decides,
`IncrementFaultAtomic` picks the reporter, `StoreField` is one of the plain stores of
the report, in any order, and `StoreFaultType` publishes behind `Barrier`. The host
maps memory, submits, destroys resources and rewrites descriptors at any time; it
never reuses a cookie. `InstrumentationReport` has `Claim`, `StoreComponent` and
`PublishPayload` in the same way; whether assertions abort is chosen in the initial
state. A call of `BDAValidate` marks `NumHashes` cells with atomic ors in any order,
decides whether it owns the bytes, writes its lock into `NumLockHashes` cells and
returns a verdict.

### Readers: ThreadAllocator, ContainerParser, BitcodeModule

`ThreadAllocator` has every operation with and without a context; `malloc` returns
any free chunk or null, and a thread that was given null goes on: a block without memory
stays in the chain. `ContainerParser` reads blobs with one word per field; each
action reads one header, table, part or record. `BitcodeModule` writes a module
while it is read: next to the reader's table of values stands the writer's, numbered
by the rules of the format, and the operands of the IR are compared with the values
the writer meant.

### CFG: CFGVisit, RecomputeCFG, LoopAnalysis, InterlockRegion, BlockEmission

A function is a list of branches per block; the initial state chooses any function
of `Inputs`. The recursive calls of the source are frames of `stack`, so that a
step is one successor of one call. `RecomputeCFG` adds the passes in the order of
`recompute_cfg`. Assertions that fail end the behaviour in a stage of its own ("block
has two back edges", "no post-dominator"). `InterlockRegion` is one action on the
finished analyses; its properties run all executions of the rewritten function.
`BlockEmission` starts from structured functions and splits blocks as
`emit_basic_block` does, node by node.

### Emitted device code: WaveOps, WorkGraph, NodeRecords

`WaveOps` executes one call by one subgroup: the lanes that take part, their inputs
and the options are the initial state, a step is the call or one iteration of its
loop. Quad operations of a workgroup that has no quads (`synthesize_dummy_derivatives`)
return their operand. In `WorkGraph` a unit is a launched workgroup or thread; what the executor
launches is external. In `NodeRecords` waves run in lockstep, one atomic at a time,
and threads of a group run freely between barriers. What the lanes and groups ask for is
a constant, `Scenarios`; the run's are waves against each other, a wave against a group,
and groups that finish the sharing of their input (`DeviceScenarios`).

### Translation: BufferAccess, packets, numbers, ray tracing, binding, stages

A byte offset of `BufferAccess` is op(x · mul, bias) of a value x that is known at run
time only; the properties quantify over x. `AGSPackets` and `NVAPIPackets` generate
the instructions that the vendors' headers in `shaders/ags` and `shaders/nvapi` write,
interleaved with ordinary ones and, for AGS, with matrices that are passed on through
phis and loads, and run the passes over them. `IntegerOps` writes a program instruction by instruction and
keeps, per value, what LLVM says and what the emitted word holds. `FloatConversions`
represents a float by half patterns with two more bits of fraction, so that every
rounding decision of the helpers is visible. `ResourceBinding` compares a handle with
the root signature; two lanes run the code so that a wrongly uniform index shows.
`StageIO` converts the shaders of a pipeline one by one, lets their invocations run
and compares what the next one reads with what the two signatures say.

## What the runs check

| run | instance | result |
|---|---|---|
| `qa_report` | two calls, four fields of the report, one new VA mapping, a counter that does not wrap | a complete and immutable report, refinement of `FaultSlots`, a fault is reported in the end |
| `ir_report` | two invocations with two calls each, colliding instructions, four slots in two control words, two cookies, aborting or not | published payloads are complete, one writer per slot, one slot per invocation, no half report after an abort; refinement of `FaultSlots`; a bad value is published |
| `shader_checks` | one descriptor check against an active host with three cookies in two words; two invocations with two accesses each in two windows that share a cell | what passes is valid; every race report has a cause; a race with a finished access is reported |
| `cv_visit` | every function of four blocks with at most two branches each, traversed twice | forward branches descend; one back edge per header, both ends of an edge agree, branches are preserved, a second traversal finds the same |
| `rc_forward` | every function of four blocks up to names, analysed twice | dominators, reachability and dominance frontiers by their definitions; the analysis ends |
| `interlock` | every connected function of five blocks, every choice of accessing blocks | fake branches reach every loop with an exit, post-dominators and their frontiers by their definitions; the lock is taken once on each execution and around each access, unless the region ends inside a loop |
| `frontend` | two threads on blocks of four bytes; blobs with right and wrong counts, offsets and sizes; modules of two globals and two bodies | objects are disjoint; reads stay inside; names end; the parser ends; modules are read as written |
| `device` | grids up to three in rows of two; two waves and two groups of two threads on two nodes; waves of three lanes, quads in waves of eight | every workgroup once and in the end; disjoint, listed, returned allocations; wave results by definition; waterfalls end |
| `buffers` | addresses of six bits, offsets that are a constant, x · mul, or x · mul with a constant added, taken away or or-ed into clear bits (no `const - x`, no *or* of overlapping operands), six drivers and kinds of buffers; three AGS calls or forwarded matrices among other instructions | the byte that was named in the array that was declared, inside the view; packets as written |
| `opcodes` | words of eight bits with an odd width of five; all 32,768 halves and 16,000 floats; two NVAPI intrinsics; four calls on one alloca; loops of three rounds | values, arguments, payloads and objects as in DXIL |
| `converter` | every class of resource at every place; pipelines of two and three shaders; two views in four stages; functions of up to seven nodes | descriptors as bound; stages link; views placed; blocks structured and PHIs right |
| `mesh_assume` | a mesh shader's two assertions | **violation**: see *Finding* |

### Bounds

* Two calls, invocations, waves or groups are enough for every interleaving of a
  claim with a claim, of a store with a publication, of an allocation with an
  allocation: no action of these protocols refers to more than one other
  participant. For descriptor QA and `NodeRecords` the theorems remove the bound.
* The race detector needs two accesses of an invocation for it to meet its own marks
  and two windows with a common cell for false sharing.
* Four blocks hold a loop with a conditional exit, an irreducible graph, two loops
  with a common header and dead blocks; five hold nested loops with breaks. Two
  traversals are the first, and one on the output of another. The theorems about
  `CFGVisit` and about the forward analyses of `RecomputeCFG` have no bound.
* Three chunks of heap let a context have two blocks, or a block and a huge object, next
  to another context's block; a chain of three blocks (`MaxChain`) can have blocks
  without memory before and behind one with memory. The theorem about `ThreadAllocator`
  has no bound.
* Three lanes are a first, a middle and a last one in a waterfall; a wave of eight
  has two quads. Rows of two with up to five records have a full, a partial and an
  empty row.
* Words of eight bits with a width of five keep what matters of 32 and, say, 24 bits:
  bits above the width, and shift amounts beyond it. Addresses of six bits wrap.
* Two intrinsics follow one another in every order, which is all that state left
  over from the first can disturb; three AGS calls include one that interrupts two, or a
  matrix that is passed on between the call that makes it and the one that needs it.

Deadlock is not checked: emitted functions return, a shader ends, an analysis is
done. That they do not stop early is the business of the liveness properties.

### Fairness

An emitted report is straight-line code that waits for nobody: weak fairness of the
steps of a call (`QASpec`) and of a report that has begun (`IRSpec`), none for the
host. `recompute_cfg` and `parse_container` are sequential C++: weak fairness of
their next step. In `DeviceSpec` a launched workgroup, a wave and each thread of a
group keep executing, which Vulkan's forward progress between barriers grants;
`AllocationsReturn` then says that the barriers and the waterfall let everyone
through. The other specifications state no fairness, as only safety is asked of them.

### What a property does not say

* `FilterSound` asks that a report has another's access to the window and some
  conflicting one, not both in one: an invocation that never got exclusive access can
  be reported because of its *own* earlier mark. Locks are per window, not per byte;
  `EarlierRaceIsReported` excludes an owner of other bytes of the window.
* Dominators, reachability and dominance frontiers are checked, and proved, unless this
  very analysis has added a real branch (`grew`); see *Observations* for what they are
  then. Post-dominance is the one of forward and fake branches.
* `LockedOnceOutsideLoops` excepts a region that begins before a loop and ends inside
  of it, and irreducible functions.
* `ViewsRespected` holds for view offsets that are multiples of the element.
* Limits that are constants of a module are named there: `Saturation`, `Private`,
  `CarriedFresh`, `Concurrent`, `DynamicReads`, `HeapSources`, `ResetsAfterFailure`,
  `Mixing`, `OddOps`, `HwModes`, `Addresses`. What lies
  beyond them is listed under *Observations*.

## Finding

`mesh_assume`: `dxil_mesh.cpp:91` adds the code of the vertex assertion to the
comparison instead of to the `OpAssumeTrueKHR`. The vertex assertion calls the cached
`AssumeTrue` helper without a code and the primitive assertion with one
(`spirv_module.cpp:3443`), so that one of the calls has the wrong number of arguments,
and the comparison has three operands. `descriptor_qa.hpp:53` says that assertions
are resolved internally.

## Observations

Places where the model shows that the code does less than a comment, a name or a
neighbouring function suggests. They are not runs, because the shaders or hosts that
would meet them may not exist. Those with a constant, a definition or a config in
parentheses can be reproduced by it.

*Emitted reports.* After 2^32 faults the counter of descriptor QA reads 0 again and a
second call overwrites a published report (`descriptor_qa.cpp:295`; `AtomicRange = 2`
with three calls). Two calls of the race detector that mark the same cells in opposite
orders both take exclusive ownership (`spirv_module_instrumentation.cpp:526`;
`ExclusiveIsExclusive`).

*Allocator.* When `malloc` fails the chain keeps a block without memory. Allocations step
over it, but after a reset it is allocated from again: the first allocation returns null
although nothing failed, and the next an offset into no memory
(`thread_local_allocator.cpp:119`, 88; `ResetsAfterFailure = TRUE`). Pools and the context
end the program at the first null, containers pass it on.

*CFG.* `backwards_visit` adds a real branch (`cfg_structurizer.cpp:3131`) after the
dominators and the reachability were computed, which keep what held before; the
dominance frontiers, computed after it from those dominators, then miss or keep blocks
until the next `recompute_cfg` (six blocks with branches 2, 3, 2 and 4, 3 and 5, 6, 6,
of which block 4 switches). The theorem about them excludes a run that does this, by
`grew`, and so do the properties. A block that closes two loops fails the assertion of `visit`
(`cfg_structurizer.cpp:3241`; `OneBackEdgePerBlock` with every function of three blocks). A loop that is left only by the
back edge of an outer loop is not reached backwards, although the comment at
`cfg_structurizer.cpp:3068` says every block is (`BackwardsReachesAll`). A lock region
that ends inside of a loop may be entered once and left in every iteration
(`cfg_structurizer.cpp:884`; `LockedExactlyOnce`).

*Reader.* A return of a value that is defined later loses it (`bc/module.cpp:1396`), a
switch on one is rejected (1659), a load ignores a failed insertion (1756), constants
of a function keep the type of the block before (1252, unlike 978), and forward
references of metadata become null (533–543).

*Waves.* `build_wave_active_all_equal_masked` is unused and marked as rotted
(`spirv_module.cpp:838`); `WaveActiveAllEqual` includes helper lanes. Two calls pass
operands of another type than the helper has (`dxil_waveops.cpp:973`, 986;
`CallsFitFunctions`).

*Buffers.* An `or` counts as a sum if scale and bias share no bit, although products
may (`dxil_common.cpp:312`); `const - x` is taken for `x - const` (225–245). The
alignment promised for 64-bit accesses of byte address buffers exceeds the one known
(`AlignmentAsPromised`). A view whose offset is no multiple of the element is divided
with a remainder (`dxil_buffer.cpp:297`; `OffsetDividesCleanly` with `OffsetCases`).
Counters behind an SSBO or a typed buffer are indexed by the reference of their UAV
(`dxil_resources.cpp:1790`).

*Packets.* NVAPI byte addresses are used as element indices in atomics on structured
buffers (`dxil_nvapi.cpp:233`, 354; `Addresses = {0, 4}`). An intrinsic after an
atomic on a texture overwrites the format flags (1452; `Mixing`). The instance ID and
the instance index are exchanged with respect to `opcodes_dxil_builtins.cpp:319` (`Intrinsics`).
`analyze_ags_buffer_load` accepts unknown packets (`dxil_ags.cpp:2680`);
`write_arguments_from_store` ignores failures.

*Numbers.* Division, remainder and shift of odd widths do not extend every operand
(`opcodes_llvm_builtins.cpp:346`; `OddOps <- Operators`). A half, NaN or infinity
beyond the largest FP8 is no NaN after the conversion; conversions of WMMA do not
saturate everywhere (`dxil_ags.cpp:430`, `Saturation = {TRUE, FALSE}`, unlike the
comment "Always saturate" at 1437); denormals of FP8 are rounded twice; elements of a
cooperative matrix are assumed to be even in number. `undef >> b` forwards `b`;
`UAddc` and `USubb` exchange the order of their results; `isnormal` of a min16 float
uses the limit of a 32-bit one.

*Ray tracing.* The temporary of `HitObject::Invoke` is not copied back
(`dxil_ray_tracing.cpp:901`), attributes are used without a copy (1107, 783;
`Private = {}`). A loop that carries a merge of two new hit objects loses one (1183;
`CarriedFresh = TRUE`); a ray query that is read after another began through the same
handle is lost (`opcodes_dxil_builtins.cpp:1532`; `Concurrent = TRUE`). Once queries are
in a global array their handles are numbers, and the two forms of `HitObject::FromRayQuery`
pass the number on where SPIR-V wants the query (`dxil_ray_tracing.cpp:759`, 790, 346;
`HeapSources = TRUE`). A handle that is a phi or a select and is read but never traced
does not make the queries an array (`opcodes_dxil_builtins.cpp:1529`;
`DynamicReads = TRUE`), while one query of `AllocateRayQuery2` always does (1547).

*Binding and stages.* An acceleration structure in a heap behind a shader record is
addressed per wave (`dxil_resources.cpp:1311`; `RecordHeaps`). Counters in a local
table are recorded as raw buffers whatever they are (`dxil_converter.cpp:2110`, unlike
2229). `require_arrayed_root_constants` asks for an unbounded range and `emit_cbvs` for
the declared one; the end of a range may wrap in `find_binding_meta_index`. A shader
that reads `ClipDistance1` only (5724), a repeated tessellation factor (4675), swizzles
of narrow targets (`dxil_resources.cpp:462`) and dual-source blending outside of
fragment shaders (4896) are treated as if they did not occur.

## What is proved

`ShaderChecks_proofs` is about two modules. For `DescriptorQA` it holds for any sets of
calls, descriptors, cookies, types and fields, and any host activity:

* `QATypeCorrect`: `QASpec => []QATypeOK`.
* `QAReportConsistent`, `QAReportImmutable`, `QAImplementsFaultSlot`: if the
  finitely many calls are no more than the counter has values (`NoWrap`), a
  published report is complete, never changes, and the protocol refines
  `FaultSlots`. The first observation above shows that the hypothesis is needed.
* `QAPassedCallIsValid`: without a hypothesis on the calls.

`ReportConsistent` is not inductive. `CounterInv` adds that the counter is the
number of calls which have incremented it (or has just wrapped), so that only one
can have read 0; `ReporterInv` adds that this one's stores that are no longer
pending are in the report, and that nothing is published before it is past the
barrier. `LookupInv` relates what a call has loaded to what was dead when it began:
the bit of a destroyed resource is never set again, hence a bit seen set belongs to
a resource that was alive at the start.

`InstrumentationReport_proofs` holds for any invocations, instructions, values and
hashes, and control and payload buffers of any length:

* `IRReportsSound`: `IRSpec => []ReportsSound`.
* `IRImplementsFaultSlots`: the protocol refines `FaultSlots`, with one write-once
  slot per slot of the control words.

`ClaimInv` says that the claim bit of a slot is set exactly when one invocation has
seen it clear, and that this one's permission to report is spent; `ReportInv` that
the instruction and value of a report do not change any more from then on;
`PayloadInv` that the slot agrees with them on each component that is no longer
pending. Slots that share a word are why `ClaimInv` speaks of bits.

For `BDAValidate`, `ShaderChecks_proofs` holds for any invocations, accesses, windows,
hashes and filter:

* `BDAEarlierRaceIsReported`: `BDASpec => []EarlierRaceIsReported`, whatever collides.
* `BDAFilterSound`: `FilterSound`, if every window has a cell no other window hashes
  to (`NoFalsePositives`). Without it a bloom filter reports what it has not seen, and
  the theorem would be false. The windows of the run share one of their two cells.

Marks and locks are never taken back, and each has somebody who left it
(`MarksHaveCause`, `LocksHaveCause`). `WorkOK` bounds what an invocation remembers by
the marks of the accesses that had returned before it began and those now in its
cells; this interval, not an equality, survives any interleaving of relaxed atomics.
`AloneOK` says that an invocation alone in its window owns it.

`ThreadAllocator_proofs` holds for any threads, block size, alignment, sizes and heap:

* `TAObjectsSound`: `TASpec => []ObjectsSound`, across resets and failures of malloc,
  without `ResetsAfterFailure`; the observation above shows that this is needed.

`OwnerInv` gives every chunk one owner, so that a step of a thread is about its own
chunks only. `ChainOK` says that the blocks behind the current one are empty, which is
why the block that `allocate` falls back to always has room, and that a block without
memory lies before the current one, or is the current one and empty (`Skipped`), so that
the next allocation gets null from it and leaves it. `Placed` says that every object of a
context ends at or before the offset of its block.

`FrontEnd_proofs` is about two modules. For `ContainerParser` it holds for all blobs,
where `size_t` is wider than the fields of a container (`WideOffsets`: 64-bit builds):

* `CPContainerReadsSound`: reads and streams stay inside of the blob, names end in it,
  DXBC code is found in any part, accepted parts of runtime data are consecutive.

`StreamsInv` says that each stream is a part of the blob with its cursor inside, of
which `create_substream_bitcode_size` and the checks of `MemoryStream` make others;
`ScanInv` what the first loop over the parts has established. In a 32-bit build an
offset and a size of a container may wrap, which the theorem leaves out and the run,
whose `SizeRange` is wider too, does not show.

For `BitcodeModule`, `FrontEnd_proofs` holds for any number of globals, bodies, arguments,
constants and instructions:

* `BMModuleAsWritten`: `BMSpec => []ModuleAsWritten`.

`TableInv` says that the reader's table is the writer's for as far as both go, so that
relative and absolute operands decode to the number that was encoded; `BodyInv` that
the values of the module stay in front of the table, which is why cutting it back
between bodies is right. `OperandInv` and `ConstantInv` say of each operand that it is
the value that was meant or a proxy whose number is still pending, so that the end of
a body, which asks for every pending number, resolves it or fails. `BMBounds` states
that a module has fewer values than numbers of 32 bits.

`WorkGraph_proofs` holds, for `WorkGraph`, for any length of rows, thread groups,
coalescing windows, grids and columns:

* `WGNothingRunsTwice`: `WGSpec => []NothingRunsTwice`.

`WGInv` says that every call is one that its unit makes in its iteration, and that an
amplified unit is in an iteration of its own column. The rest is arithmetic about the
emitted code: the number of a workgroup, in whole rows and in those that are left, is
a mixed-radix number and gives the workgroup back (`NumberTells`); the windows of a
coalescing node do not overlap (`RecordsTell`); the bits that `emit_dispatch_bit_count`
reserves for a dimension hold all its indices (`BitCountFacts`), so that iterations and
workgroups of the grid determine each other (`GridTells`); and iterations of different
units of a column differ modulo the column's size (`CallTells`). Shifts are the
recursive function `Pow2`, whose equation the module proves from its definition.

For `NodeRecords`, it holds for any number of waves, lanes, groups, threads, nodes and
calls, whatever they ask for, as long as what a wave asks for at once fits the field for
it in a list entry (`NodeRecordsAssumption`). The emitted code relies on that too: it
joins the node and the count by an *or* and checks neither; a shader's declared output
limit, which is external, is what keeps counts within the field's 256:

* `NRRecordsSound`: `NRSpec => []RecordsSound`. Allocations share no memory
  (`RecordsDisjoint`), each is listed under its node and the totals are what was asked
  for (`ListIsComplete`), and one group learns that it is the last (`OneGroupIsLast`).

The hard part is that the threads of a group run freely between the barriers and share
one word. `InStep` counts barriers: a thread has joined two for each allocation behind
it, and one that has passed a barrier knows that all others have joined it. Hence a
thread that reads the shared offset finds the first thread in the same call and not yet
beyond it, whose offset is the shared one (`Shares`). This is where the second barrier
is needed: with one, the first thread could overwrite the word. `Regions` says of every
allocation in progress that its memory lies below the counter and apart from all others
and from the records given out; `Slots` says the same of its list entry and what has been
written to it so far. `Totals` takes the node totals as sums over the lanes and calls that
have passed the counter, and `Cookie` the cookie as the number of groups that have not
finished, so that only the group that takes it to nothing is the last. Sums over finite
sets are folds; the proof works with what they solve (`SubsetInduction`, `AddsFacts`). The counters are naturals:
a dispatch whose counters pass 32 bits is outside the model.

`RaysAndViews_proofs` is about the emitted variables of ray tracing and views, for any
number of calls, allocas and incoming payloads, of iterations, and of views, offsets,
masks, stages, threads and primitives:

* `RPPayloadsKept`: `RPSpec => []PayloadsKept`, if an operation that never copies its
  variable, or does not bring it back, shares its alloca with its class only (`OwnAllocas`). The
  observation about `HitObject::Invoke` above shows that this is needed.
* `RORayObjectsSound`: `ROSpec => []RayObjectsSound` without `CarriedFresh`,
  `Concurrent`, `DynamicReads` and `HeapSources`, for the shape of function the module
  describes; the observations above show that each is needed. `ROObjectsFollowPhis` needs
  the first hypothesis only.
* `VIViewsPlaced`: `ViewSpec => []ViewsPlaced`, if a shader that names a layer is drawn
  with the constant that holds the layer of the view (`LayersHaveConstant`).

For payloads, `StorageOK` says that the analysis has marked an alloca exactly when two of
its calls want different classes, whatever their order, so that a call without a copy
finds its variable in its class. For hit objects, `AnalysisShares` says that the analysis
leaves what a phi joins in the variable of the phi, through two phis as well. `Following`
is then inductive: whichever values are the newest object, their variables hold it. It
holds for every value, where the property speaks of two phis at two places. `SourcesOK`
says that an object made from a query records the last trace of that query, as long as
the operand is the query's variable and not a number. For views,
`LayerOK` and `ViewportOK` say where in a stage the fixed layer and viewport have been
written (`Placed`), so that a vertex is complete when it is emitted, and `MapOK` that the
map has one type. The packed offsets are halves of a word, which
`Unpack` takes apart again.

`CFGVisit_proofs` holds for every function and any number of traversals:

* `VisitInvariant`: `CVSpec => []VisitInv`.
* `BranchesDescend`: `CVSpec => []ForwardEdgesDescend`, so that the forward graph
  is acyclic and post-order numbers are a topological order. Every analysis of
  `RecomputeCFG` relies on it.
* `TraversalsAreSound`: `CVSpec => []TraversalsSound`. Merging leaves each header one back
  edge (`OneBackEdgePerHeader`), every branch is recorded at both of its ends
  (`EdgesHaveTwoEnds`), none of the function is lost (`BranchesPreserved`), and a traversal
  finds the post-order and the back edges of the one before (`RecomputeIsStable`).

`ReturnedInv` says that the branches of a block that returned lead to blocks which
returned before it. When a call returns this has to be known of the successors the
call has passed, which is `PassedInv`: each is its back edge, a block that has
returned, or the block whose call it waits for. `GraphInv` (successors differ, and a
back edge is no successor) keeps that true when the back edge is erased, and
`CallInv` says that the visited blocks are the open and the returned ones, once
each.

`EdgesInv` follows the branches: while a traversal runs, a branch is in the lists of
both of its blocks or is the back edge of both (`EndsInv`), and the branches of a block
of the function lead where the input says, directly or through a block that merges back
edges (`OriginInv`). `LatchInv` says which back edges the analysis has noted, so that the
branches it retargets are exactly those it means.

That a second traversal repeats the first one is not inductive in terms of the state.
Between the two, back edges were erased and appended again at the end of their lists, and
in the analysis all of those of a header went to a new block. `RecordInv` therefore says
that there is a *record* of the first traversal: a set of moments, each with the block it
is in, the blocks entered and the blocks left so far. What comes after a moment follows
from the first two alone: the first successor not entered, or the return to the caller.
The analysis makes a record of the blocks of the function (`AnalysisRec`), which tells the
ancestors of every block, and thereby which branches are back edges; the visits go by it
(`VisitRec`), so that they meet back edges only where the analysis noted them and merged
those of one header. The first visit makes a record of all blocks, with those that merge
back edges (`StableRec`). A rewrite that keeps the order of all successors but the back
edges keeps a record valid (`KeepsOrder`), because a back edge leads to a block that was
entered before, and no moment depends on its place in the list. A traversal that goes by
a valid record to its end has its post-order and its back edges.

`RecomputeCFG_proofs` extends `CFGVisit_proofs` to the passes after the traversal, for
every function and however often it is analysed:

* `ForwardAnalyses`: `RCSpec => []ForwardAnalysesCorrect`. Where the run has added no
  branch, `dominates` is dominance in a reducible function (`DominatorsAreDominators`),
  `query_reachability` answers for the paths of forward branches (`ReachabilityIsPaths`),
  and the frontier of a block is where its dominance ends (`FrontierIsWhereDominanceEnds`).

Dominance, reachability and the walk up the dominators are recursive functions in the
model. The proof replaces each by what it solves: `Reached` and `Dom` by sets of blocks
that are closed under branches, the walk by the set of blocks it meets (`Walk`). Where
one would use induction over the blocks, the proof takes one with the least or the
greatest post-order number (`Extremes`), as no induction theorem can be instantiated.

`FlowInv` is what the passes know of the function: forward branches lead to lower
numbers, live blocks are recorded at both ends (`LiveEnds`), and calls lead from a
header to the block that closes its loop (`TreeInv`). The last is why the dominators may
ignore the back edges: in a reducible function a header dominates its latch, so that
a back edge opens no new way into a block (`ReducibleDominance`). `DomInv` follows
`build_immediate_dominators`: the blocks the loop has passed have dominators that climb
(`Climbs`) and are immediate (`Immediates`). As `find_common_dominator` always
moves the block with the lower number, it meets the first block of which both are
dominated. `ReachInv` says that a row of the bitset is the block and the rows of its
successors, which were complete before. `FrontInv` says the same of the frontiers, which
are made of the successors that a block does not dominate immediately and of what the
blocks it does dominate immediately pass on (`EndsEquation`).

Branches that `backwards_visit` adds make the next run start from another function.
They lead from a live block to a live block and are recorded at both ends (`LinkFlow`),
which is all that the next traversal asks of them, so the invariant survives a run
that has added some although its own results do not.

The assumptions are those named in the modules (`QAConstants`, `IRConstants`,
`BDAConstants`, `BDABuffer`, `TAConstants`, `CPBlobs`, `BMConstants`, `BMBounds`,
`WorkGraphAssumption`, `NodeRecordsAssumption`,
`ScenariosAssumption`, `RPVariables`, `VIConstants`, `CVConstants`, `RCConstants`); TLC evaluates them on
every run. The constants of the runs also satisfy the hypotheses `NoWrap`,
`NoFalsePositives`, `WideOffsets`, `OwnAllocas` and `LayersHaveConstant`, so that the runs
check what the theorems say.

### Only model-checked

* Liveness: `FaultIsReported`, `BadValueIsPublished`, `RecomputeEnds`, `ParserEnds`,
  `AllDispatched`, `AllocationsReturn`, `WaterfallsEnd`. Fairness and ENABLED are
  beyond the proof system.
* `LockAnalysesCorrect` and `LockedOnceOutsideLoops`: the backward traversal, the
  post-dominators and their frontiers, and the lock regions that rest on them.
* `WavesSound`, `IntegersSound`, `AddressesAsWritten`,
  `DeclaredAsAccessed` and `ViewsRespected`: their modules use bitwise operators.
* `EmissionSound`: its module has recursive operators.
* `FloatsSound`: a statement about each of finitely many halves and floats, which the
  run enumerates completely.
* `PacketsSound`, `IntrinsicsSound`, `BindingsSound`, `StagesSound`: not proved so far.

## What is not modelled

The statuses and reasons are in `PROJECT.json`. In short:

* the passes of the structurizer after its analyses (ladders, switches, degenerate
  blocks, merge validation) and phi insertion: thousands of lines of interdependent
  heuristics whose specification speaks of graphs larger than TLC can enumerate;
* automatic group-shared barriers;
* sampling and image opcodes: one operation per opcode with reordered operands;
* the DXBC front end: it translates the IR of a library that is not part of the
  repository;
* the classes of the IR, the options of the C API, logging, tools, vendored code and
  test data, which carry no logic of their own.

In the modelled parts, names, decorations, debug output, 64-bit elements of
signatures, 64-bit address arithmetic and the mixing of hashes are left out.

## Plan

1. *Proofs*: the backward half of `recompute_cfg`, whose post-dominators are dominators of
   the reversed graph, and the lock regions; the packets; bindings and stages.
2. *Structurizer rewrites* on top of `LoopAnalysis`: `find_loops` with
   `create_ladder_block`, `eliminate_degenerate_blocks`. Properties: the set of paths is
   preserved up to inserted blocks, a loop has one exit, the passes end.
3. *Group-shared barriers*: a barrier is in uniform control flow.
4. *Phi insertion*: a value per block and path, and the algorithm by dominance
   frontiers as its refinement.

New modules share a run with those they are closest to, as the runs side by side do.

## Running

    tlc -workers 2 -config MC_RecomputeCFG.cfg MC_RecomputeCFG
    tlapm WorkGraph_proofs.tla

Every run ends within five minutes on a small machine, most within two. `tlapm` takes
ten to ninety seconds for a module of proofs, and three to nine minutes for
`WorkGraph_proofs`, `FrontEnd_proofs`, `ShaderChecks_proofs`, `CFGVisit_proofs` and `RecomputeCFG_proofs`.
