-------------------------- MODULE ThreadAllocator --------------------------
(***************************************************************************)
(* The allocator behind every container and pool of dxil-spirv             *)
(* (util/thread_local_allocator.cpp).  Outside of a context a thread uses  *)
(* malloc and free.  Inside of one it carves objects out of a chain of     *)
(* blocks, frees nothing, and gives everything back when the context ends; *)
(* a reset keeps the blocks and starts again at the first.                 *)
(*                                                                         *)
(* The client follows the contract of dxil_spirv_c.h: it begins a context  *)
(* before it allocates any object, ends or resets it after all objects of  *)
(* the thread are destroyed, and destroys an object on the thread that     *)
(* created it.  When an allocation fails it gets a null pointer, which is  *)
(* no object: the pools end the program then (scratch_pool.hpp, ir.hpp),   *)
(* the containers pass it on (thread_local_allocator.hpp), and a thread of *)
(* the model goes on with what it calls next.  One thing is left out: a    *)
(* reset of a context in which malloc failed, after which the block        *)
(* without memory is allocated from again (ResetsAfterFailure).  The C     *)
(* library's heap is external.                                             *)
(***************************************************************************)
EXTENDS Integers, Sequences, FiniteSets

CONSTANTS
  Threads,
  BlockSize,      \* BLOCK_SIZE: 64 KiB
  Alignment,      \* 16
  Sizes,          \* sizes that clients ask for, in bytes
  MaxChunks,      \* bound: chunks the C heap can hand out
  MaxLive,        \* bound: live objects of a thread
  MaxChain,       \* bound: blocks of a chain, those without memory included
  ResetsAfterFailure  \* a context in which malloc failed is reset

ASSUME TAConstants ==
  /\ BlockSize \in Nat \ {0} /\ Alignment \in Nat \ {0}
  /\ BlockSize % Alignment = 0
  /\ Sizes \subseteq Nat \ {0}
  /\ MaxChunks \in Nat /\ MaxLive \in Nat /\ MaxChain \in Nat
  /\ ResetsAfterFailure \in BOOLEAN

VARIABLES
  heap,       \* the C heap: the size of every allocated chunk
  active,     \* per thread: the thread-local allocator is not null
  blocks,     \* per thread: its chain of blocks
  huge,       \* per thread: its huge blocks
  index,      \* per thread: block_index
  live,       \* per thread: objects created and not destroyed
  outcome     \* per thread: how its last allocation ended

arenaVars == <<active, blocks, huge, index>>
taVars == <<heap, arenaVars, live, outcome>>

-----------------------------------------------------------------------------

\* A pointer is a chunk and an offset; chunk 0 is the null pointer's, so that
\* null + offset is a pointer other than null.
NullPtr == [chunk |-> 0, offset |-> 0]
PointerTo(c, o) == [chunk |-> c, offset |-> o]

\* malloc (external): a chunk that is not in use, or 0 when it fails.
FreeChunks == (1 .. MaxChunks) \ DOMAIN heap
MallocResults ==
  {0} \cup {c \in FreeChunks : \A d \in FreeChunks : c <= d}

\* The heap with one more chunk, and with fewer.
WithChunk(h, c, size) ==
  [d \in DOMAIN h \cup ({c} \ {0}) |-> IF d = c THEN size ELSE h[d]]
WithoutChunks(h, cs) == [d \in DOMAIN h \ cs |-> h[d]]

-----------------------------------------------------------------------------
(* ChainAllocator.                                                         *)

\* Mutant: an object may start anywhere.
NoAlignUp(o) == o

AlignUp(o) == ((o + Alignment - 1) \div Alignment) * Alignment

Fits(o, size) == o + size <= BlockSize

\* offset += size.
BumpOffset(o, size) == o + size

\* Block::allocate: the block afterwards and the pointer.  A failing call
\* still aligns the offset.
BlockAllocate(b, size) ==
  LET o == AlignUp(b.offset)
  IN  IF Fits(o, size)
        THEN [block |-> [b EXCEPT !.offset = BumpOffset(o, size)], ptr |-> PointerTo(b.chunk, o)]
        ELSE [block |-> [b EXCEPT !.offset = o], ptr |-> NullPtr]

\* ChainAllocator::allocate for a size that is not huge, on the chain bs at
\* block i (from 0), when malloc would return chunk c: the chain and index
\* afterwards, and the pointer.
ChainAllocate(bs, i, size, c) ==
  LET NewBlock == [chunk |-> c, offset |-> 0]
      Ensure(s, k) == IF k >= Len(s) THEN Append(s, NewBlock) ELSE s
      Failed(s, k) == k >= Len(s) /\ c = 0
      bs1 == Ensure(bs, i)
      r1  == BlockAllocate(bs1[i + 1], size)
      bs2 == [bs1 EXCEPT ![i + 1] = r1.block]
      bs3 == Ensure(bs2, i + 1)
      r2  == BlockAllocate(bs3[i + 2], size)
  IN  CASE Failed(bs, i) ->
             [blocks |-> bs1, index |-> i, ptr |-> NullPtr]
        [] ~ Failed(bs, i) /\ r1.ptr # NullPtr ->
             [blocks |-> bs2, index |-> i, ptr |-> r1.ptr]
        [] ~ Failed(bs, i) /\ r1.ptr = NullPtr /\ Failed(bs2, i + 1) ->
             [blocks |-> bs3, index |-> i + 1, ptr |-> NullPtr]
        [] OTHER ->
             [blocks |-> [bs3 EXCEPT ![i + 2] = r2.block], index |-> i + 1, ptr |-> r2.ptr]

Object(p, size) == [ptr |-> p, size |-> size]
NewObjects(p, size) == IF p = NullPtr THEN {} ELSE {Object(p, size)}

\* "fair": memory, or null because malloc failed; "full": null although it did not.
Outcome(p, called, c) == IF p # NullPtr \/ (called /\ c = 0) THEN "fair" ELSE "full"

\* allocate_in_thread without a context.
AllocateMalloc(t, size) ==
  /\ ~ active[t]
  /\ Cardinality(live[t]) < MaxLive
  /\ \E c \in MallocResults :
       /\ heap' = WithChunk(heap, c, size)
       /\ outcome' = [outcome EXCEPT ![t] = Outcome(PointerTo(c, 0), TRUE, c)]
       /\ live' = [live EXCEPT ![t] = @ \cup NewObjects(PointerTo(c, 0), size)]
  /\ UNCHANGED arenaVars

\* allocate_huge.
AllocateHuge(t, size) ==
  /\ active[t]
  /\ Cardinality(live[t]) < MaxLive
  /\ size > BlockSize
  /\ \E c \in MallocResults :
       /\ heap' = WithChunk(heap, c, size)
       /\ huge' = [huge EXCEPT ![t] = @ \cup ({c} \ {0})]
       /\ outcome' = [outcome EXCEPT ![t] = Outcome(PointerTo(c, 0), TRUE, c)]
       /\ live' = [live EXCEPT ![t] = @ \cup NewObjects(PointerTo(c, 0), size)]
  /\ UNCHANGED <<active, blocks, index>>

\* ChainAllocator::allocate; malloc is called when the chain grows.  A failing
\* malloc leaves a block without memory in the chain, which the next call skips.
AllocateSmall(t, size) ==
  /\ active[t]
  /\ Cardinality(live[t]) < MaxLive
  /\ size <= BlockSize
  /\ \E c \in 0 .. MaxChunks :
       LET r     == ChainAllocate(blocks[t], index[t], size, c)
           grows == Len(r.blocks) > Len(blocks[t])
       IN  /\ grows => c \in MallocResults /\ Len(r.blocks) <= MaxChain
           /\ heap' = IF grows THEN WithChunk(heap, c, BlockSize) ELSE heap
           /\ blocks' = [blocks EXCEPT ![t] = r.blocks]
           /\ index' = [index EXCEPT ![t] = r.index]
           /\ outcome' = [outcome EXCEPT ![t] = Outcome(r.ptr, grows, c)]
           /\ live' = [live EXCEPT ![t] = @ \cup NewObjects(r.ptr, size)]
  /\ UNCHANGED <<active, huge>>

\* free_in_thread: inside of a context nothing is freed.
FreeInThread(t, o) ==
  /\ o \in live[t]
  /\ live' = [live EXCEPT ![t] = @ \ {o}]
  /\ heap' = IF active[t] THEN heap ELSE WithoutChunks(heap, {o.ptr.chunk})
  /\ UNCHANGED <<arenaVars, outcome>>

BeginContext(t) ==
  /\ ~ active[t]
  /\ live[t] = {}
  /\ active' = [active EXCEPT ![t] = TRUE]
  /\ UNCHANGED <<heap, blocks, huge, index, live, outcome>>

BlockChunks(t) == {blocks[t][k].chunk : k \in DOMAIN blocks[t]}

\* Every chunk the allocator of a thread owns.
ArenaChunks(t) == BlockChunks(t) \cup huge[t]

EndContext(t) ==
  /\ active[t]
  /\ live[t] = {}
  /\ heap' = WithoutChunks(heap, ArenaChunks(t))
  /\ active' = [active EXCEPT ![t] = FALSE]
  /\ blocks' = [blocks EXCEPT ![t] = << >>]
  /\ huge' = [huge EXCEPT ![t] = {}]
  /\ index' = [index EXCEPT ![t] = 0]
  /\ UNCHANGED <<live, outcome>>

\* ChainAllocator::reset.
Rewind(t) == [k \in DOMAIN blocks[t] |-> [blocks[t][k] EXCEPT !.offset = 0]]

ResetContext(t) ==
  /\ active[t]
  /\ live[t] = {}
  /\ ResetsAfterFailure \/ 0 \notin BlockChunks(t)
  /\ blocks' = [blocks EXCEPT ![t] = Rewind(t)]
  /\ index' = [index EXCEPT ![t] = 0]
  /\ heap' = WithoutChunks(heap, huge[t])
  /\ huge' = [huge EXCEPT ![t] = {}]
  /\ UNCHANGED <<active, live, outcome>>

-----------------------------------------------------------------------------

TAInit ==
  /\ heap = [c \in {} |-> 0]
  /\ active = [t \in Threads |-> FALSE]
  /\ blocks = [t \in Threads |-> << >>]
  /\ huge = [t \in Threads |-> {}]
  /\ index = [t \in Threads |-> 0]
  /\ live = [t \in Threads |-> {}]
  /\ outcome = [t \in Threads |-> "fair"]

TANext ==
  \E t \in Threads :
    \/ \E size \in Sizes :
         AllocateMalloc(t, size) \/ AllocateHuge(t, size) \/ AllocateSmall(t, size)
    \/ \E o \in live[t] : FreeInThread(t, o)
    \/ BeginContext(t)
    \/ EndContext(t)
    \/ ResetContext(t)

TASpec == TAInit /\ [][TANext]_taVars

-----------------------------------------------------------------------------
(* Properties.                                                             *)

Block == [chunk : 0 .. MaxChunks, offset : 0 .. BlockSize]
Pointer == [chunk : 1 .. MaxChunks, offset : Nat]
Objects == [ptr : Pointer, size : Nat \ {0}]

\* The type of every variable.
TATypeOK ==
  /\ heap \in [DOMAIN heap -> Nat] /\ DOMAIN heap \subseteq 1 .. MaxChunks
  /\ active \in [Threads -> BOOLEAN]
  /\ blocks \in [Threads -> Seq(Block)]
  /\ huge \in [Threads -> SUBSET (1 .. MaxChunks)]
  /\ index \in [Threads -> Nat] /\ \A t \in Threads : index[t] <= Len(blocks[t])
  /\ live \in [Threads -> SUBSET Objects]
  /\ outcome \in [Threads -> {"fair", "full"}]

\* Every object that is in use lies, aligned, inside of memory that malloc
\* returned and nobody has freed.
ObjectsInHeap ==
  \A t \in Threads : \A o \in live[t] :
    /\ o.ptr.chunk \in DOMAIN heap
    /\ o.ptr.offset + o.size <= heap[o.ptr.chunk]
    /\ o.ptr.offset % Alignment = 0

ObjectBytes(o) == {<<o.ptr.chunk, b>> : b \in o.ptr.offset .. o.ptr.offset + o.size - 1}

\* No two objects share a byte, of one thread or of two.
ObjectsDisjoint ==
  \A t, u \in Threads : \A o \in live[t], p \in live[u] :
    <<t, o>> # <<u, p>> => ObjectBytes(o) \cap ObjectBytes(p) = {}

\* The chunks a thread answers for: those of its context, or its objects'.
Owned(t) ==
  IF active[t] THEN ArenaChunks(t) \ {0} ELSE {o.ptr.chunk : o \in live[t]}

\* Every chunk of the heap belongs to a context or is an object of a thread
\* without one: a finished context leaves no memory behind, and free is only
\* ever called on what malloc returned.
NothingLeaks == DOMAIN heap = UNION {Owned(t) : t \in Threads}

\* An allocation fails only if malloc did, however often the context was reset
\* and however full its blocks are: a size that is not huge fits into the block
\* that follows the current one, which is empty or new, also after a failure.
FailsOnlyWithoutMemory == \A t \in Threads : outcome[t] # "full"

\* Objects (allocate_in_thread and its contexts) lie in memory that is theirs
\* alone, a finished context leaves none behind, and an allocation fails only if
\* malloc did, however often the context was reset and whatever failed before.
ObjectsSound ==
  TATypeOK /\ ObjectsInHeap /\ ObjectsDisjoint /\ NothingLeaks /\ FailsOnlyWithoutMemory

=============================================================================
