----------------------- MODULE ThreadAllocator_proofs -----------------------
(***************************************************************************)
(* Proofs about ThreadAllocator for any number of threads, any sizes and a *)
(* heap of any size.                                                       *)
(*                                                                         *)
(* The argument: every chunk of the heap has one owner (OwnerInv), so that *)
(* a step of a thread is about its own chunks only (ThreadStep).  The      *)
(* blocks of a chain are different chunks of BlockSize bytes, and those    *)
(* behind the current one are empty (ChainOK), which is why an object that *)
(* is not huge always fits into the next; a block that malloc gave no      *)
(* memory is the current one and empty, so that the next call leaves it,   *)
(* or lies before it (Skipped).  An object of a context ends at or before  *)
(* the offset of its block, so that the next object of the block begins    *)
(* behind it (Placed, Apart).                                              *)
(***************************************************************************)
EXTENDS ThreadAllocator, TLAPS

\* Nothing will be taken from block k of the chain bs, whose current block is
\* i + 1: an empty block without memory returns null once, and is left then.
Skipped(bs, i, k) == k <= i \/ (k = i + 1 /\ bs[k].offset = 0)

\* The chain of blocks of a thread.
ChainOK(t) ==
  /\ ~ active[t] => blocks[t] = << >> /\ huge[t] = {} /\ index[t] = 0
  /\ \A k \in DOMAIN blocks[t] : k > index[t] + 1 => blocks[t][k].offset = 0
  /\ \A k, l \in DOMAIN blocks[t] :
       blocks[t][k].chunk = blocks[t][l].chunk /\ blocks[t][k].chunk # 0 => k = l
  /\ \A k \in DOMAIN blocks[t] :
       /\ blocks[t][k].chunk \notin huge[t]
       /\ blocks[t][k].chunk # 0 => heap[blocks[t][k].chunk] = BlockSize
       /\ blocks[t][k].chunk = 0 => Skipped(blocks[t], index[t], k)

\* An object has a chunk of its own, or lies below the offset of a block.
OwnChunk(o) == o.ptr.offset = 0 /\ heap[o.ptr.chunk] = o.size

InBlock(t, o) ==
  \E k \in DOMAIN blocks[t] :
    /\ o.ptr.chunk = blocks[t][k].chunk
    /\ o.ptr.offset + o.size <= blocks[t][k].offset
    /\ o.ptr.offset % Alignment = 0

Placed(t, o) ==
  IF active[t] THEN (o.ptr.chunk \in huge[t] /\ OwnChunk(o)) \/ InBlock(t, o)
               ELSE OwnChunk(o)

Apart(o, p) ==
  \/ o.ptr.chunk # p.ptr.chunk
  \/ o.ptr.offset + o.size <= p.ptr.offset
  \/ p.ptr.offset + p.size <= o.ptr.offset

ThreadOK(t) ==
  /\ ChainOK(t)
  /\ \A o \in live[t] : Placed(t, o)
  /\ \A o, p \in live[t] : o # p => Apart(o, p)

\* No chunk is owned twice, and none is lost.
OwnerInv ==
  /\ NothingLeaks
  /\ \A t, u \in Threads : t # u => Owned(t) \cap Owned(u) = {}

TAInv ==
  TATypeOK /\ FailsOnlyWithoutMemory /\ OwnerInv /\ \A t \in Threads : ThreadOK(t)

-----------------------------------------------------------------------------
(* Alignment.                                                              *)

\* Division with remainder.
LEMMA DivRem ==
  ASSUME NEW x \in Nat, NEW a \in Nat \ {0}
  PROVE  /\ x \div a \in Nat
         /\ x % a \in 0 .. a - 1
         /\ x = a * (x \div a) + (x % a)
OBVIOUS

\* A multiple leaves no remainder.
LEMMA MultipleRem ==
  ASSUME NEW q \in Nat, NEW a \in Nat \ {0}
  PROVE  (q * a) % a = 0
<1> DEFINE x == q * a
<1>1. x \in Nat
  OBVIOUS
<1>2. x \div a \in Nat /\ x % a \in 0 .. a - 1 /\ x = a * (x \div a) + (x % a)
  BY <1>1, DivRem
<1>3. x % a = a * (q - (x \div a))
  BY <1>1, <1>2
<1>4. CASE q - (x \div a) <= 0
  BY <1>2, <1>3, <1>4
<1>5. CASE q - (x \div a) >= 1
  <2>1. a * (q - (x \div a)) >= a
    BY <1>2, <1>5
  <2> QED BY <1>2, <1>3, <2>1
<1> QED BY <1>2, <1>4, <1>5

\* The next multiple of the alignment, which is not beyond the end of a block.
LEMMA AlignUpBounds ==
  ASSUME NEW o \in Nat
  PROVE  /\ AlignUp(o) \in Nat
         /\ AlignUp(o) >= o
         /\ AlignUp(o) % Alignment = 0
         /\ o <= BlockSize => AlignUp(o) <= BlockSize
<1>0. Alignment \in Nat \ {0} /\ BlockSize \in Nat \ {0} /\ BlockSize % Alignment = 0
  BY TAConstants DEF TAConstants
<1> DEFINE x == o + Alignment - 1
           q == x \div Alignment
<1>1. x \in Nat
  BY <1>0
<1>2. q \in Nat /\ x % Alignment \in 0 .. Alignment - 1 /\ x = Alignment * q + (x % Alignment)
  BY <1>0, <1>1, DivRem
<1>3. AlignUp(o) = q * Alignment
  BY DEF AlignUp
<1>4. q * Alignment \in Nat /\ q * Alignment >= o
  BY <1>0, <1>2
<1>5. (q * Alignment) % Alignment = 0
  BY <1>0, <1>2, MultipleRem
<1>6. ASSUME o <= BlockSize PROVE q * Alignment <= BlockSize
  <2> DEFINE m == BlockSize \div Alignment
  <2>1. m \in Nat /\ BlockSize = Alignment * m
    BY <1>0, DivRem
  <2>2. Alignment * q < Alignment * (m + 1)
    BY <1>0, <1>2, <1>6, <2>1
  <2>3. q <= m
    <3>1. CASE q >= m + 1
      <4>1. Alignment * q >= Alignment * (m + 1)
        BY <1>0, <1>2, <2>1, <3>1
      <4> QED BY <1>0, <1>2, <2>1, <2>2, <4>1
    <3> QED BY <1>2, <2>1, <3>1
  <2> QED BY <1>0, <1>2, <2>1, <2>3
<1> QED BY <1>3, <1>4, <1>5, <1>6

LEMMA AlignUpZero == AlignUp(0) = 0
<1>1. Alignment \in Nat \ {0} /\ (Alignment - 1) \div Alignment = 0
  BY TAConstants DEF TAConstants
<1> QED BY <1>1 DEF AlignUp

-----------------------------------------------------------------------------
(* ChainAllocator.                                                         *)

\* Block::allocate fails, or returns the aligned bytes behind the offset; it
\* cannot fail on an empty block.
LEMMA BlockAllocateResult ==
  ASSUME NEW b \in Block, NEW size \in Nat \ {0}
  PROVE  /\ BlockAllocate(b, size).block \in Block
         /\ BlockAllocate(b, size).block.chunk = b.chunk
         /\ BlockAllocate(b, size).block.offset >= b.offset
         /\ \/ BlockAllocate(b, size).ptr = NullPtr
            \/ \E o \in Nat :
                 /\ BlockAllocate(b, size).ptr = PointerTo(b.chunk, o)
                 /\ o >= b.offset /\ o % Alignment = 0
                 /\ o + size <= BlockAllocate(b, size).block.offset
         /\ b.offset = 0 /\ size <= BlockSize =>
              /\ BlockAllocate(b, size).ptr = PointerTo(b.chunk, 0)
              /\ size <= BlockAllocate(b, size).block.offset
<1>0. BlockSize \in Nat
  BY TAConstants DEF TAConstants
<1>1. b.offset \in 0 .. BlockSize
  BY DEF Block
<1> DEFINE o == AlignUp(b.offset)
<1>2. o \in Nat /\ o >= b.offset /\ o % Alignment = 0 /\ o <= BlockSize
  BY <1>0, <1>1, AlignUpBounds
<1>3. b.offset = 0 => o = 0
  BY AlignUpZero
<1>4. CASE o + size <= BlockSize
  <2>1. BlockAllocate(b, size) =
          [block |-> [b EXCEPT !.offset = o + size], ptr |-> PointerTo(b.chunk, o)]
    BY <1>4 DEF BlockAllocate, Fits, BumpOffset
  <2> HIDE DEF o
  <2> QED BY <1>0, <1>1, <1>2, <1>3, <1>4, <2>1 DEF Block, PointerTo
<1>5. CASE ~ (o + size <= BlockSize)
  <2>1. BlockAllocate(b, size) = [block |-> [b EXCEPT !.offset = o], ptr |-> NullPtr]
    BY <1>5 DEF BlockAllocate, Fits, BumpOffset
  <2> HIDE DEF o
  <2> QED BY <1>0, <1>1, <1>2, <1>3, <1>5, <2>1 DEF Block
<1> QED BY <1>4, <1>5

\* Sequences of blocks with one more, and with another block in place of one.
LEMMA AppendBlock ==
  ASSUME NEW bs \in Seq(Block), NEW b \in Block
  PROVE  /\ Append(bs, b) \in Seq(Block) /\ Len(Append(bs, b)) = Len(bs) + 1
         /\ Append(bs, b)[Len(bs) + 1] = b
         /\ \A k \in 1 .. Len(bs) : Append(bs, b)[k] = bs[k]
OBVIOUS

LEMMA ReplaceBlock ==
  ASSUME NEW bs \in Seq(Block), NEW j \in 1 .. Len(bs), NEW b \in Block
  PROVE  /\ [bs EXCEPT ![j] = b] \in Seq(Block) /\ Len([bs EXCEPT ![j] = b]) = Len(bs)
         /\ [bs EXCEPT ![j] = b][j] = b
         /\ \A k \in 1 .. Len(bs) : k # j => [bs EXCEPT ![j] = b][k] = bs[k]
OBVIOUS

\* What ChainAllocator::allocate makes of the chain bs at index i: the blocks
\* stay, none loses bytes, the blocks behind the new index are empty, and those
\* without memory are skipped.  It fails only when the chain had to grow and
\* malloc failed.
ChainGrown(r, bs, c) ==
  /\ r.blocks \in Seq(Block)
  /\ Len(r.blocks) \in {Len(bs), Len(bs) + 1}
  /\ \A k \in 1 .. Len(bs) : /\ r.blocks[k].chunk = bs[k].chunk
                             /\ r.blocks[k].offset >= bs[k].offset
  /\ Len(r.blocks) > Len(bs) => r.blocks[Len(bs) + 1].chunk = c
  /\ r.index \in Nat /\ r.index <= Len(r.blocks)
  /\ \A k \in 1 .. Len(r.blocks) : k > r.index + 1 => r.blocks[k].offset = 0
  /\ \A k \in 1 .. Len(r.blocks) :
       r.blocks[k].chunk = 0 => Skipped(r.blocks, r.index, k)

Carved(r, bs, size, k) ==
  /\ r.ptr.chunk # 0
  /\ r.ptr.chunk = r.blocks[k].chunk /\ r.ptr = PointerTo(r.ptr.chunk, r.ptr.offset)
  /\ r.ptr.offset \in Nat /\ r.ptr.offset % Alignment = 0
  /\ r.ptr.offset + size <= r.blocks[k].offset
  /\ k <= Len(bs) => r.ptr.offset >= bs[k].offset

LEMMA ChainAllocateResult ==
  ASSUME NEW bs \in Seq(Block), NEW i \in Nat, i <= Len(bs),
         NEW size \in Nat \ {0}, size <= BlockSize, NEW c \in 0 .. MaxChunks,
         \A k \in 1 .. Len(bs) : /\ k > i + 1 => bs[k].offset = 0
                                 /\ bs[k].chunk = 0 => Skipped(bs, i, k),
         NEW r, r = ChainAllocate(bs, i, size, c)
  PROVE  /\ ChainGrown(r, bs, c)
         /\ \/ r.ptr = NullPtr /\ Len(r.blocks) > Len(bs) /\ c = 0
            \/ /\ r.ptr # NullPtr /\ (Len(r.blocks) > Len(bs) => c # 0)
               /\ \E k \in 1 .. Len(r.blocks) : Carved(r, bs, size, k)
<1> DEFINE n   == [chunk |-> c, offset |-> 0]
           bs1 == IF i >= Len(bs) THEN Append(bs, n) ELSE bs
           r1  == BlockAllocate(bs1[i + 1], size)
           bs2 == [bs1 EXCEPT ![i + 1] = r1.block]
           bs3 == IF i + 1 >= Len(bs2) THEN Append(bs2, n) ELSE bs2
           r2  == BlockAllocate(bs3[i + 2], size)
<1>0. BlockSize \in Nat /\ MaxChunks \in Nat
  BY TAConstants DEF TAConstants
<1>1. n \in Block
  BY <1>0 DEF Block
<1>2. r = CASE i >= Len(bs) /\ c = 0 -> [blocks |-> bs1, index |-> i, ptr |-> NullPtr]
            [] ~ (i >= Len(bs) /\ c = 0) /\ r1.ptr # NullPtr ->
                 [blocks |-> bs2, index |-> i, ptr |-> r1.ptr]
            [] ~ (i >= Len(bs) /\ c = 0) /\ r1.ptr = NullPtr /\ (i + 1 >= Len(bs2) /\ c = 0) ->
                 [blocks |-> bs3, index |-> i + 1, ptr |-> NullPtr]
            [] OTHER -> [blocks |-> [bs3 EXCEPT ![i + 2] = r2.block], index |-> i + 1,
                         ptr |-> r2.ptr]
  BY DEF ChainAllocate
<1>3. \A k \in 1 .. Len(bs) : bs[k] \in Block /\ bs[k].offset \in Nat
  <2>1. \A b \in Block : b.offset \in Nat
    BY <1>0 DEF Block
  <2>2. \A k \in 1 .. Len(bs) : bs[k] \in Block
    OBVIOUS
  <2> QED BY <2>1, <2>2
<1>b. Len(bs) \in Nat /\ n.chunk = c /\ n.offset = 0
  OBVIOUS
<1>a. 0 % Alignment = 0
  BY TAConstants DEF TAConstants
<1> HIDE DEF n
<1>4. CASE i >= Len(bs)
  <2>1. i = Len(bs) /\ bs1 = Append(bs, n)
    BY <1>4
  <2>2. /\ bs1 \in Seq(Block) /\ Len(bs1) = i + 1
        /\ bs1[i + 1] = n /\ \A k \in 1 .. Len(bs) : bs1[k] = bs[k]
    BY <1>1, <2>1, AppendBlock
  <2> HIDE DEF bs1
  <2>3. CASE c = 0
    <3>1. r = [blocks |-> bs1, index |-> i, ptr |-> NullPtr]
      BY <1>2, <1>4, <2>3
    <3>2. ChainGrown(r, bs, c)
      <4>1. r.blocks = bs1 /\ r.index = i /\ Len(bs1) = Len(bs) + 1 /\ bs1[Len(bs) + 1].chunk = c
        BY <1>b, <2>1, <2>2, <3>1
      <4>2. \A k \in 1 .. Len(bs1) : ~ k > i + 1
        BY <2>2
      <4>3. \A k \in 1 .. Len(bs) : bs1[k].chunk = bs[k].chunk /\ bs1[k].offset >= bs[k].offset
        BY <1>3, <2>2
      <4>4. i <= Len(bs1) /\ bs1 \in Seq(Block)
        BY <2>2
      <4>5. \A k \in 1 .. Len(bs1) : k <= i \/ (k = i + 1 /\ bs1[k].offset = 0)
        BY <1>b, <2>1, <2>2
      <4> QED BY <4>1, <4>2, <4>3, <4>4, <4>5 DEF ChainGrown, Skipped
    <3> QED BY <2>1, <2>2, <2>3, <3>1, <3>2
  <2>4. CASE c # 0
    <3>1. r1.block \in Block /\ r1.block.chunk = c /\ r1.ptr = PointerTo(c, 0) /\ size <= r1.block.offset
      BY <1>1, <2>2, BlockAllocateResult DEF n
    <3>2. r1.ptr # NullPtr
      BY <2>4, <3>1 DEF PointerTo, NullPtr
    <3>3. r = [blocks |-> bs2, index |-> i, ptr |-> r1.ptr]
      BY <1>2, <2>4, <3>2
    <3> HIDE DEF r1
    <3>4. /\ bs2 \in Seq(Block) /\ Len(bs2) = i + 1 /\ bs2[i + 1] = r1.block
          /\ \A k \in 1 .. Len(bs) : bs2[k] = bs[k]
      <4>1. i + 1 \in 1 .. Len(bs1) /\ \A k \in 1 .. Len(bs) : k \in 1 .. Len(bs1) /\ k # i + 1
        BY <1>b, <2>1, <2>2
      <4> QED BY <2>2, <3>1, <4>1, ReplaceBlock
    <3> HIDE DEF bs2
    <3>5. ChainGrown(r, bs, c)
      <4>1. \A k \in 1 .. Len(bs2) : bs2[k].chunk = 0 => k <= i
        BY <2>1, <2>4, <3>1, <3>4
      <4> QED BY <1>3, <2>1, <3>1, <3>3, <3>4, <4>1 DEF ChainGrown, Skipped
    <3>6. Carved(r, bs, size, i + 1)
      BY <1>a, <2>1, <2>4, <3>1, <3>3, <3>4 DEF Carved, PointerTo
    <3> QED BY <2>1, <2>4, <3>2, <3>3, <3>4, <3>5, <3>6
  <2> QED BY <2>3, <2>4
<1>5. CASE i < Len(bs)
  <2>1. bs1 = bs /\ i + 1 \in 1 .. Len(bs) /\ bs[i + 1] \in Block
    BY <1>5
  <2>a. r1.ptr # NullPtr => bs[i + 1].chunk # 0
    <3>1. ASSUME bs[i + 1].chunk = 0 PROVE r1.ptr = NullPtr
      <4>1. bs[i + 1].offset = 0
        BY <2>1, <3>1 DEF Skipped
      <4> QED BY <2>1, <3>1, <4>1, BlockAllocateResult DEF PointerTo, NullPtr
    <3> QED BY <3>1
  <2>2. /\ r1.block \in Block /\ r1.block.chunk = bs[i + 1].chunk
        /\ r1.block.offset >= bs[i + 1].offset
        /\ \/ r1.ptr = NullPtr
           \/ \E o \in Nat : /\ r1.ptr = PointerTo(bs[i + 1].chunk, o)
                             /\ o >= bs[i + 1].offset /\ o % Alignment = 0
                             /\ o + size <= r1.block.offset
    BY <2>1, BlockAllocateResult
  <2> HIDE DEF r1
  <2>3. /\ bs2 \in Seq(Block) /\ Len(bs2) = Len(bs) /\ bs2[i + 1] = r1.block
        /\ \A k \in 1 .. Len(bs) : k # i + 1 => bs2[k] = bs[k]
    BY <2>1, <2>2, ReplaceBlock
  <2> HIDE DEF bs1, bs2
  <2>b. \A k \in 1 .. Len(bs) : bs2[k].chunk = bs[k].chunk /\ bs2[k].offset >= bs[k].offset
    <3> TAKE k \in 1 .. Len(bs)
    <3>1. CASE k = i + 1
      BY <2>2, <2>3, <3>1
    <3>2. CASE k # i + 1
      BY <1>3, <2>3, <3>2
    <3> QED BY <3>1, <3>2
  <2>4. CASE r1.ptr # NullPtr
    <3>1. r = [blocks |-> bs2, index |-> i, ptr |-> r1.ptr]
      BY <1>2, <1>5, <2>4
    <3>2. ChainGrown(r, bs, c)
      <4>1. \A k \in 1 .. Len(bs2) : k > i + 1 => bs2[k].offset = 0
        BY <2>1, <2>3
      <4>2. ~ Len(bs2) > Len(bs) /\ i <= Len(bs2)
        BY <1>5, <1>b, <2>3
      <4>3. ASSUME NEW k \in 1 .. Len(bs2), bs2[k].chunk = 0 PROVE k <= i
        <5>1. bs[k].chunk = 0 /\ k # i + 1 /\ k \in 1 .. Len(bs)
          BY <2>3, <2>4, <2>a, <2>b, <4>3
        <5> QED BY <5>1 DEF Skipped
      <4> QED BY <2>3, <2>b, <3>1, <4>1, <4>2, <4>3 DEF ChainGrown, Skipped
    <3>3. Carved(r, bs, size, i + 1)
      <4>1. PICK o \in Nat : /\ r1.ptr = PointerTo(bs[i + 1].chunk, o)
                            /\ o >= bs[i + 1].offset /\ o % Alignment = 0
                            /\ o + size <= r1.block.offset
        BY <2>2, <2>4
      <4>2. r.ptr.offset = o /\ r.ptr.chunk = bs[i + 1].chunk /\ r.blocks[i + 1] = r1.block
        BY <2>3, <3>1, <4>1 DEF PointerTo
      <4> QED BY <2>2, <2>4, <2>a, <3>1, <4>1, <4>2 DEF Carved
    <3> QED BY <2>1, <2>3, <2>4, <3>1, <3>2, <3>3
  <2>5. CASE r1.ptr = NullPtr /\ i + 1 >= Len(bs)
    <3>1. i + 1 = Len(bs) /\ bs3 = Append(bs2, n)
      BY <1>5, <2>3, <2>5
    <3>2. /\ bs3 \in Seq(Block) /\ Len(bs3) = i + 2 /\ bs3[i + 2] = n
          /\ \A k \in 1 .. Len(bs) : bs3[k] = bs2[k]
      BY <1>1, <2>3, <3>1, AppendBlock
    <3> HIDE DEF bs3
    <3>3. CASE c = 0
      <4>1. r = [blocks |-> bs3, index |-> i + 1, ptr |-> NullPtr]
        BY <1>2, <1>5, <2>3, <2>5, <3>3
      <4>2. ChainGrown(r, bs, c)
        <5>1. \A k \in 1 .. Len(bs3) : k <= i + 1 \/ (k = i + 2 /\ bs3[k].offset = 0)
          BY <1>b, <3>1, <3>2
        <5> QED BY <2>b, <3>1, <3>2, <4>1, <5>1 DEF ChainGrown, Skipped, n
      <4> QED BY <3>1, <3>2, <3>3, <4>1, <4>2
    <3>4. CASE c # 0
      <4> DEFINE bs4 == [bs3 EXCEPT ![i + 2] = r2.block]
      <4>1. r2.block \in Block /\ r2.block.chunk = c /\ r2.ptr = PointerTo(c, 0) /\ size <= r2.block.offset
        BY <1>1, <3>2, BlockAllocateResult DEF n
      <4>2. r2.ptr # NullPtr
        BY <3>4, <4>1 DEF PointerTo, NullPtr
      <4>3. r = [blocks |-> bs4, index |-> i + 1, ptr |-> r2.ptr]
        BY <1>2, <1>5, <2>3, <2>5, <3>4
      <4> HIDE DEF r2
      <4>4. /\ bs4 \in Seq(Block) /\ Len(bs4) = i + 2 /\ bs4[i + 2] = r2.block
            /\ \A k \in 1 .. Len(bs) : bs4[k] = bs2[k]
        <5>1. i + 2 \in 1 .. Len(bs3) /\ \A k \in 1 .. Len(bs) : k \in 1 .. Len(bs3) /\ k # i + 2
          BY <1>b, <3>1, <3>2
        <5> QED BY <3>2, <4>1, <5>1, ReplaceBlock
      <4> HIDE DEF bs4
      <4>5. ChainGrown(r, bs, c)
        <5>1. /\ r.blocks = bs4 /\ r.index = i + 1 /\ Len(bs4) = Len(bs) + 1
              /\ \A k \in 1 .. Len(bs4) : ~ k > i + 2
          BY <1>b, <3>1, <4>3, <4>4
        <5>2. \A k \in 1 .. Len(bs) : bs4[k].chunk = bs[k].chunk /\ bs4[k].offset >= bs[k].offset
          BY <2>b, <4>4
        <5>3. /\ bs4[Len(bs) + 1].chunk = c /\ bs4 \in Seq(Block)
              /\ i + 1 \in Nat /\ i + 1 <= Len(bs4)
          BY <1>b, <3>1, <4>1, <4>4, <5>1
        <5>4. \A k \in 1 .. Len(bs4) : bs4[k].chunk = 0 => k <= i + 1
          BY <1>b, <3>1, <3>4, <4>1, <4>4
        <5> QED BY <5>1, <5>2, <5>3, <5>4 DEF ChainGrown, Skipped
      <4>6. Carved(r, bs, size, i + 2)
        BY <1>a, <3>1, <3>4, <4>1, <4>3, <4>4 DEF Carved, PointerTo
      <4>7. i + 2 \in 1 .. Len(r.blocks) /\ r.ptr # NullPtr
        BY <4>2, <4>3, <4>4
      <4> QED BY <3>4, <4>5, <4>6, <4>7
    <3> QED BY <3>3, <3>4
  <2>6. CASE r1.ptr = NullPtr /\ i + 1 < Len(bs)
    <3> DEFINE bs4 == [bs3 EXCEPT ![i + 2] = r2.block]
    <3>1. /\ bs3 = bs2 /\ i + 2 \in 1 .. Len(bs) /\ bs3[i + 2] = bs[i + 2]
          /\ bs[i + 2] \in Block /\ bs[i + 2].chunk # 0 /\ bs[i + 2].offset = 0
      <4>1. i + 2 \in 1 .. Len(bs) /\ i + 2 > i + 1 /\ ~ Skipped(bs, i, i + 2)
        BY <1>5, <2>6 DEF Skipped
      <4> QED BY <1>3, <1>5, <2>3, <2>6, <4>1
    <3> HIDE DEF bs3
    <3>2. /\ r2.block \in Block /\ r2.block.chunk = bs[i + 2].chunk
          /\ r2.block.offset >= bs[i + 2].offset
          /\ r2.ptr = PointerTo(bs[i + 2].chunk, 0)
          /\ size <= r2.block.offset
      BY <3>1, BlockAllocateResult
    <3>3. r2.ptr # NullPtr
      BY <3>1, <3>2 DEF PointerTo, NullPtr
    <3>4. r = [blocks |-> bs4, index |-> i + 1, ptr |-> r2.ptr]
      BY <1>2, <1>5, <2>3, <2>6
    <3> HIDE DEF r2
    <3>5. /\ bs4 \in Seq(Block) /\ Len(bs4) = Len(bs) /\ bs4[i + 2] = r2.block
          /\ \A k \in 1 .. Len(bs) : k # i + 2 => bs4[k] = bs2[k]
      BY <2>3, <3>1, <3>2, ReplaceBlock
    <3> HIDE DEF bs4
    <3>6. ChainGrown(r, bs, c)
      <4>1. /\ r.blocks = bs4 /\ r.index = i + 1
            /\ i + 1 \in Nat /\ i + 1 <= Len(bs)
        BY <1>5, <3>4
      <4>2. \A k \in 1 .. Len(bs) : bs4[k].chunk = bs[k].chunk /\ bs4[k].offset >= bs[k].offset
        BY <2>b, <3>1, <3>2, <3>5
      <4>3. ASSUME NEW k \in 1 .. Len(bs), k > i + 2 PROVE bs4[k].offset = 0
        <5>1. k # i + 2 /\ k # i + 1 /\ k > i + 1
          BY <4>3
        <5> QED BY <2>3, <3>5, <5>1
      <4>4. ASSUME NEW k \in 1 .. Len(bs), bs4[k].chunk = 0 PROVE k <= i + 1
        <5>1. bs[k].chunk = 0
          BY <4>2, <4>4
        <5> QED BY <5>1 DEF Skipped
      <4> QED BY <1>b, <3>5, <4>1, <4>2, <4>3, <4>4 DEF ChainGrown, Skipped
    <3>7. Carved(r, bs, size, i + 2)
      BY <1>a, <3>1, <3>2, <3>4, <3>5 DEF Carved, PointerTo
    <3> QED BY <3>1, <3>3, <3>4, <3>5, <3>6, <3>7
  <2> QED BY <2>4, <2>5, <2>6
<1> QED BY <1>4, <1>5

-----------------------------------------------------------------------------
(* Threads and the chunks they own.                                        *)

\* Every object lies in a chunk of its thread.
LEMMA ObjectOwned ==
  ASSUME TATypeOK, NEW t \in Threads, ThreadOK(t), NEW o \in live[t]
  PROVE  o.ptr.chunk \in Owned(t)
<1>1. o.ptr.chunk # 0
  BY DEF TATypeOK, Objects, Pointer
<1>2. CASE active[t]
  BY <1>1, <1>2 DEF ThreadOK, Placed, InBlock, Owned, ArenaChunks, BlockChunks
<1>3. CASE ~ active[t]
  BY <1>3 DEF Owned
<1> QED BY <1>2, <1>3

\* A thread is as it was when its variables and its chunks are.
LEMMA ThreadFrame ==
  ASSUME TATypeOK, NEW u \in Threads, ThreadOK(u),
         active'[u] = active[u], blocks'[u] = blocks[u], huge'[u] = huge[u],
         index'[u] = index[u], live'[u] = live[u],
         \A d \in Owned(u) : heap'[d] = heap[d]
  PROVE  ThreadOK(u)' /\ Owned(u)' = Owned(u)
<1>1. Owned(u)' = Owned(u)
  BY DEF Owned, ArenaChunks, BlockChunks
<1>2. ASSUME NEW k \in DOMAIN blocks[u], blocks[u][k].chunk # 0
      PROVE  heap'[blocks[u][k].chunk] = heap[blocks[u][k].chunk]
  <2>1. active[u]
    BY <1>2 DEF ThreadOK, ChainOK, TATypeOK
  <2>2. blocks[u][k].chunk \in Owned(u)
    BY <1>2, <2>1 DEF Owned, ArenaChunks, BlockChunks
  <2> QED BY <2>2
<1>3. ChainOK(u)'
  BY <1>2 DEF ThreadOK, ChainOK
<1>4. ASSUME NEW o \in live[u] PROVE Placed(u, o)'
  <2>1. heap'[o.ptr.chunk] = heap[o.ptr.chunk] /\ Placed(u, o)
    BY ObjectOwned DEF ThreadOK
  <2> QED BY <2>1 DEF Placed, OwnChunk, InBlock
<1> QED BY <1>1, <1>3, <1>4 DEF ThreadOK

\* A step of a thread that touches only chunks it owns or malloc returned.
LEMMA ThreadStep ==
  ASSUME TAInv, NEW t \in Threads, TATypeOK', FailsOnlyWithoutMemory', ThreadOK(t)',
         \A u \in Threads \ {t} :
           /\ active'[u] = active[u] /\ blocks'[u] = blocks[u] /\ huge'[u] = huge[u]
           /\ index'[u] = index[u] /\ live'[u] = live[u] /\ outcome'[u] = outcome[u],
         \A d \in DOMAIN heap \ Owned(t) : heap'[d] = heap[d],
         DOMAIN heap' = (DOMAIN heap \ Owned(t)) \cup Owned(t)',
         Owned(t)' \cap (DOMAIN heap \ Owned(t)) = {}
  PROVE  TAInv'
<1>1. ASSUME NEW u \in Threads \ {t}
      PROVE  /\ ThreadOK(u)' /\ Owned(u)' = Owned(u)
             /\ Owned(u) \subseteq DOMAIN heap \ Owned(t)
  <2>1. Owned(u) \subseteq DOMAIN heap \ Owned(t)
    BY DEF TAInv, OwnerInv, NothingLeaks
  <2>2. \A d \in Owned(u) : heap'[d] = heap[d]
    BY <2>1
  <2>3. TATypeOK /\ ThreadOK(u)
    BY DEF TAInv
  <2> QED BY <2>1, <2>2, <2>3, ThreadFrame
<1>2. NothingLeaks'
  <2>1. ASSUME NEW d \in DOMAIN heap' PROVE \E u \in Threads : d \in Owned(u)'
    <3>1. CASE d \in Owned(t)'
      BY <3>1
    <3>2. CASE d \in DOMAIN heap \ Owned(t)
      <4>1. PICK u \in Threads : d \in Owned(u)
        BY <3>2 DEF TAInv, OwnerInv, NothingLeaks
      <4> QED BY <1>1, <3>2, <4>1
    <3> QED BY <3>1, <3>2
  <2>2. ASSUME NEW u \in Threads, NEW d \in Owned(u)' PROVE d \in DOMAIN heap'
    <3>1. CASE u = t
      BY <3>1, <2>2
    <3>2. CASE u # t
      BY <1>1, <3>2, <2>2
    <3> QED BY <3>1, <3>2
  <2> QED BY <2>1, <2>2 DEF NothingLeaks
<1>3. ASSUME NEW u \in Threads, NEW v \in Threads, u # v
      PROVE  Owned(u)' \cap Owned(v)' = {}
  <2>1. CASE u # t /\ v # t
    BY <1>1, <1>3, <2>1 DEF TAInv, OwnerInv
  <2>2. CASE u = t
    BY <1>1, <1>3, <2>2
  <2>3. CASE v = t
    BY <1>1, <1>3, <2>3
  <2> QED BY <2>1, <2>2, <2>3
<1> QED BY <1>1, <1>2, <1>3 DEF TAInv, OwnerInv

-----------------------------------------------------------------------------
(* The C heap.                                                             *)

LEMMA MallocResult ==
  ASSUME TATypeOK, NEW c \in MallocResults
  PROVE  c \in 0 .. MaxChunks /\ c \notin DOMAIN heap
BY TAConstants DEF TAConstants, TATypeOK, MallocResults, FreeChunks

LEMMA HeapWithChunk ==
  ASSUME TATypeOK, NEW c \in MallocResults, NEW size \in Nat,
         heap' = WithChunk(heap, c, size)
  PROVE  /\ DOMAIN heap' = DOMAIN heap \cup ({c} \ {0})
         /\ DOMAIN heap' \subseteq 1 .. MaxChunks
         /\ heap' \in [DOMAIN heap' -> Nat]
         /\ \A d \in DOMAIN heap : heap'[d] = heap[d]
         /\ c # 0 => heap'[c] = size
<1>1. c \in 0 .. MaxChunks /\ c \notin DOMAIN heap
  BY MallocResult
<1>2. DOMAIN heap' = DOMAIN heap \cup ({c} \ {0})
  BY DEF WithChunk
<1>3. \A d \in DOMAIN heap' : heap'[d] = IF d = c THEN size ELSE heap[d]
  BY DEF WithChunk
<1>4. heap' \in [DOMAIN heap' -> Nat]
  BY <1>2, <1>3 DEF WithChunk, TATypeOK
<1>5. DOMAIN heap' \subseteq 1 .. MaxChunks
  BY <1>1, <1>2, TAConstants DEF TATypeOK, TAConstants
<1>6. \A d \in DOMAIN heap : heap'[d] = heap[d]
  BY <1>1, <1>2, <1>3
<1>7. c # 0 => heap'[c] = size
  BY <1>2, <1>3
<1> QED BY <1>2, <1>4, <1>5, <1>6, <1>7

LEMMA HeapWithoutChunks ==
  ASSUME TATypeOK, NEW cs, heap' = WithoutChunks(heap, cs)
  PROVE  /\ DOMAIN heap' = DOMAIN heap \ cs
         /\ DOMAIN heap' \subseteq 1 .. MaxChunks
         /\ heap' \in [DOMAIN heap' -> Nat]
         /\ \A d \in DOMAIN heap' : heap'[d] = heap[d]
BY DEF WithoutChunks, TATypeOK

\* The object that malloc's chunk c becomes; none for the null pointer.
LEMMA NewObject ==
  ASSUME NEW c \in 0 .. MaxChunks, NEW size \in Sizes
  PROVE  /\ c = 0 => NewObjects(PointerTo(c, 0), size) = {}
         /\ c # 0 => NewObjects(PointerTo(c, 0), size) = {Object(PointerTo(c, 0), size)}
         /\ NewObjects(PointerTo(c, 0), size) \subseteq Objects
         /\ Outcome(PointerTo(c, 0), TRUE, c) = "fair"
<1>1. MaxChunks \in Nat /\ size \in Nat \ {0}
  BY TAConstants DEF TAConstants
<1>2. PointerTo(c, 0) = NullPtr <=> c = 0
  BY DEF PointerTo, NullPtr
<1>3. c # 0 => Object(PointerTo(c, 0), size) \in Objects
  BY <1>1 DEF Object, PointerTo, Objects, Pointer
<1> QED BY <1>2, <1>3 DEF NewObjects, Outcome

-----------------------------------------------------------------------------
(* The operations.                                                         *)

LEMMA MallocKeepsInv ==
  ASSUME TAInv, NEW t \in Threads, NEW size \in Sizes, AllocateMalloc(t, size)
  PROVE  TAInv'
<1>1. PICK c \in MallocResults :
        /\ heap' = WithChunk(heap, c, size)
        /\ outcome' = [outcome EXCEPT ![t] = Outcome(PointerTo(c, 0), TRUE, c)]
        /\ live' = [live EXCEPT ![t] = @ \cup NewObjects(PointerTo(c, 0), size)]
  BY DEF AllocateMalloc
<1> DEFINE ob == Object(PointerTo(c, 0), size)
<1>2. ~ active[t] /\ UNCHANGED <<active, blocks, huge, index>> /\ size \in Nat \ {0}
  BY TAConstants DEF AllocateMalloc, arenaVars, TAConstants
<1>3. TATypeOK /\ ThreadOK(t) /\ c \in 0 .. MaxChunks /\ c \notin DOMAIN heap
  BY MallocResult DEF TAInv
<1>4. /\ DOMAIN heap' = DOMAIN heap \cup ({c} \ {0}) /\ DOMAIN heap' \subseteq 1 .. MaxChunks
      /\ heap' \in [DOMAIN heap' -> Nat]
      /\ \A d \in DOMAIN heap : heap'[d] = heap[d]
      /\ c # 0 => heap'[c] = size
  BY <1>1, <1>2, <1>3, HeapWithChunk
<1>5. /\ live'[t] = live[t] \cup NewObjects(PointerTo(c, 0), size)
      /\ outcome'[t] = "fair"
      /\ \A u \in Threads \ {t} : live'[u] = live[u] /\ outcome'[u] = outcome[u]
  BY <1>1, <1>3, NewObject DEF TATypeOK
<1>6. TATypeOK' /\ FailsOnlyWithoutMemory'
  <2>1. live' \in [Threads -> SUBSET Objects]
    BY <1>1, <1>3, NewObject DEF TATypeOK
  <2>2. outcome' \in [Threads -> {"fair", "full"}]
    BY <1>1, <1>3, NewObject DEF TATypeOK
  <2>3. FailsOnlyWithoutMemory'
    BY <1>5 DEF FailsOnlyWithoutMemory, TAInv
  <2> QED BY <1>2, <1>3, <1>4, <2>1, <2>2, <2>3 DEF TATypeOK
<1>7. Owned(t) = {o.ptr.chunk : o \in live[t]} /\ Owned(t) \subseteq DOMAIN heap
  BY <1>2 DEF Owned, TAInv, OwnerInv, NothingLeaks
<1>8. ThreadOK(t)' /\ Owned(t)' = Owned(t) \cup ({c} \ {0})
  <2>1. CASE c = 0
    <3>1. live'[t] = live[t]
      BY <1>3, <1>5, <2>1, NewObject
    <3> QED BY <1>2, <1>3, <1>4, <1>5, <1>7, <2>1, <3>1, ThreadFrame
  <2>2. CASE c # 0
    <3>1. live'[t] = live[t] \cup {ob}
      BY <1>3, <1>5, <2>2, NewObject
    <3>2. ob.ptr.chunk = c /\ ob.ptr.offset = 0 /\ ob.size = size
      BY DEF Object, PointerTo
    <3> HIDE DEF ob
    <3>3. ChainOK(t)'
      BY <1>2, <1>3 DEF ThreadOK, ChainOK
    <3>4. \A o \in live'[t] : Placed(t, o)'
      <4>1. ASSUME NEW o \in live[t] PROVE Placed(t, o)'
        BY <1>2, <1>3, <1>4, <1>7 DEF ThreadOK, Placed, OwnChunk
      <4>2. Placed(t, ob)'
        BY <1>2, <1>4, <2>2, <3>2 DEF Placed, OwnChunk
      <4> QED BY <3>1, <4>1, <4>2
    <3>5. ASSUME NEW o \in live'[t], NEW p \in live'[t], o # p PROVE Apart(o, p)
      <4>1. \A q \in live[t] : q.ptr.chunk # c
        BY <1>3, <1>7
      <4> QED BY <1>3, <3>1, <3>2, <3>5, <4>1 DEF ThreadOK, Apart
    <3>6. Owned(t)' = Owned(t) \cup {c}
      BY <1>2, <1>7, <3>1, <3>2 DEF Owned
    <3> QED BY <2>2, <3>3, <3>4, <3>5, <3>6 DEF ThreadOK, Apart
  <2> QED BY <2>1, <2>2
<1>9. /\ \A d \in DOMAIN heap \ Owned(t) : heap'[d] = heap[d]
      /\ DOMAIN heap' = (DOMAIN heap \ Owned(t)) \cup Owned(t)'
      /\ Owned(t)' \cap (DOMAIN heap \ Owned(t)) = {}
  BY <1>3, <1>4, <1>7, <1>8
<1> QED BY <1>2, <1>5, <1>6, <1>8, <1>9, ThreadStep

LEMMA HugeKeepsInv ==
  ASSUME TAInv, NEW t \in Threads, NEW size \in Sizes, AllocateHuge(t, size)
  PROVE  TAInv'
<1>1. PICK c \in MallocResults :
        /\ heap' = WithChunk(heap, c, size)
        /\ huge' = [huge EXCEPT ![t] = @ \cup ({c} \ {0})]
        /\ outcome' = [outcome EXCEPT ![t] = Outcome(PointerTo(c, 0), TRUE, c)]
        /\ live' = [live EXCEPT ![t] = @ \cup NewObjects(PointerTo(c, 0), size)]
  BY DEF AllocateHuge
<1> DEFINE ob == Object(PointerTo(c, 0), size)
<1>2. active[t] /\ UNCHANGED <<active, blocks, index>> /\ size \in Nat \ {0}
  BY TAConstants DEF AllocateHuge, TAConstants
<1>3. TATypeOK /\ ThreadOK(t) /\ c \in 0 .. MaxChunks /\ c \notin DOMAIN heap
  BY MallocResult DEF TAInv
<1>4. /\ DOMAIN heap' = DOMAIN heap \cup ({c} \ {0}) /\ DOMAIN heap' \subseteq 1 .. MaxChunks
      /\ heap' \in [DOMAIN heap' -> Nat]
      /\ \A d \in DOMAIN heap : heap'[d] = heap[d]
      /\ c # 0 => heap'[c] = size
  BY <1>1, <1>2, <1>3, HeapWithChunk
<1>5. /\ live'[t] = live[t] \cup NewObjects(PointerTo(c, 0), size)
      /\ outcome'[t] = "fair"
      /\ huge'[t] = huge[t] \cup ({c} \ {0})
      /\ \A u \in Threads \ {t} :
           live'[u] = live[u] /\ outcome'[u] = outcome[u] /\ huge'[u] = huge[u]
  BY <1>1, <1>3, NewObject DEF TATypeOK
<1>6. TATypeOK' /\ FailsOnlyWithoutMemory'
  <2>1. live' \in [Threads -> SUBSET Objects]
    BY <1>1, <1>3, NewObject DEF TATypeOK
  <2>2. outcome' \in [Threads -> {"fair", "full"}]
    BY <1>1, <1>3, NewObject DEF TATypeOK
  <2>3. huge' \in [Threads -> SUBSET (1 .. MaxChunks)]
    <3>1. {c} \ {0} \subseteq 1 .. MaxChunks
      BY <1>3, TAConstants DEF TAConstants
    <3> QED BY <1>1, <1>3, <3>1 DEF TATypeOK
  <2>4. FailsOnlyWithoutMemory'
    BY <1>5 DEF FailsOnlyWithoutMemory, TAInv
  <2> QED BY <1>2, <1>3, <1>4, <2>1, <2>2, <2>3, <2>4 DEF TATypeOK
<1>7. Owned(t) \subseteq DOMAIN heap
  BY DEF TAInv, OwnerInv, NothingLeaks
<1>8. Owned(t)' = Owned(t) \cup ({c} \ {0})
  BY <1>2, <1>5 DEF Owned, ArenaChunks, BlockChunks
<1>9. ThreadOK(t)'
  <2>1. CASE c = 0
    <3>1. live'[t] = live[t] /\ huge'[t] = huge[t]
      BY <1>3, <1>5, <2>1, NewObject
    <3> QED BY <1>2, <1>3, <1>4, <1>5, <1>7, <2>1, <3>1, ThreadFrame
  <2>2. CASE c # 0
    <3>1. live'[t] = live[t] \cup {ob}
      BY <1>3, <1>5, <2>2, NewObject
    <3>2. ob.ptr.chunk = c /\ ob.ptr.offset = 0 /\ ob.size = size
      BY DEF Object, PointerTo
    <3> HIDE DEF ob
    <3>3. \A o \in live[t] : o.ptr.chunk # c /\ heap'[o.ptr.chunk] = heap[o.ptr.chunk]
      BY <1>3, <1>4, <1>7, ObjectOwned
    <3>4. ChainOK(t)'
      <4>1. ASSUME NEW k \in DOMAIN blocks[t]
            PROVE  /\ blocks[t][k].chunk \notin huge'[t]
                   /\ blocks[t][k].chunk # 0 => heap'[blocks[t][k].chunk] = BlockSize
        <5>1. blocks[t][k].chunk # 0 => blocks[t][k].chunk \in Owned(t)
          BY <1>2 DEF Owned, ArenaChunks, BlockChunks
        <5> QED BY <1>3, <1>4, <1>5, <1>7, <2>2, <5>1 DEF ThreadOK, ChainOK
      <4> QED BY <1>2, <1>3, <4>1 DEF ThreadOK, ChainOK
    <3>5. \A o \in live'[t] : Placed(t, o)'
      <4>1. ASSUME NEW o \in live[t] PROVE Placed(t, o)'
        BY <1>2, <1>3, <1>5, <3>3 DEF ThreadOK, Placed, OwnChunk, InBlock
      <4>2. Placed(t, ob)'
        BY <1>2, <1>4, <1>5, <2>2, <3>2 DEF Placed, OwnChunk
      <4> QED BY <3>1, <4>1, <4>2
    <3>6. ASSUME NEW o \in live'[t], NEW p \in live'[t], o # p PROVE Apart(o, p)
      BY <1>3, <3>1, <3>2, <3>3, <3>6 DEF ThreadOK, Apart
    <3> QED BY <3>4, <3>5, <3>6 DEF ThreadOK, Apart
  <2> QED BY <2>1, <2>2
<1>10. /\ \A d \in DOMAIN heap \ Owned(t) : heap'[d] = heap[d]
       /\ DOMAIN heap' = (DOMAIN heap \ Owned(t)) \cup Owned(t)'
       /\ Owned(t)' \cap (DOMAIN heap \ Owned(t)) = {}
  BY <1>3, <1>4, <1>7, <1>8
<1> QED BY <1>2, <1>5, <1>6, <1>9, <1>10, ThreadStep

LEMMA SmallKeepsInv ==
  ASSUME TAInv, NEW t \in Threads, NEW size \in Sizes, AllocateSmall(t, size)
  PROVE  TAInv'
<1>1. PICK c, r :
        /\ c \in 0 .. MaxChunks
        /\ r = ChainAllocate(blocks[t], index[t], size, c)
        /\ Len(r.blocks) > Len(blocks[t]) => c \in MallocResults
        /\ heap' = IF Len(r.blocks) > Len(blocks[t]) THEN WithChunk(heap, c, BlockSize)
                                                     ELSE heap
        /\ blocks' = [blocks EXCEPT ![t] = r.blocks]
        /\ index' = [index EXCEPT ![t] = r.index]
        /\ outcome' = [outcome EXCEPT ![t] =
                         Outcome(r.ptr, Len(r.blocks) > Len(blocks[t]), c)]
        /\ live' = [live EXCEPT ![t] = @ \cup NewObjects(r.ptr, size)]
  BY DEF AllocateSmall
<1> DEFINE bs    == blocks[t]
           grows == Len(r.blocks) > Len(bs)
<1>2. /\ active[t] /\ size <= BlockSize /\ UNCHANGED <<active, huge>>
      /\ size \in Nat \ {0} /\ BlockSize \in Nat /\ MaxChunks \in Nat
  BY TAConstants DEF AllocateSmall, TAConstants
<1>3. /\ TATypeOK /\ ThreadOK(t) /\ bs \in Seq(Block) /\ index[t] \in Nat
      /\ index[t] <= Len(bs) /\ Len(bs) \in Nat
  BY DEF TAInv, TATypeOK
<1>4. DOMAIN bs = 1 .. Len(bs) /\ \A k \in 1 .. Len(bs) : bs[k] \in Block
  BY <1>3
<1>5. /\ ChainGrown(r, bs, c)
      /\ \/ r.ptr = NullPtr /\ grows /\ c = 0
         \/ /\ r.ptr # NullPtr /\ (grows => c # 0)
            /\ \E k \in 1 .. Len(r.blocks) : Carved(r, bs, size, k)
  <2>1. \A k \in 1 .. Len(bs) : /\ k > index[t] + 1 => bs[k].offset = 0
                                /\ bs[k].chunk = 0 => Skipped(bs, index[t], k)
    BY <1>3, <1>4 DEF ThreadOK, ChainOK
  <2> QED BY <1>1, <1>2, <1>3, <2>1, ChainAllocateResult
<1> DEFINE added == IF grows THEN {c} \ {0} ELSE {}
<1>6. /\ DOMAIN heap' = DOMAIN heap \cup added /\ DOMAIN heap' \subseteq 1 .. MaxChunks
      /\ heap' \in [DOMAIN heap' -> Nat]
      /\ \A d \in DOMAIN heap : heap'[d] = heap[d]
      /\ \A d \in added : heap'[d] = BlockSize /\ d \notin DOMAIN heap
  <2>1. CASE grows
    BY <1>1, <1>2, <1>3, <2>1, HeapWithChunk, MallocResult
  <2>2. CASE ~ grows
    BY <1>1, <1>3, <2>2 DEF TATypeOK
  <2> QED BY <2>1, <2>2
<1>7. /\ blocks'[t] = r.blocks /\ index'[t] = r.index
      /\ live'[t] = live[t] \cup NewObjects(r.ptr, size)
      /\ outcome'[t] = Outcome(r.ptr, grows, c)
      /\ \A u \in Threads \ {t} : /\ blocks'[u] = blocks[u] /\ index'[u] = index[u]
                                  /\ live'[u] = live[u] /\ outcome'[u] = outcome[u]
  BY <1>1, <1>3 DEF TATypeOK
<1>8. outcome'[t] = "fair"
  BY <1>5, <1>7 DEF Outcome
<1> HIDE DEF bs, grows
<1>9. /\ r.blocks \in Seq(Block) /\ DOMAIN r.blocks = 1 .. Len(r.blocks)
      /\ \A k \in 1 .. Len(bs) : k \in 1 .. Len(r.blocks)
      /\ \A k \in 1 .. Len(r.blocks) :
           /\ r.blocks[k] \in Block
           /\ \/ k \in 1 .. Len(bs) /\ r.blocks[k].chunk = bs[k].chunk
              \/ grows /\ k = Len(bs) + 1 /\ r.blocks[k].chunk = c
  BY <1>3, <1>5 DEF ChainGrown, grows
<1>10. /\ Owned(t) \subseteq DOMAIN heap
       /\ \A k \in 1 .. Len(bs) : bs[k].chunk # 0 => bs[k].chunk \in Owned(t)
  BY <1>2, <1>4 DEF TAInv, OwnerInv, NothingLeaks, Owned, ArenaChunks, BlockChunks, bs
<1>11. Owned(t)' = Owned(t) \cup added
  <2>1. Owned(t)' = ({r.blocks[k].chunk : k \in DOMAIN r.blocks} \cup huge[t]) \ {0}
    BY <1>2, <1>7 DEF Owned, ArenaChunks, BlockChunks
  <2>2. Owned(t) = ({bs[k].chunk : k \in DOMAIN bs} \cup huge[t]) \ {0}
    BY <1>2 DEF Owned, ArenaChunks, BlockChunks, bs
  <2>3. \A k \in 1 .. Len(bs) : r.blocks[k].chunk = bs[k].chunk
    BY <1>5 DEF ChainGrown
  <2>4. grows => Len(bs) + 1 \in 1 .. Len(r.blocks) /\ r.blocks[Len(bs) + 1].chunk = c
    BY <1>3, <1>5 DEF ChainGrown, grows
  <2> QED BY <1>4, <1>9, <2>1, <2>2, <2>3, <2>4
<1>12. ASSUME r.ptr # NullPtr
       PROVE  \E k \in 1 .. Len(r.blocks) :
                Carved(r, bs, size, k) /\ r.ptr \in Pointer /\ r.ptr.chunk \in Owned(t)'
  <2>1. PICK k \in 1 .. Len(r.blocks) : Carved(r, bs, size, k)
    BY <1>5, <1>12
  <2>2. r.blocks[k].chunk \in 1 .. MaxChunks
    <3>1. r.blocks[k].chunk \in 0 .. MaxChunks
      BY <1>9 DEF Block
    <3>2. r.blocks[k].chunk # 0
      BY <2>1 DEF Carved
    <3> QED BY <1>2, <3>1, <3>2
  <2>3. r.ptr \in Pointer
    BY <2>1, <2>2 DEF Carved, Pointer, PointerTo
  <2>4. r.ptr.chunk \in Owned(t)'
    <3>1. Owned(t)' = ({r.blocks[j].chunk : j \in DOMAIN r.blocks} \cup huge[t]) \ {0}
      BY <1>2, <1>7 DEF Owned, ArenaChunks, BlockChunks
    <3>2. k \in DOMAIN r.blocks /\ r.ptr.chunk = r.blocks[k].chunk /\ r.blocks[k].chunk # 0
      BY <1>9, <2>1, <2>2 DEF Carved
    <3> QED BY <3>1, <3>2
  <2> QED BY <2>1, <2>3, <2>4
<1>13. TATypeOK' /\ FailsOnlyWithoutMemory'
  <2>1. NewObjects(r.ptr, size) \subseteq Objects
    BY <1>2, <1>12 DEF NewObjects, Object, Objects
  <2>2. live' \in [Threads -> SUBSET Objects]
    BY <1>1, <1>3, <2>1 DEF TATypeOK
  <2>3. outcome' \in [Threads -> {"fair", "full"}] /\ FailsOnlyWithoutMemory'
    BY <1>1, <1>3, <1>7, <1>8 DEF TATypeOK, FailsOnlyWithoutMemory, TAInv
  <2>4. blocks' \in [Threads -> Seq(Block)]
    BY <1>1, <1>3, <1>9 DEF TATypeOK
  <2>5. index' \in [Threads -> Nat] /\ \A u \in Threads : index'[u] <= Len(blocks'[u])
    BY <1>1, <1>3, <1>5, <1>7 DEF TATypeOK, ChainGrown
  <2> QED BY <1>2, <1>3, <1>6, <2>2, <2>3, <2>4, <2>5 DEF TATypeOK
<1>14. ChainOK(t)'
  <2>1. \A k \in 1 .. Len(bs) :
          /\ bs[k].chunk \notin huge[t]
          /\ bs[k].chunk # 0 =>
               /\ heap[bs[k].chunk] = BlockSize
               /\ \A l \in 1 .. Len(bs) : bs[k].chunk = bs[l].chunk => k = l
    BY <1>3, <1>4 DEF ThreadOK, ChainOK, bs
  <2>2. \A k \in DOMAIN r.blocks :
          /\ k > r.index + 1 => r.blocks[k].offset = 0
          /\ r.blocks[k].chunk = 0 => Skipped(r.blocks, r.index, k)
    BY <1>5, <1>9 DEF ChainGrown
  <2>3. grows /\ c # 0 => c \notin Owned(t) /\ c \in added
    BY <1>6, <1>10
  <2>4. grows /\ c # 0 => c \notin huge[t]
    BY <1>2, <2>3 DEF Owned, ArenaChunks
  <2>5. 0 \notin huge[t]
    BY <1>3 DEF TATypeOK
  <2>6. /\ grows => c \notin huge[t]
        /\ grows /\ c # 0 => \A k \in 1 .. Len(bs) : bs[k].chunk # c
    BY <1>10, <2>3, <2>4, <2>5
  <2>7. \A k, l \in DOMAIN r.blocks :
          r.blocks[k].chunk = r.blocks[l].chunk /\ r.blocks[k].chunk # 0 => k = l
    BY <1>9, <2>1, <2>6
  <2>8. ASSUME NEW k \in DOMAIN r.blocks
        PROVE  /\ r.blocks[k].chunk \notin huge[t]
               /\ r.blocks[k].chunk # 0 => heap'[r.blocks[k].chunk] = BlockSize
    <3>1. CASE k \in 1 .. Len(bs) /\ r.blocks[k].chunk = bs[k].chunk
      BY <1>4, <1>6, <1>10, <2>1, <3>1
    <3>2. CASE grows /\ k = Len(bs) + 1 /\ r.blocks[k].chunk = c
      BY <1>5, <1>6, <1>8, <2>3, <2>6, <3>2
    <3> QED BY <1>9, <3>1, <3>2
  <2> QED BY <1>2, <1>7, <2>2, <2>7, <2>8 DEF ChainOK
<1>15. ASSUME NEW o \in live[t] PROVE Placed(t, o)'
  <2>1. Placed(t, o) /\ heap'[o.ptr.chunk] = heap[o.ptr.chunk]
    BY <1>3, <1>6, <1>10, ObjectOwned DEF ThreadOK
  <2>2. CASE o.ptr.chunk \in huge[t] /\ OwnChunk(o)
    BY <1>2, <2>1, <2>2 DEF Placed, OwnChunk
  <2>3. CASE InBlock(t, o)
    <3>1. PICK k \in 1 .. Len(bs) :
            /\ o.ptr.chunk = bs[k].chunk /\ o.ptr.offset + o.size <= bs[k].offset
            /\ o.ptr.offset % Alignment = 0
      BY <1>4, <2>3 DEF InBlock, bs
    <3>2. /\ r.blocks[k].chunk = bs[k].chunk /\ r.blocks[k].offset >= bs[k].offset
          /\ k \in DOMAIN r.blocks
      BY <1>5, <1>9 DEF ChainGrown
    <3>3. /\ o.ptr.offset \in Int /\ o.size \in Int
          /\ bs[k].offset \in Int /\ r.blocks[k].offset \in Int
      <4>1. \A b \in Block : b.offset \in Int
        BY <1>2 DEF Block
      <4>2. o.ptr.offset \in Int /\ o.size \in Int
        BY <1>3 DEF TATypeOK, Objects, Pointer
      <4> QED BY <1>4, <1>9, <3>2, <4>1, <4>2
    <3>4. o.ptr.offset + o.size <= r.blocks[k].offset
      BY <3>1, <3>2, <3>3
    <3> QED BY <1>2, <1>7, <3>1, <3>2, <3>4 DEF Placed, InBlock
  <2> QED BY <1>2, <2>1, <2>2, <2>3 DEF Placed
<1>16. ThreadOK(t)'
  <2>1. CASE r.ptr = NullPtr
    <3>1. live'[t] = live[t]
      BY <1>7, <2>1 DEF NewObjects
    <3> QED BY <1>3, <1>14, <1>15, <3>1 DEF ThreadOK, Apart
  <2>2. CASE r.ptr # NullPtr
    <3> DEFINE ob == Object(r.ptr, size)
    <3>1. live'[t] = live[t] \cup {ob} /\ ob.ptr = r.ptr /\ ob.size = size
      BY <1>7, <2>2 DEF NewObjects, Object
    <3> HIDE DEF ob
    <3>2. PICK k \in 1 .. Len(r.blocks) : Carved(r, bs, size, k)
      BY <1>5, <2>2
    <3>3. Placed(t, ob)'
      <4>1. /\ ob.ptr.chunk = r.blocks[k].chunk /\ ob.ptr.offset % Alignment = 0
            /\ ob.ptr.offset + ob.size <= r.blocks[k].offset
        BY <3>1, <3>2 DEF Carved
      <4>2. InBlock(t, ob)'
        <5>1. k \in DOMAIN (blocks'[t]) /\ blocks'[t][k] = r.blocks[k]
          BY <1>7, <1>9
        <5> QED BY <4>1, <5>1 DEF InBlock
      <4> QED BY <1>2, <4>2 DEF Placed
    <3>4. ASSUME NEW o \in live[t] PROVE Apart(o, ob) /\ Apart(ob, o)
      <4>1. CASE o.ptr.chunk # ob.ptr.chunk
        BY <4>1 DEF Apart
      <4>2. CASE o.ptr.chunk = ob.ptr.chunk
        <5>1. o.ptr.chunk \in Owned(t) /\ Placed(t, o)
          BY <1>3, ObjectOwned DEF ThreadOK
        <5>2. ~ (grows /\ k = Len(bs) + 1)
          BY <1>5, <1>6, <1>9, <1>10, <2>2, <3>1, <3>2, <4>2, <5>1 DEF Carved
        <5>3. k \in 1 .. Len(bs) /\ o.ptr.chunk = bs[k].chunk
          BY <1>9, <3>1, <3>2, <4>2, <5>2 DEF Carved
        <5>4. InBlock(t, o)
          BY <1>2, <1>3, <1>4, <5>1, <5>3 DEF Placed, ThreadOK, ChainOK, bs
        <5>5. o.ptr.offset + o.size <= bs[k].offset
          <6>1. bs[k].chunk # 0 /\ k \in DOMAIN bs
            BY <1>4, <3>1, <3>2, <4>2, <5>3 DEF Carved
          <6>2. PICK l \in DOMAIN bs : /\ o.ptr.chunk = bs[l].chunk
                                      /\ o.ptr.offset + o.size <= bs[l].offset
            BY <5>4 DEF InBlock, bs
          <6>3. l = k
            BY <1>3, <5>3, <6>1, <6>2 DEF ThreadOK, ChainOK, bs
          <6> QED BY <6>2, <6>3
        <5>6. bs[k].offset <= ob.ptr.offset
          BY <3>1, <3>2, <5>3 DEF Carved
        <5>7. /\ o.ptr.offset \in Int /\ o.size \in Int /\ bs[k].offset \in Int
              /\ ob.ptr.offset \in Int
          BY <1>3, <1>4, <3>1, <3>2, <5>3 DEF TATypeOK, Objects, Pointer, Block, Carved
        <5> QED BY <5>5, <5>6, <5>7 DEF Apart
      <4> QED BY <4>1, <4>2
    <3> QED BY <1>3, <1>14, <1>15, <3>1, <3>3, <3>4 DEF ThreadOK, Apart
  <2> QED BY <2>1, <2>2
<1>17. /\ \A d \in DOMAIN heap \ Owned(t) : heap'[d] = heap[d]
       /\ DOMAIN heap' = (DOMAIN heap \ Owned(t)) \cup Owned(t)'
       /\ Owned(t)' \cap (DOMAIN heap \ Owned(t)) = {}
  BY <1>6, <1>10, <1>11
<1> QED BY <1>2, <1>7, <1>13, <1>16, <1>17, ThreadStep

LEMMA FreeKeepsInv ==
  ASSUME TAInv, NEW t \in Threads, NEW o \in live[t], FreeInThread(t, o)
  PROVE  TAInv'
<1>1. /\ live' = [live EXCEPT ![t] = @ \ {o}]
      /\ heap' = IF active[t] THEN heap ELSE WithoutChunks(heap, {o.ptr.chunk})
      /\ UNCHANGED <<active, blocks, huge, index, outcome>>
  BY DEF FreeInThread, arenaVars
<1>2. TATypeOK /\ ThreadOK(t)
  BY DEF TAInv
<1>3. live'[t] = live[t] \ {o} /\ \A u \in Threads \ {t} : live'[u] = live[u]
  BY <1>1, <1>2 DEF TATypeOK
<1>4. Owned(t) \subseteq DOMAIN heap
  BY DEF TAInv, OwnerInv, NothingLeaks
<1>5. CASE active[t]
  <2>1. heap' = heap
    BY <1>1, <1>5
  <2>2. TATypeOK' /\ FailsOnlyWithoutMemory'
    BY <1>1, <1>2, <2>1 DEF TATypeOK, FailsOnlyWithoutMemory, TAInv
  <2>3. Owned(t)' = Owned(t)
    BY <1>1, <1>5 DEF Owned, ArenaChunks, BlockChunks
  <2>4. ChainOK(t)'
    BY <1>1, <1>2, <2>1 DEF ThreadOK, ChainOK
  <2>5. \A p \in live'[t] : Placed(t, p)'
    BY <1>1, <1>2, <1>3, <2>1 DEF ThreadOK, Placed, OwnChunk, InBlock
  <2>6. ThreadOK(t)'
    BY <1>2, <1>3, <2>4, <2>5 DEF ThreadOK, Apart
  <2> QED BY <1>1, <1>3, <1>4, <2>1, <2>2, <2>3, <2>6, ThreadStep
<1>6. CASE ~ active[t]
  <2>1. /\ DOMAIN heap' = DOMAIN heap \ {o.ptr.chunk} /\ DOMAIN heap' \subseteq 1 .. MaxChunks
        /\ heap' \in [DOMAIN heap' -> Nat] /\ \A d \in DOMAIN heap' : heap'[d] = heap[d]
    BY <1>1, <1>2, <1>6, HeapWithoutChunks
  <2>2. TATypeOK' /\ FailsOnlyWithoutMemory'
    <3>1. live' \in [Threads -> SUBSET Objects]
      BY <1>1, <1>2 DEF TATypeOK
    <3> QED BY <1>1, <1>2, <2>1, <3>1 DEF TATypeOK, FailsOnlyWithoutMemory, TAInv
  <2>3. ASSUME NEW p \in live[t], p # o PROVE p.ptr.chunk # o.ptr.chunk
    <3>1. OwnChunk(p) /\ OwnChunk(o) /\ Apart(p, o)
      BY <1>2, <1>6, <2>3 DEF ThreadOK, Placed
    <3>2. p.size \in Nat \ {0} /\ o.size \in Nat \ {0}
      BY <1>2 DEF TATypeOK, Objects
    <3> QED BY <3>1, <3>2 DEF OwnChunk, Apart
  <2>4. /\ Owned(t) = {p.ptr.chunk : p \in live[t]}
        /\ Owned(t)' = {p.ptr.chunk : p \in live'[t]}
    BY <1>1, <1>6 DEF Owned
  <2>5. Owned(t)' = Owned(t) \ {o.ptr.chunk}
    BY <1>3, <2>3, <2>4
  <2>6. ChainOK(t)'
    BY <1>1, <1>2, <1>6 DEF ThreadOK, ChainOK
  <2>7. ASSUME NEW p \in live'[t] PROVE Placed(t, p)'
    <3>1. p \in live[t] /\ p.ptr.chunk \in DOMAIN heap'
      BY <1>3, <1>4, <2>1, <2>3, <2>4
    <3> QED BY <1>1, <1>2, <1>6, <2>1, <3>1 DEF ThreadOK, Placed, OwnChunk
  <2>8. ThreadOK(t)'
    BY <1>2, <1>3, <2>6, <2>7 DEF ThreadOK, Apart
  <2>9. /\ \A d \in DOMAIN heap \ Owned(t) : heap'[d] = heap[d]
        /\ DOMAIN heap' = (DOMAIN heap \ Owned(t)) \cup Owned(t)'
        /\ Owned(t)' \cap (DOMAIN heap \ Owned(t)) = {}
        /\ o.ptr.chunk \in Owned(t)
    BY <1>4, <2>1, <2>4, <2>5
  <2> QED BY <1>1, <1>3, <2>2, <2>8, <2>9, ThreadStep
<1> QED BY <1>5, <1>6

LEMMA BeginKeepsInv ==
  ASSUME TAInv, NEW t \in Threads, BeginContext(t)
  PROVE  TAInv'
<1>1. /\ ~ active[t] /\ live[t] = {} /\ active' = [active EXCEPT ![t] = TRUE]
      /\ UNCHANGED <<heap, blocks, huge, index, live, outcome>>
  BY DEF BeginContext
<1>2. TATypeOK /\ ThreadOK(t)
  BY DEF TAInv
<1>3. active'[t] /\ \A u \in Threads \ {t} : active'[u] = active[u]
  BY <1>1, <1>2 DEF TATypeOK
<1>4. TATypeOK' /\ FailsOnlyWithoutMemory'
  BY <1>1, <1>2 DEF TATypeOK, FailsOnlyWithoutMemory, TAInv
<1>5. Owned(t) = {} /\ Owned(t)' = {}
  BY <1>1, <1>2, <1>3 DEF Owned, ArenaChunks, BlockChunks, ThreadOK, ChainOK
<1>6. ThreadOK(t)'
  BY <1>1, <1>2, <1>3 DEF ThreadOK, ChainOK
<1> QED BY <1>1, <1>3, <1>4, <1>5, <1>6, ThreadStep

LEMMA EndKeepsInv ==
  ASSUME TAInv, NEW t \in Threads, EndContext(t)
  PROVE  TAInv'
<1>1. /\ active[t] /\ live[t] = {} /\ heap' = WithoutChunks(heap, ArenaChunks(t))
      /\ active' = [active EXCEPT ![t] = FALSE] /\ blocks' = [blocks EXCEPT ![t] = << >>]
      /\ huge' = [huge EXCEPT ![t] = {}] /\ index' = [index EXCEPT ![t] = 0]
      /\ UNCHANGED <<live, outcome>>
  BY DEF EndContext
<1>2. TATypeOK /\ ThreadOK(t)
  BY DEF TAInv
<1>3. /\ ~ active'[t] /\ blocks'[t] = << >> /\ huge'[t] = {} /\ index'[t] = 0
      /\ \A u \in Threads \ {t} : /\ active'[u] = active[u] /\ blocks'[u] = blocks[u]
                                  /\ huge'[u] = huge[u] /\ index'[u] = index[u]
  BY <1>1, <1>2 DEF TATypeOK
<1>4. /\ DOMAIN heap' = DOMAIN heap \ ArenaChunks(t) /\ DOMAIN heap' \subseteq 1 .. MaxChunks
      /\ heap' \in [DOMAIN heap' -> Nat] /\ \A d \in DOMAIN heap' : heap'[d] = heap[d]
  BY <1>1, <1>2, HeapWithoutChunks
<1>5. TATypeOK' /\ FailsOnlyWithoutMemory'
  <2>1. /\ active' \in [Threads -> BOOLEAN] /\ blocks' \in [Threads -> Seq(Block)]
        /\ huge' \in [Threads -> SUBSET (1 .. MaxChunks)] /\ index' \in [Threads -> Nat]
    BY <1>1, <1>2 DEF TATypeOK
  <2>2. \A u \in Threads : index'[u] <= Len(blocks'[u])
    <3>1. index'[t] <= Len(blocks'[t])
      BY <1>3
    <3>2. ASSUME NEW u \in Threads \ {t} PROVE index'[u] <= Len(blocks'[u])
      BY <1>2, <1>3 DEF TATypeOK
    <3> QED BY <3>1, <3>2
  <2> QED BY <1>1, <1>2, <1>4, <2>1, <2>2 DEF TATypeOK, FailsOnlyWithoutMemory, TAInv
<1>6. Owned(t) = ArenaChunks(t) \ {0} /\ Owned(t)' = {} /\ 0 \notin DOMAIN heap
  BY <1>1, <1>2, <1>3 DEF Owned, TATypeOK
<1>7. ThreadOK(t)'
  BY <1>1, <1>3 DEF ThreadOK, ChainOK
<1>8. DOMAIN heap' = DOMAIN heap \ Owned(t)
  BY <1>4, <1>6
<1> QED BY <1>1, <1>3, <1>4, <1>5, <1>6, <1>7, <1>8, ThreadStep

LEMMA ResetKeepsInv ==
  ASSUME ~ ResetsAfterFailure, TAInv, NEW t \in Threads, ResetContext(t)
  PROVE  TAInv'
<1>0. 0 \notin BlockChunks(t)
  BY DEF ResetContext
<1>1. /\ active[t] /\ live[t] = {} /\ heap' = WithoutChunks(heap, huge[t])
      /\ blocks' = [blocks EXCEPT ![t] = Rewind(t)]
      /\ huge' = [huge EXCEPT ![t] = {}] /\ index' = [index EXCEPT ![t] = 0]
      /\ UNCHANGED <<active, live, outcome>>
  BY DEF ResetContext
<1>2. TATypeOK /\ ThreadOK(t) /\ blocks[t] \in Seq(Block)
  BY DEF TAInv, TATypeOK
<1>3. /\ blocks'[t] = Rewind(t) /\ huge'[t] = {} /\ index'[t] = 0
      /\ \A u \in Threads \ {t} : /\ blocks'[u] = blocks[u] /\ huge'[u] = huge[u]
                                  /\ index'[u] = index[u]
  BY <1>1, <1>2 DEF TATypeOK
<1>4. /\ DOMAIN heap' = DOMAIN heap \ huge[t] /\ DOMAIN heap' \subseteq 1 .. MaxChunks
      /\ heap' \in [DOMAIN heap' -> Nat] /\ \A d \in DOMAIN heap' : heap'[d] = heap[d]
  BY <1>1, <1>2, HeapWithoutChunks
<1>5. /\ Rewind(t) \in Seq(Block) /\ DOMAIN Rewind(t) = DOMAIN blocks[t]
      /\ \A k \in DOMAIN blocks[t] :
           Rewind(t)[k].chunk = blocks[t][k].chunk /\ Rewind(t)[k].offset = 0
  <2>1. DOMAIN blocks[t] = 1 .. Len(blocks[t]) /\ Len(blocks[t]) \in Nat
    BY <1>2
  <2>2. ASSUME NEW k \in DOMAIN blocks[t]
        PROVE  /\ [blocks[t][k] EXCEPT !.offset = 0] \in Block
               /\ [blocks[t][k] EXCEPT !.offset = 0].chunk = blocks[t][k].chunk
               /\ [blocks[t][k] EXCEPT !.offset = 0].offset = 0
    <3>1. blocks[t][k] \in Block
      BY <1>2, <2>1
    <3> QED BY <3>1, TAConstants DEF Block, TAConstants
  <2> QED BY <2>1, <2>2 DEF Rewind
<1>6. TATypeOK' /\ FailsOnlyWithoutMemory'
  <2>1. /\ blocks' \in [Threads -> Seq(Block)]
        /\ huge' \in [Threads -> SUBSET (1 .. MaxChunks)] /\ index' \in [Threads -> Nat]
    BY <1>1, <1>2, <1>5 DEF TATypeOK
  <2>2. \A u \in Threads : index'[u] <= Len(blocks'[u])
    <3>1. index'[t] <= Len(blocks'[t])
      BY <1>3, <1>5
    <3>2. ASSUME NEW u \in Threads \ {t} PROVE index'[u] <= Len(blocks'[u])
      BY <1>2, <1>3 DEF TATypeOK
    <3> QED BY <3>1, <3>2
  <2> QED BY <1>1, <1>2, <1>4, <2>1, <2>2 DEF TATypeOK, FailsOnlyWithoutMemory, TAInv
<1>7. /\ \A k \in DOMAIN blocks[t] : blocks[t][k].chunk \notin huge[t]
      /\ Owned(t) = ({blocks[t][k].chunk : k \in DOMAIN blocks[t]} \cup huge[t]) \ {0}
      /\ Owned(t) \subseteq DOMAIN heap /\ 0 \notin huge[t]
  BY <1>1, <1>2 DEF ThreadOK, ChainOK, Owned, ArenaChunks, BlockChunks, TAInv, OwnerInv,
     NothingLeaks, TATypeOK
<1>8. Owned(t)' = {blocks[t][k].chunk : k \in DOMAIN blocks[t]} \ {0}
  BY <1>1, <1>3, <1>5 DEF Owned, ArenaChunks, BlockChunks
<1>9. Owned(t)' = Owned(t) \ huge[t]
  BY <1>7, <1>8
<1>10. ThreadOK(t)'
  <2>1. \A k \in DOMAIN blocks[t] : blocks[t][k].chunk # 0 =>
          heap'[blocks[t][k].chunk] = BlockSize
    BY <1>2, <1>4, <1>7 DEF ThreadOK, ChainOK
  <2>2. \A k \in DOMAIN blocks[t] : blocks[t][k].chunk # 0
    BY <1>0 DEF BlockChunks
  <2> QED BY <1>1, <1>2, <1>3, <1>5, <2>1, <2>2 DEF ThreadOK, ChainOK
<1>11. /\ \A d \in DOMAIN heap \ Owned(t) : heap'[d] = heap[d]
       /\ DOMAIN heap' = (DOMAIN heap \ Owned(t)) \cup Owned(t)'
       /\ Owned(t)' \cap (DOMAIN heap \ Owned(t)) = {}
  BY <1>4, <1>7, <1>9
<1> QED BY <1>1, <1>3, <1>6, <1>10, <1>11, ThreadStep

-----------------------------------------------------------------------------
(* The theorem.                                                            *)

LEMMA TAInvInit == TAInit => TAInv
<1> SUFFICES ASSUME TAInit PROVE TAInv
  OBVIOUS
<1>1. DOMAIN heap = {} /\ heap \in [DOMAIN heap -> Nat]
  BY DEF TAInit
<1>2. \A t \in Threads : /\ ~ active[t] /\ blocks[t] = << >> /\ huge[t] = {}
                         /\ index[t] = 0 /\ live[t] = {} /\ outcome[t] = "fair"
  BY DEF TAInit
<1>3. TATypeOK
  BY <1>1, <1>2 DEF TAInit, TATypeOK
<1>4. \A t \in Threads : Owned(t) = {}
  BY <1>2 DEF Owned
<1>5. OwnerInv
  BY <1>1, <1>4 DEF OwnerInv, NothingLeaks
<1>6. \A t \in Threads : ThreadOK(t)
  BY <1>2 DEF ThreadOK, ChainOK
<1> QED BY <1>2, <1>3, <1>5, <1>6 DEF TAInv, FailsOnlyWithoutMemory

LEMMA TAInvStutter ==
  ASSUME TAInv, UNCHANGED taVars
  PROVE  TAInv'
<1> USE DEF taVars, arenaVars
<1>1. TATypeOK' /\ FailsOnlyWithoutMemory'
  BY DEF TAInv, TATypeOK, FailsOnlyWithoutMemory
<1>2. \A t \in Threads : ThreadOK(t)' /\ Owned(t)' = Owned(t)
  BY ThreadFrame DEF TAInv
<1>3. OwnerInv'
  BY <1>2 DEF TAInv, OwnerInv, NothingLeaks
<1> QED BY <1>1, <1>2, <1>3 DEF TAInv

LEMMA TAInvStep ==
  ASSUME ~ ResetsAfterFailure, TAInv, [TANext]_taVars
  PROVE  TAInv'
<1>1. CASE TANext
  BY <1>1, MallocKeepsInv, HugeKeepsInv, SmallKeepsInv, FreeKeepsInv, BeginKeepsInv,
     EndKeepsInv, ResetKeepsInv DEF TANext
<1>2. CASE UNCHANGED taVars
  BY <1>2, TAInvStutter
<1> QED BY <1>1, <1>2

\* Objects that are apart share no byte.
LEMMA ApartBytes ==
  ASSUME NEW o \in Objects, NEW p \in Objects, Apart(o, p)
  PROVE  ObjectBytes(o) \cap ObjectBytes(p) = {}
<1>1. /\ o.ptr.offset \in Nat /\ o.size \in Nat /\ p.ptr.offset \in Nat /\ p.size \in Nat
  BY DEF Objects, Pointer
<1>2. SUFFICES ASSUME NEW a \in o.ptr.offset .. o.ptr.offset + o.size - 1,
                      NEW b \in p.ptr.offset .. p.ptr.offset + p.size - 1,
                      <<o.ptr.chunk, a>> = <<p.ptr.chunk, b>>
               PROVE  FALSE
  BY DEF ObjectBytes
<1>3. o.ptr.chunk = p.ptr.chunk /\ a = b
  BY <1>2
<1> QED BY <1>1, <1>3 DEF Apart

LEMMA TAInvSound == TAInv => ObjectsSound
<1> SUFFICES ASSUME TAInv PROVE ObjectsSound
  OBVIOUS
<1>1. \A t \in Threads : live[t] \subseteq Objects /\ Owned(t) \subseteq DOMAIN heap
  BY DEF TAInv, TATypeOK, OwnerInv, NothingLeaks
<1>2. ObjectsInHeap
  <2> SUFFICES ASSUME NEW t \in Threads, NEW o \in live[t]
               PROVE  /\ o.ptr.chunk \in DOMAIN heap
                      /\ o.ptr.offset + o.size <= heap[o.ptr.chunk]
                      /\ o.ptr.offset % Alignment = 0
    BY DEF ObjectsInHeap
  <2>1. o.ptr.chunk \in DOMAIN heap /\ Placed(t, o)
    BY <1>1, ObjectOwned DEF TAInv, ThreadOK
  <2>2. o.ptr.chunk # 0 /\ o.ptr.offset \in Nat /\ o.size \in Nat
    BY <1>1 DEF Objects, Pointer
  <2>3. CASE OwnChunk(o)
    <3>1. 0 % Alignment = 0
      BY TAConstants DEF TAConstants
    <3> QED BY <2>1, <2>2, <2>3, <3>1 DEF OwnChunk
  <2>4. CASE InBlock(t, o)
    <3>1. PICK k \in DOMAIN blocks[t] :
            /\ o.ptr.chunk = blocks[t][k].chunk /\ o.ptr.offset % Alignment = 0
            /\ o.ptr.offset + o.size <= blocks[t][k].offset
      BY <2>4 DEF InBlock
    <3>2. heap[o.ptr.chunk] = BlockSize
      BY <2>2, <3>1 DEF TAInv, ThreadOK, ChainOK
    <3>3. blocks[t][k].offset \in 0 .. BlockSize /\ BlockSize \in Nat
      <4>1. blocks[t] \in Seq(Block)
        BY DEF TAInv, TATypeOK
      <4>2. blocks[t][k] \in Block
        BY <4>1
      <4> QED BY <4>2, TAConstants DEF Block, TAConstants
    <3> QED BY <2>1, <2>2, <3>1, <3>2, <3>3
  <2> QED BY <2>1, <2>3, <2>4 DEF Placed
<1>3. ObjectsDisjoint
  <2> SUFFICES ASSUME NEW t \in Threads, NEW u \in Threads, NEW o \in live[t],
                      NEW p \in live[u], <<t, o>> # <<u, p>>
               PROVE  ObjectBytes(o) \cap ObjectBytes(p) = {}
    BY DEF ObjectsDisjoint
  <2>1. Apart(o, p)
    <3>1. CASE t = u
      BY <3>1 DEF TAInv, ThreadOK
    <3>2. CASE t # u
      <4>1. o.ptr.chunk \in Owned(t) /\ p.ptr.chunk \in Owned(u)
        BY ObjectOwned DEF TAInv
      <4> QED BY <3>2, <4>1 DEF TAInv, OwnerInv, Apart
    <3> QED BY <3>1, <3>2
  <2> QED BY <1>1, <2>1, ApartBytes
<1> QED BY <1>2, <1>3 DEF ObjectsSound, TAInv, OwnerInv

\* The allocator's promise: whatever sequence of allocations, frees, resets and
\* ends of contexts the threads go through, failed allocations included, every
\* live object lies, aligned, in memory that malloc returned and is its own, no
\* chunk is lost or freed twice, and only a failing malloc makes an allocation
\* fail; for clients that do not reset a context in which malloc failed.
THEOREM TAObjectsSound ==
  ASSUME ~ ResetsAfterFailure
  PROVE  TASpec => []ObjectsSound
<1>1. TAInit => TAInv
  BY TAInvInit
<1>2. TAInv /\ [TANext]_taVars => TAInv'
  BY TAInvStep
<1>3. TAInv => ObjectsSound
  BY TAInvSound
<1> QED BY <1>1, <1>2, <1>3, PTL DEF TASpec

=============================================================================
