---------------------------- MODULE BufferAccess ----------------------------
(***************************************************************************)
(* Raw and structured buffers (dxil_buffer.cpp, dxil_common.cpp, the       *)
(* analysis in opcodes_dxil_builtins.cpp, analyze_aliased_access): DXIL    *)
(* addresses bytes, an SSBO is an array of elements.  The converter looks  *)
(* at all accesses to a buffer, declares the arrays they need, and then    *)
(* turns each byte offset into an index of one of them by taking the       *)
(* offset's expression apart.                                              *)
(*                                                                         *)
(* A byte offset is the expression op(x * mul, bias) of a value x that is  *)
(* known at run time only; addresses have AddressBits bits.                *)
(***************************************************************************)
EXTENDS Integers, Sequences, FiniteSets, FiniteSetsExt, Bitwise

CONSTANTS AddressBits,  \* the width of a byte address, 32 in the code
          MaxVecSize,   \* AccessTracking::MaxVecSize, 32 in the code
          Cases         \* options, a buffer, and the shaders that access it

Wrap(n) == n % 2^AddressBits
UintMax == 2^AddressBits - 1
AsSigned(n) == IF n < 2^(AddressBits - 1) THEN n ELSE n - 2^AddressBits

VARIABLES
  driver,     \* the options
  buffer,     \* the buffer that is accessed
  shader,     \* the accesses of the shader, in order
  cursor,     \* the access the running pass has come to
  tracked,    \* AccessTracking: the element types the analysis has met
  arrays,     \* << >>, then the declarations analyze_aliased_access returned
  accessed    \* the accesses emitted so far: which array, in which units

baVars == <<driver, buffer, shader, cursor, tracked, arrays, accessed>>

-----------------------------------------------------------------------------
(* What a DXIL offset means, and the element types.                        *)

\* The value of a byte offset, or of an index, for the run-time value x.
OffsetValue(e, x) ==
  LET s == Wrap(x * e.mul)
  IN  CASE e.op = "const" -> e.bias
        [] e.op = "none"  -> s
        [] e.op = "add"   -> Wrap(s + e.bias)
        [] e.op = "sub"   -> Wrap(s - e.bias)
        [] e.op = "rsub"  -> Wrap(e.bias - s)
        [] e.op = "or"    -> s | e.bias

TypeBits(type) == CASE type \in {"f16", "i16"} -> 16
                    [] type \in {"f32", "i32"} -> 32
                    [] type \in {"f64", "i64"} -> 64

\* raw_buffer_data_type_to_addr_shift_log2.
AddrShift(d, type) ==
  CASE TypeBits(type) = 16 /\ d.native16 -> 1
    [] TypeBits(type) = 64 -> 3
    [] OTHER -> 2

\* get_buffer_access_bits_per_component.
AccessBits(d, type, storage) ==
  CASE TypeBits(type) = 16 /\ d.native16 /\ storage \in {"ssbo", "pointer"} -> 16
    [] TypeBits(type) = 64 -> 64
    [] OTHER -> 32

IsPow2(n) == \E k \in 0 .. n : n = 2^k
Log2Floor(n) == CHOOSE k \in 0 .. n : 2^k <= n /\ n < 2^(k + 1)

\* access_mask_to_vecsize; a load's mask is smeared down to component 0 first.
VecSize(a) ==
  CASE a.kind = "atomic" -> 1
    [] a.kind = "load" -> Max(a.mask) + 1
    [] a.kind = "store" -> Max({v \in 1 .. Max(a.mask) + 1 : 0 .. v - 1 \subseteq a.mask})

\* The division of C++, which truncates.
Truncate(n, d) == IF n >= 0 THEN n \div d ELSE - ((- n) \div d)

-----------------------------------------------------------------------------
(* extract_raw_buffer_access_split: offset * stride as scale * x + bias in *)
(* units of one element of vecsize components.                             *)

NoSplit == [ok |-> FALSE, scale |-> 0, bias |-> 0]

\* A bitwise or is taken for a sum unless the constants have common bits.
OrIsSum(e) == (e.mul & e.bias) = 0

\* Mutant: that the bias is a multiple of the element is not looked at.
SplitAnyBias(e, stride, shift, vecsize) ==
  LET size  == 2^shift * vecsize
      scale == e.mul * stride
      bias  == IF e.op = "none" THEN 0 ELSE AsSigned(e.bias) * stride
  IN  IF e.op # "const" /\ scale % size # 0 THEN NoSplit
      ELSE [ok |-> TRUE, scale |-> IF e.op = "const" THEN 0 ELSE scale \div size,
            bias |-> Truncate(bias, size)]

AccessSplit(e, stride, shift, vecsize) ==
  LET size  == 2^shift * vecsize
      sign  == IF e.op \in {"sub", "rsub"} THEN -1 ELSE 1
      bias  == IF e.op = "none" THEN 0 ELSE sign * AsSigned(e.bias) * stride
      scale == e.mul * stride
  IN  CASE e.op = "const" ->
             IF vecsize = 1 \/ bias % size = 0
               THEN [ok |-> TRUE, scale |-> 0, bias |-> Truncate(bias, size)] ELSE NoSplit
        [] e.op # "const" ->
             IF /\ scale % size = 0 /\ bias % size = 0
                /\ e.op = "or" => OrIsSum(e)
               THEN [ok |-> TRUE, scale |-> scale \div size, bias |-> Truncate(bias, size)]
               ELSE NoSplit

\* raw_access_byte_address_can_vectorize.
ByteAddressVectorizes(d, a, vecsize) ==
  LET npot == ~ IsPow2(vecsize)
  IN  /\ npot => d.scalarLayout /\ d.componentRobustness
      /\ vecsize > 4 => d.componentRobustness
      /\ npot => d.alignment <= 16 /\ d.wraps
      /\ AccessSplit(a.offset, 1, AddrShift(d, a.type), vecsize).ok

\* raw_access_structured_can_vectorize.
StructuredVectorizes(d, a, stride, vecsize) ==
  LET shift == AddrShift(d, a.type)
      Split(e, s) == AccessSplit(e, s, shift, vecsize).ok
  IN  /\ ~ IsPow2(vecsize) => d.scalarLayout
      /\ stride % d.alignment # 0 => IsPow2(vecsize)
      /\ Split(a.offset, stride) /\ Split(a.field, 1)

CanVectorize(d, b, a, vecsize) ==
  IF b.kind = "raw" THEN ByteAddressVectorizes(d, a, vecsize)
  ELSE StructuredVectorizes(d, a, b.stride, vecsize)

\* raw_access_byte_address_vectorize and raw_access_structured_vectorize.
RawVecSize(d, b, a, vecsize) ==
  IF vecsize <= MaxVecSize /\ vecsize # 1 /\ CanVectorize(d, b, a, vecsize)
    THEN vecsize ELSE 1

-----------------------------------------------------------------------------
(* The index an access computes for the run-time value x.                  *)

\* The helper function ByteAddressMask.
ByteAddressMask(index, stride) == index & (UintMax \div stride)

\* build_index_divider.
IndexDivider(e, shift, vecsize, wrap, x) ==
  LET split == AccessSplit(e, 1, shift, vecsize)
      index == Wrap(x * split.scale + split.bias)
  IN  CASE split.ok /\ e.op = "const" -> index
        [] split.ok /\ e.op # "const" ->
             IF wrap THEN ByteAddressMask(index, vecsize * 2^shift) ELSE index
        [] OTHER -> OffsetValue(e, x) \div 2^shift

\* build_structured_index.
StructuredIndex(a, stride, shift, vecsize, x) ==
  LET outer == AccessSplit(a.offset, stride, shift, vecsize)
      inner == AccessSplit(a.field, 1, shift, vecsize)
  IN  IF outer.ok /\ inner.ok
        THEN Wrap(x * outer.scale + outer.bias + x * inner.scale + inner.bias)
        ELSE Wrap(OffsetValue(a.offset, x) * (stride \div 2^shift)
                    + IndexDivider(a.field, shift, 1, FALSE, x))

ElementIndex(d, b, a, vecsize, x) ==
  LET shift == AddrShift(d, a.type)
  IN  IF b.kind = "raw"
        THEN IndexDivider(a.offset, shift, vecsize, ~ d.wraps \/ b.storage = "texel", x)
        ELSE StructuredIndex(a, b.stride, shift, vecsize, x)

\* Where the view of a suballocated buffer begins and how long it is, in
\* elements: shifted when the handle is created, or at the access if there are
\* several declarations (build_load_buffer_offset, build_buffer_access).
ViewShift(d, declared, a, vecsize) ==
  IF Cardinality(declared) > 1
    THEN AddrShift(d, a.type) + Log2Floor(vecsize)
    ELSE LET only == CHOOSE t \in declared : TRUE
         IN  Log2Floor(only.vecsize * (only.bits \div 8))

\* The index that is certain to be out of bounds.
OutOfBoundsIndex(d, a, vecsize) ==
  LET shift == AddrShift(d, a.type)
  IN  IF vecsize # 1 THEN UintMax \div 2^(shift + Log2Floor(vecsize))
      ELSE UintMax \div 2^shift - Max({3, VecSize(a) - 1})

\* Mutant: the length of the view is compared with the index in the buffer.
InViewAfterOffset(index, offset, length) == Wrap(index + offset) < length

InView(index, offset, length) == index < length

\* build_buffer_access: the index with the offset of the view.
AccessIndex(d, b, declared, a, vecsize, x) ==
  LET index  == ElementIndex(d, b, a, vecsize, x)
      shift  == ViewShift(d, declared, a, vecsize)
      offset == b.view[1] \div 2^shift
      length == b.view[2] \div 2^shift
  IN  IF b.view = << >> THEN index
      ELSE IF InView(index, offset, length) THEN Wrap(index + offset)
      ELSE OutOfBoundsIndex(d, a, vecsize)

-----------------------------------------------------------------------------
(* Where an emitted access ends up.                                        *)

\* build_physical_pointer_address_for_raw_load_store: in bytes.
LinearOffset(b, a, x) ==
  IF b.kind = "raw" THEN OffsetValue(a.offset, x)
  ELSE Wrap(OffsetValue(a.offset, x) * b.stride + OffsetValue(a.field, x))

\* build_vectorized_physical_load_store_access: an array of vectors if the offset
\* can be divided, arithmetic on the pointer otherwise.
PointerOffset(d, b, a, x) ==
  LET vecsize == VecSize(a)
      stride  == vecsize * 2^AddrShift(d, a.type)
  IN  IF CanVectorize(d, b, a, vecsize)
        THEN ElementIndex(d, b, a, RawVecSize(d, b, a, vecsize), x) * stride
        ELSE LinearOffset(b, a, x)

\* emit_physical_buffer_load_instruction takes the components a load smeared down
\* to 0, emit_physical_buffer_store_instruction the ones that are stored.
PhysicalLoadOffset(a, x)  == PointerOffset(driver, buffer, a, x)
PhysicalStoreOffset(a, x) == PointerOffset(driver, buffer, a, x)

\* emit_raw_access_chain: how many components the alignment spans ...
ChainAlignment(d, b, a) ==
  LET size == 2^AddrShift(d, a.type)
      Structured(v) == /\ v * size <= 16 /\ b.stride % (v * size) = 0
                       /\ StructuredVectorizes(d, a, b.stride, v)
  IN  IF b.kind = "raw"
        THEN Max({1} \cup {v \in {2, 4} : ByteAddressVectorizes(d, a, v)})
        ELSE Max({1} \cup {v \in {2, 4, 8} : Structured(v)})

\* ... and the bytes the chain of a stride, an element and an offset leads to.
ChainOffset(d, b, a, x) ==
  LET size  == 2^AddrShift(d, a.type)
      align == ChainAlignment(d, b, a)
  IN  IF b.kind = "raw" /\ align # 1 /\ align * size <= 16 /\ VecSize(a) <= align
        THEN align * size * IndexDivider(a.offset, AddrShift(d, a.type), align, ~ d.wraps, x)
        ELSE LinearOffset(b, a, x)

\* The first byte of an emitted access, from the beginning of the buffer.
EmittedOffset(e, x) ==
  LET size == e.array.vecsize * (e.array.bits \div 8)
  IN  CASE e.path = "array"   -> size * AccessIndex(driver, buffer, arrays[1], e.access, e.vecsize, x)
        [] e.path = "pointer" -> IF e.access.kind = "store" THEN PhysicalStoreOffset(e.access, x)
                                 ELSE PhysicalLoadOffset(e.access, x)
        [] e.path = "chain"   -> ChainOffset(driver, buffer, e.access, x)

-----------------------------------------------------------------------------
(* The passes.                                                             *)

\* Mutant: the analysis does not ask whether the access can be vectorized.
TrackedAsIs(d, b, a) ==
  [type |-> IF a.type = "f64" THEN "float" ELSE "integer",
   bits |-> TypeBits(a.type), vecsize |-> VecSize(a)]

\* The element update_raw_access_tracking notes: doubles are floats, everything
\* else is an integer of its width.
Tracked(d, b, a) ==
  [type |-> IF a.type = "f64" THEN "float" ELSE "integer",
   bits |-> TypeBits(a.type), vecsize |-> RawVecSize(d, b, a, VecSize(a))]

\* With raw access chains only the atomics need a declaration.
IsTracked(d, a) == d.chains => a.kind = "atomic"

\* analyze_dxil_buffer_load, analyze_dxil_buffer_store, analyze_dxil_atomic_op.
AnalyzeBufferAccess ==
  /\ arrays = << >> /\ cursor <= Len(shader)
  /\ tracked' = tracked \cup {Tracked(driver, buffer, a) :
                                a \in {s \in {shader[cursor]} : IsTracked(driver, s)}}
  /\ cursor' = cursor + 1
  /\ UNCHANGED <<driver, buffer, shader, arrays, accessed>>

Words == [type |-> "integer", bits |-> 32, vecsize |-> 1]

\* Without native 16-bit operations a 16-bit element is declared with 32 bits.
DeclaredAs(d, t) == IF t.bits = 16 /\ ~ d.native16 THEN [t EXCEPT !.bits = 32] ELSE t

\* analyze_aliased_access and the variables made of it: one per declaration.  A
\* texel buffer has words and no others; it cannot stand in for other widths.
DeclareBuffer ==
  /\ arrays = << >> /\ cursor > Len(shader)
  /\ \E declared \in {{DeclaredAs(driver, t) : t \in tracked}} :
       /\ buffer.storage = "texel" => \A t \in declared : t.bits = 32
       /\ arrays' = << IF buffer.storage = "texel" \/ declared = {} THEN {Words} ELSE declared >>
  /\ cursor' = 1
  /\ UNCHANGED <<driver, buffer, shader, tracked, accessed>>

\* get_buffer_alias_handle: the variable of the access's element, or the first.
AliasHandle(declared, wanted) ==
  IF wanted \in declared THEN wanted ELSE CHOOSE t \in declared : TRUE

\* buffer_access_is_raw_access_chain, and the physical pointers.  The atomics of
\* a descriptor always go through the array.
AccessPath(d, b, a) ==
  CASE b.storage = "pointer" -> IF a.kind = "atomic" THEN "array" ELSE "pointer"
    [] b.storage = "ssbo" /\ d.chains /\ a.kind # "atomic" -> "chain"
    [] OTHER -> "array"

\* An access in the units of the element it asks for.  An atomic through a pointer
\* casts it to an array of its own element.
Emitted(a) ==
  LET vecsize == IF buffer.storage = "texel" THEN 1
                 ELSE RawVecSize(driver, buffer, a, VecSize(a))
      wanted  == [type |-> IF a.type = "f64" THEN "float" ELSE "integer",
                  bits |-> AccessBits(driver, a.type, buffer.storage),
                  vecsize |-> vecsize]
  IN  [access |-> a, vecsize |-> vecsize, path |-> AccessPath(driver, buffer, a),
       wanted |-> wanted,
       array |-> IF buffer.storage = "pointer" THEN wanted ELSE AliasHandle(arrays[1], wanted)]

Emit(kind) ==
  /\ arrays # << >> /\ cursor <= Len(shader)
  /\ shader[cursor].kind = kind
  /\ accessed' = Append(accessed, Emitted(shader[cursor]))
  /\ cursor' = cursor + 1
  /\ UNCHANGED <<driver, buffer, shader, tracked, arrays>>

EmitBufferLoad   == Emit("load")
EmitBufferStore  == Emit("store")
EmitBufferAtomic == Emit("atomic")

BAInit ==
  /\ \E c \in Cases : /\ driver = c.driver
                      /\ buffer = c.buffer
                      /\ shader \in c.shaders
  /\ cursor = 1
  /\ tracked = {}
  /\ arrays = << >>
  /\ accessed = << >>

BANext ==
  \/ AnalyzeBufferAccess \/ DeclareBuffer
  \/ EmitBufferLoad \/ EmitBufferStore \/ EmitBufferAtomic

BASpec == BAInit /\ [][BANext]_baVars

-----------------------------------------------------------------------------
(* Properties.                                                             *)

\* The run-time values for which DXIL allows the access: the address is a
\* multiple of the component's size.
Aligned(e) ==
  {x \in 0 .. UintMax :
     LinearOffset(buffer, e.access, x) % 2^AddrShift(driver, e.access.type) = 0}

\* An access reaches the byte the shader named.  Where the device computes
\* addresses with AddressBits bits the two are equal modulo that; where it does
\* not, a byte address has to be equal as it is.
AddressesAsWritten ==
  \A i \in DOMAIN accessed : \A x \in Aligned(accessed[i]) :
    LET e     == accessed[i]
        exact == ~ driver.wraps /\ buffer.kind = "raw" /\ e.path = "array"
        given == EmittedOffset(e, x)
        meant == LinearOffset(buffer, e.access, x)
    IN  buffer.view = << >> => (IF exact THEN given = meant ELSE Wrap(given) = meant)

\* The analysis and the emission agree: each access finds a declaration of the
\* element in whose units its index is.
DeclaredAsAccessed ==
  \A i \in DOMAIN accessed :
    accessed[i].path = "array" => accessed[i].array = accessed[i].wanted

\* The bytes of an element of the access.
ElementBytes(e) == e.vecsize * 2^AddrShift(driver, e.access.type)

\* The index of a structured buffer, in bytes, fits an address ("we can be lax").
Fits(e, x) ==
  buffer.kind = "structured" =>
    /\ OffsetValue(e.access.offset, x) * buffer.stride + OffsetValue(e.access.field, x) <= UintMax
    /\ \A o \in {e.access.offset, e.access.field} : x * o.mul <= UintMax

\* A view of a suballocated buffer is never left: an element inside of it is
\* found where the view has it, anything else goes to the end of the address
\* space, where no buffer is.
ViewsRespected ==
  \A i \in DOMAIN accessed : \A x \in {y \in Aligned(accessed[i]) : Fits(accessed[i], y)} :
    LET e     == accessed[i]
        meant == LinearOffset(buffer, e.access, x)
        given == EmittedOffset(e, x)
        outer == (OutOfBoundsIndex(driver, e.access, e.vecsize)) * ElementBytes(e)
    IN  (buffer.view # << >> /\ buffer.view[1] % ElementBytes(e) = 0) =>
          \/ meant < buffer.view[2] /\ given = buffer.view[1] + meant
          \/ meant + ElementBytes(e) > buffer.view[2] /\ given = outer

\* The comment in raw_access_structured_can_vectorize: "A hypothetical offset
\* buffer must be able to cleanly divide by element_size."
OffsetDividesCleanly ==
  \A i \in DOMAIN accessed :
    buffer.view # << >> => buffer.view[1] % ElementBytes(accessed[i]) = 0

\* An alignment that is promised to the device holds for every address: a byte
\* address buffer begins at a multiple of 16, a structured one of its stride, and
\* at most of 16.
AlignmentAsPromised ==
  \A i \in DOMAIN accessed : \A x \in Aligned(accessed[i]) :
    LET e    == accessed[i]
        size == ChainAlignment(driver, buffer, e.access) * 2^AddrShift(driver, e.access.type)
    IN  e.path = "chain" => /\ size <= 16
                            /\ LinearOffset(buffer, e.access, x) % size = 0
=============================================================================
