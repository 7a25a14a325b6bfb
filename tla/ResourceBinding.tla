-------------------------- MODULE ResourceBinding --------------------------
(***************************************************************************)
(* Resources (dxil_converter.cpp emit_resources, dxil_resources.cpp        *)
(* emit_create_handle).  A shader names descriptors by register; the       *)
(* remapper the caller installs says where each range of registers lives:  *)
(* in an array of its own, in a heap behind a table, in the root           *)
(* constants, or, for a local root signature, behind the shader record.    *)
(* The first pass declares variables and a reference for every range, the  *)
(* second turns every handle into an index of one of these variables.      *)
(*                                                                         *)
(* Two lanes run the code.  An index that is not marked as non-uniform is  *)
(* taken from the first of them.                                           *)
(***************************************************************************)
EXTENDS Integers, Sequences, FiniteSets, SequencesExt

CONSTANTS WordBits,        \* the width of an index, 32 in the code
          SamplerHeapMax,  \* Tier2SamplerLimitMinus1, 2047 in the code
          Bindings         \* an environment and a shader: its ranges and handles

VARIABLES
  env,         \* options, local root signature, size of the root constants
  ranges,      \* the ranges of registers, in the order they are emitted
  uses,        \* the handles the shader creates, in order
  declared,    \* the variables declared so far
  references,  \* per range: the reference, its counter and its offset buffer
  handles,     \* the handles emitted so far
  stopped      \* a resource or a handle could not be emitted

rbVars == <<env, ranges, uses, declared, references, handles, stopped>>

WrapWord(n) == n % 2^WordBits
Unbounded == 2^WordBits - 1

-----------------------------------------------------------------------------
(* What memory holds when the code runs: the slot a table in the root      *)
(* constants or in the record of a lane begins at.                         *)

Lanes == {1, 2}
TableWord(w) == 3 * w + 2
RecordWord(k, lane, log2) == (5 * k + 4 * lane) * 2^log2

SizeLog2(kind) == IF kind = "sampler" THEN env.samplerLog2 ELSE env.resourceLog2

\* The value of an index: x is the part that is known at run time only.
IndexValue(e, x) == CASE e.op = "none"  -> 0
                      [] e.op = "const" -> e.c
                      [] e.op = "value" -> x
                      [] e.op = "add"   -> x + e.c
NoIndex == [op |-> "none", c |-> 0]

-----------------------------------------------------------------------------
(* Root constants and shader record.                                       *)

\* emit_root_constants: where a member of the block is.
MemberOffset(m) == IF m < env.descriptors THEN 8 * m
                   ELSE 8 * env.descriptors + 4 * (m - env.descriptors)

\* emit_shader_record_buffer_block_type: where an entry of the record is.
RecordOffset(signature, k) ==
  LET Align(e, at) == IF e.type = "constants" THEN at ELSE 8 * ((at + 7) \div 8)
      After(at, e) == Align(e, at) + (IF e.type = "constants" THEN 4 * e.words ELSE 8)
  IN  Align(signature[k], FoldLeft(After, 0, SubSeq(signature, 1, k - 1)))

\* local_root_signature_matches.
TableMatches(t, r) == /\ t.class = r.class /\ t.space = r.space /\ t.register <= r.register
                      /\ t.count = Unbounded \/ r.register - t.register < t.count

SignatureMatches(e, r) ==
  CASE e.type = "constants"  -> r.class = "CBV" /\ e.space = r.space /\ e.register = r.register
    [] e.type = "descriptor" -> /\ e.class = r.class
                                /\ e.space = r.space /\ e.register = r.register
    [] e.type = "table"      -> \E j \in DOMAIN e.tables : TableMatches(e.tables[j], r)

\* get_local_root_signature_entry, 0 for none, and the range of the table.
LocalEntry(e, r) ==
  LET hits == {k \in DOMAIN e.signature : SignatureMatches(e.signature[k], r)}
  IN  IF r.global \/ hits = {} THEN 0 ELSE CHOOSE k \in hits : \A j \in hits : k <= j

LocalTable(e, r, k) ==
  LET tables == e.signature[k].tables
  IN  tables[CHOOSE j \in DOMAIN tables :
               TableMatches(tables[j], r) /\ \A i \in 1 .. j - 1 : ~ TableMatches(tables[i], r)]

InTable(e, k) == k > 0 /\ e.signature[k].type = "table"

\* require_arrayed_root_constants: asks the remapper for an unbounded range.
Arrayed == \E i \in DOMAIN ranges :
             LET r == ranges[i] IN /\ r.class = "CBV" /\ ~ r.global /\ r.active /\ r.dynamic
                                   /\ r.binding.type = "push" /\ r.rejects = "never"
                                   /\ LocalEntry(env, r) = 0

-----------------------------------------------------------------------------
(* The remapper.                                                           *)

\* A range that is rejected as unbounded is offered once more as a single descriptor.
Remapped(r, needed) ==
  [ok    |-> ~ needed \/ r.rejects = "never" \/ (r.rejects = "unbounded"),
   range |-> IF needed /\ r.rejects = "unbounded" /\ r.range = Unbounded THEN 1 ELSE r.range]

Nonsensical(r) == r.register = Unbounded /\ r.space = Unbounded

-----------------------------------------------------------------------------
(* Variables.                                                              *)

\* create_bindless_heap_variable: one variable for all ranges that need the same.
HeapVariable(vars, info) ==
  LET hits == {i \in DOMAIN vars : vars[i] = info}
  IN  IF hits = {} THEN [vars |-> Append(vars, info), id |-> Len(vars) + 1]
      ELSE [vars |-> vars, id |-> CHOOSE i \in hits : TRUE]

OwnVariable(vars, info) == [vars |-> Append(vars, info), id |-> Len(vars) + 1]

\* create_bindless_heap_variable_alias_group and the groups of plain variables: a
\* variable for every component type the accesses want.
Group(vars, info, components) ==
  LET Add(acc, c) ==
        LET i == [info EXCEPT !.component = c]
            v == IF info.heap THEN HeapVariable(acc.vars, i) ELSE OwnVariable(acc.vars, i)
        IN  [vars |-> v.vars, ids |-> Append(acc.ids, v.id)]
  IN  FoldLeft(Add, [vars |-> vars, ids |-> << >>], components)

\* get_uav_image_format.
FormatKnown(r) == r.kind \in {"raw", "structured"}
KnownTypes == {"u32", "i32", "f32", "u64"}

UavFormat(e, r) ==
  CASE FormatKnown(r) -> "u32"
    [] ~ FormatKnown(r) /\ r.read /\ (r.atomic \/ ~ e.readWithoutFormat) ->
         IF r.components[1] \in KnownTypes THEN r.components[1] ELSE "none"
    [] OTHER -> "unknown"

\* A UAV that is shared between threads of a group is promoted to coherent.
Coherent(e, r) == r.coherent \/ (e.groupCoherence /\ (r.global \/ (r.read /\ r.written)))

\* Accesses through the global heap may alias, so raw buffers are read and written.
FullAccess(r) == r.global /\ r.kind \in {"raw", "structured"}

Info(e, r, heap) ==
  LET uav == r.class = "UAV"
  IN  [class |-> r.class, kind |-> r.kind, component |-> "u32", set |-> r.binding.set,
       type |-> r.binding.type, heap |-> heap, counters |-> FALSE,
       read |-> uav /\ (r.read \/ FullAccess(r)),
       written |-> uav /\ (r.written \/ FullAccess(r)), coherent |-> uav /\ Coherent(e, r),
       format |-> IF uav THEN UavFormat(e, r) ELSE "unknown",
       aliased |-> uav /\ Len(r.components) > 1]

\* The counter is an SSBO, a typed buffer, or behind a physical pointer.
CounterKind(e, r) ==
  CASE r.counter.type = "ssbo" -> "raw"
    [] r.counter.type # "ssbo" /\ e.physical /\ r.counter.type # "texel" -> "pointer"
    [] OTHER -> "typed"

CounterInfo(e, r, heap) ==
  LET typed == CounterKind(e, r) = "typed"
  IN  [class |-> "UAV", kind |-> CounterKind(e, r), component |-> "u32", set |-> r.counter.set,
       type |-> "counter", heap |-> heap, counters |-> ~ typed, read |-> typed,
       written |-> typed, coherent |-> typed /\ ~ r.global /\ Coherent(e, r),
       format |-> IF typed THEN "u32" ELSE "unknown", aliased |-> FALSE]

-----------------------------------------------------------------------------
(* References.                                                             *)

NoMember == -1
NoReference == [vars |-> << >>, member |-> NoMember, base |-> 0, bindless |-> FALSE,
                array |-> FALSE, root |-> FALSE, local |-> 0, kind |-> "none"]
Nothing == [ok |-> TRUE, vars |-> declared, ref |-> NoReference, counter |-> NoReference,
            offsets |-> FALSE]
Failure == [Nothing EXCEPT !.ok = FALSE]

IsRaw(r) == r.kind \in {"raw", "structured"}

\* get_ssbo_offset_buffer_id: does the range need a buffer of offsets, can it have one?
NeedsOffsets(e, r) ==
  \/ r.binding.type = "ssbo" /\ IsRaw(r) /\ r.align % e.ssboAlign # 0
  \/ /\ r.kind \in {"raw", "structured", "typed"} /\ r.binding.type # "ssbo"
     /\ e.typedOffsets /\ r.binding.heap
OffsetsFit(e, r) == NeedsOffsets(e, r) /\ r.binding.type = "ssbo" => r.binding.heap

\* Registers count from the start of the range, except in a library, where a
\* resource is a variable.
\* Mutant: a library is no exception.
UnbiasAlways(r, range) == IF range # 1 THEN r.register ELSE 0
Unbias(r, range) == IF range # 1 /\ ~ r.lib THEN r.register ELSE 0

TableReference(e, r, k, range, ids) ==
  LET t == LocalTable(e, r, k)
  IN  [NoReference EXCEPT !.vars = ids, !.base = WrapWord(t.offset + r.register - t.register),
                          !.bindless = TRUE, !.array = range # 1, !.local = k, !.kind = r.kind]

RecordReference(r, k) == [NoReference EXCEPT !.local = k, !.kind = r.kind]

RootReference(r) == [NoReference EXCEPT !.root = TRUE, !.member = r.binding.root, !.kind = r.kind]

PushReference(e, r) ==
  [NoReference EXCEPT !.member = r.binding.root + e.descriptors, !.kind = "constants"]

HeapReference(e, r, b, kind, range, ids) ==
  [NoReference EXCEPT !.vars = ids, !.member = b.root + e.descriptors,
                      !.base = WrapWord(b.offset - Unbias(r, range)), !.bindless = TRUE,
                      !.array = range # 1, !.kind = kind]

PlainReference(r, kind, range, ids) ==
  [NoReference EXCEPT !.vars = ids, !.base = WrapWord(- Unbias(r, range)), !.array = range # 1,
                      !.kind = kind]

GlobalReference(kind, ids) ==
  [NoReference EXCEPT !.vars = ids, !.bindless = TRUE, !.array = TRUE, !.kind = kind]

-----------------------------------------------------------------------------
(* Where a range goes, for every class; "fail" when the code gives up.     *)

Placement(e, r, k, range, rootKinds) ==
  CASE k > 0 /\ InTable(e, k) -> IF r.binding.heap /\ r.lib THEN "table" ELSE "fail"
    [] k > 0 /\ ~ InTable(e, k) ->
         IF r.kind \in rootKinds /\ range = 1 THEN "record" ELSE "fail"
    [] k = 0 /\ r.binding.type = "push" ->
         IF e.words + e.descriptors > 0 THEN "push" ELSE "fail"
    [] k = 0 /\ r.binding.type = "pointer" ->
         IF r.kind \in rootKinds /\ range = 1 THEN "root" ELSE "fail"
    [] OTHER -> IF r.binding.heap THEN "heap" ELSE "plain"

Placed(e, r, k, range, place) ==
  LET group == Group(declared, Info(e, r, place # "plain"), r.components)
      ref   == CASE place = "table"  -> TableReference(e, r, k, range, group.ids)
                 [] place = "record" -> RecordReference(r, k)
                 [] place = "push"   -> PushReference(e, r)
                 [] place = "root"   -> RootReference(r)
                 [] place = "heap"   -> HeapReference(e, r, r.binding, r.kind, range, group.ids)
                 [] place = "plain"  -> PlainReference(r, r.kind, range, group.ids)
  IN  [Nothing EXCEPT !.ref = ref, !.offsets = NeedsOffsets(e, r),
                      !.vars = IF ref.vars = << >> THEN declared ELSE group.vars]

EmittedIf(ok, e, r, k, range, place) ==
  IF ~ r.active THEN Nothing
  ELSE IF ok /\ ~ Nonsensical(r) /\ place # "fail" THEN Placed(e, r, k, range, place)
  ELSE Failure

SRVEmission(e, r) ==
  LET k == LocalEntry(e, r)
      m == Remapped(r, k = 0 \/ InTable(e, k))
      place == Placement(e, r, k, m.range, {"raw", "structured", "rtas"})
      input == r.binding.type = "input" /\ place = "plain"
  IN  EmittedIf(/\ m.ok /\ OffsetsFit(e, r)
                /\ input => e.fragment /\ m.range = 1 /\ r.kind = "texture2d",
                e, r, k, m.range, place)

\* The counter of a UAV lives where the UAV lives.
WithCounter(e, r, k, range, place, out) ==
  LET v(heap) == IF heap THEN HeapVariable(out.vars, CounterInfo(e, r, TRUE))
                 ELSE OwnVariable(out.vars, CounterInfo(e, r, FALSE))
      \* In a table the reference calls a pointer a raw buffer.
      kind == IF place = "table" /\ CounterKind(e, r) = "pointer" THEN "raw" ELSE CounterKind(e, r)
      At(w, ref) == [out EXCEPT !.vars = w.vars, !.counter = [ref EXCEPT !.kind = kind]]
  IN  CASE ~ out.ok \/ ~ r.active \/ ~ r.hasCounter \/ place \in {"record", "root"} -> out
        [] OTHER ->
             CASE place = "table" /\ r.counter.heap ->
                    At(v(TRUE), TableReference(e, r, k, range, <<v(TRUE).id>>))
               [] place = "heap" /\ r.counter.heap ->
                    At(v(TRUE), HeapReference(e, r, r.counter, kind, range, <<v(TRUE).id>>))
               [] place = "plain" /\ ~ r.counter.heap ->
                    At(v(FALSE), [PlainReference(r, kind, range, <<v(FALSE).id>>) EXCEPT !.base = 0])
               [] OTHER -> Failure

UAVEmission(e, r) ==
  LET k == LocalEntry(e, r)
      m == Remapped(r, k = 0 \/ InTable(e, k))
      place == Placement(e, r, k, m.range, {"raw", "structured"})
  IN  IF r.magic /\ ~ Nonsensical(r) THEN Nothing   \* a UAV that stands for a vendor's extension
      ELSE WithCounter(e, r, k, m.range, place,
                       EmittedIf(m.ok /\ OffsetsFit(e, r) /\ UavFormat(e, r) # "none",
                                 e, r, k, m.range, place))

CBVEmission(e, r) ==
  LET k == LocalEntry(e, r)
      m == Remapped(r, k = 0 \/ InTable(e, k))
  IN  EmittedIf(m.ok, e, r, k, m.range, Placement(e, r, k, m.range, {"cbuffer"}))

\* A sampler in a local root signature can only be in a table.
SamplerEmission(e, r) ==
  LET k == LocalEntry(e, r)
      m == Remapped(r, k = 0 \/ InTable(e, k))
  IN  EmittedIf(m.ok, e, r, k, m.range, Placement(e, r, k, m.range, {}))

\* emit_global_heaps: one reference for every annotated handle of shader model 6.6.
GlobalEmission(e, r) ==
  LET group == Group(declared, Info(e, r, TRUE), r.components)
      c     == HeapVariable(group.vars, CounterInfo(e, r, TRUE))
  IN  IF /\ r.rejects = "never" /\ r.binding.heap /\ r.binding.type # "push" /\ OffsetsFit(e, r)
         /\ r.class = "UAV" => UavFormat(e, r) # "none"
        THEN [ok |-> TRUE, vars |-> IF r.hasCounter THEN c.vars ELSE group.vars,
              ref |-> GlobalReference(r.kind, group.ids), offsets |-> NeedsOffsets(e, r),
              counter |-> IF r.hasCounter THEN GlobalReference(CounterKind(e, r), <<c.id>>)
                          ELSE NoReference]
        ELSE Failure

-----------------------------------------------------------------------------
(* The first pass.                                                         *)

RBInit ==
  \E b \in Bindings : \E s \in b.shaders :
    /\ env = b.env /\ ranges = s.ranges /\ uses = s.uses
    /\ declared = << >> /\ references = << >> /\ handles = << >> /\ stopped = FALSE

Emit(class, global, Emission(_, _)) ==
  /\ ~ stopped /\ Len(references) < Len(ranges)
  /\ LET r == ranges[Len(references) + 1] IN
       /\ r.class = class /\ r.global = global
       /\ \E out \in {Emission(env, r)} :
            /\ declared' = out.vars /\ stopped' = ~ out.ok
            /\ references' = Append(references, [ref |-> out.ref, counter |-> out.counter,
                                                 offsets |-> out.offsets])
  /\ UNCHANGED <<env, ranges, uses, handles>>

EmitSRVs     == Emit("SRV", FALSE, SRVEmission)
EmitUAVs     == Emit("UAV", FALSE, UAVEmission)
EmitCBVs     == Emit("CBV", FALSE, CBVEmission)
EmitSamplers == Emit("Sampler", FALSE, SamplerEmission)
EmitGlobalHeaps == \E c \in {"SRV", "UAV", "CBV", "Sampler"} : Emit(c, TRUE, GlobalEmission)

-----------------------------------------------------------------------------
(* The second pass: handles.                                               *)

\* find_binding_meta_index: the range that holds the registers lo .. hi, 0 for none.
BindingIndex(lo, hi, space, class) ==
  LET Holds(r) == /\ r.class = class /\ r.space = space /\ r.register <= lo
                  /\ r.range = Unbounded \/ hi < WrapWord(r.register + r.range)
      hits == {i \in DOMAIN ranges : ~ ranges[i].global /\ Holds(ranges[i])}
  IN  IF hits = {} THEN 0 ELSE CHOOSE i \in hits : \A j \in hits : i <= j

\* emit_create_handle_for_lib, _handle, _from_binding and _from_heap with annotate_handle.
RangeOf(u) == IF u.how = "binding" THEN BindingIndex(u.lo, u.hi, u.space, u.class) ELSE u.range

\* A part of a handle: an index of a variable, and how the lanes compute it.
NoPart == [what |-> "descriptor", var |-> 0, from |-> "none", at |-> 0, base |-> 0,
           dyn |-> NoIndex, clamp |-> -1, perLane |-> TRUE, scale |-> 1, bias |-> 0]

\* build_bindless_heap_offset: constants of the index are folded into the offset.
Fold(base, index) ==
  IF base # 0 /\ index.op \in {"add", "const"}
    THEN [base |-> WrapWord(base + index.c),
          dyn |-> IF index.op = "add" THEN [op |-> "value", c |-> 0] ELSE NoIndex]
    ELSE [base |-> base, dyn |-> index]

\* build_bindless_heap_offset_shader_record, _push_constant and the heaps of 6.6.
TableOf(ref) == CASE ref.local > 0 -> [from |-> "record", at |-> ref.local, ok |-> TRUE]
                  [] ref.local = 0 /\ ref.member # NoMember ->
                       [from |-> "push", at |-> ref.member,
                        ok |-> ref.member >= env.descriptors
                                 /\ ref.member < env.words + env.descriptors]
                  [] OTHER -> [from |-> "none", at |-> 0, ok |-> ref.base = 0]

\* build_descriptor_heap_robustness.
ClampOf(ref, index) ==
  CASE ~ env.robust \/ (index.op = "none" /\ ref.local = 0) -> -1
    [] OTHER -> IF ref.kind = "sampler" THEN SamplerHeapMax ELSE env.heapSize

HeapPart(ref, index) ==
  LET f == Fold(ref.base, index)
      t == TableOf(ref)
  IN  [NoPart EXCEPT !.from = t.from, !.at = t.at, !.base = f.base, !.dyn = f.dyn,
                     !.clamp = ClampOf(ref, index)]

\* build_adjusted_descriptor_indexing.
ArrayPart(ref, index) ==
  LET f == Fold(ref.base, index)
  IN  IF ref.array THEN [NoPart EXCEPT !.base = f.base, !.dyn = f.dyn] ELSE NoPart

\* build_load_resource_handle.  A shader record may differ from lane to lane.
NonUniform(ref, u) == ref.local > 0 \/ (ref.array /\ u.nonUniform)

Indexed(ref, u) == IF ref.array THEN u.index ELSE NoIndex

LoadResourceHandle(ref, u) ==
  LET part == IF ref.bindless THEN HeapPart(ref, Indexed(ref, u)) ELSE ArrayPart(ref, Indexed(ref, u))
  IN  [part EXCEPT !.perLane = NonUniform(ref, u)]

\* build_load_physical_uav_counter and build_load_physical_rtas read a pointer from the
\* heap as memory.
PhysicalPart(ref, u, perLane) ==
  [HeapPart(ref, Indexed(ref, u)) EXCEPT !.perLane = perLane, !.scale = env.pointerStride,
                                         !.bias = env.pointerOffset]

\* build_load_buffer_offset: the offset of the view, from a buffer next to the heap.
OffsetPart(ref, u) ==
  [HeapPart(ref, Indexed(ref, u)) EXCEPT !.what = "offsets", !.perLane = u.nonUniform,
                                         !.scale = env.offsetStride, !.bias = env.offsetBias]

PhysicalRtas(r, ref) == r.kind = "rtas" /\ ref.bindless /\ r.binding.type = "ssbo"
IsPhysical(ref) == ref.root \/ (ref.local > 0 /\ ~ ref.bindless /\ env.signature[ref.local].type = "descriptor")

\* build_root_descriptor_access_chain and build_shader_record_access_chain.
PointerPart(ref) == IF ref.local > 0 THEN [NoPart EXCEPT !.from = "recordEntry", !.at = ref.local]
                    ELSE [NoPart EXCEPT !.from = "pushMember", !.at = ref.member]

\* Every variable of an alias group is indexed the same way.
Descriptors(ref, part) == {[part EXCEPT !.var = ref.vars[j]] : j \in DOMAIN ref.vars}

DescriptorParts(r, e, u) ==
  CASE IsPhysical(e.ref) -> {PointerPart(e.ref)}
    [] PhysicalRtas(r, e.ref) -> Descriptors(e.ref, PhysicalPart(e.ref, u, u.nonUniform))
    [] e.ref.kind = "constants" -> {[NoPart EXCEPT !.from = "pushMember", !.at = e.ref.member]}
    [] e.ref.local > 0 /\ ~ e.ref.bindless -> {PointerPart(e.ref)}
    [] OTHER -> Descriptors(e.ref, LoadResourceHandle(e.ref, u))

\* The index of a counter is computed from the reference of its UAV, except for pointers.
CounterPart(e, u) ==
  LET part == CASE e.counter.kind = "pointer" -> PhysicalPart(e.counter, u, TRUE)
                [] e.counter.bindless -> LoadResourceHandle(e.ref, u)
                [] OTHER -> [ArrayPart([e.ref EXCEPT !.array = e.counter.array], u.index)
                               EXCEPT !.perLane = NonUniform(e.ref, u)]
  IN  [part EXCEPT !.what = "counter", !.var = e.counter.vars[1]]

Parts(r, e, u) ==
  DescriptorParts(r, e, u)
    \cup (IF e.offsets /\ e.ref.bindless THEN {OffsetPart(e.ref, u)} ELSE {})
    \cup (IF u.counter /\ e.counter.vars # << >> THEN {CounterPart(e, u)} ELSE {})

\* emit_cbuffer_load_from_uints: a row of root constants.  A constant row must begin
\* inside of the block.
RowFits(e, u) == e.ref.kind = "constants" /\ u.row.op = "const" =>
                   e.ref.member + 4 * u.row.c < env.words + env.descriptors

\* Where word c of the row is read: a member of the block, or an element of its array
\* that is clamped; -1 is a zero, -2 an index that is no constant into a structure.
RowWord(member, row, c, x) ==
  LET first == member + 4 * IndexValue(row, x) + c
      element == IF first - env.descriptors < env.words THEN first - env.descriptors ELSE env.words - 1
  IN  CASE row.op = "const" ->
             IF first < env.words + env.descriptors THEN MemberOffset(first) ELSE -1
        [] row.op # "const" -> IF Arrayed THEN 8 * env.descriptors + 4 * element ELSE -2

CreateHandle ==
  /\ ~ stopped /\ Len(references) = Len(ranges) /\ Len(handles) < Len(uses)
  /\ LET u == uses[Len(handles) + 1] IN
     \E i \in {RangeOf(u)} :
       IF i = 0 THEN stopped' = TRUE /\ UNCHANGED handles
       ELSE \E e \in {references[i]} :
              /\ stopped' = ~ (RowFits(e, u) /\ (e.ref.bindless => TableOf(e.ref).ok))
              /\ handles' = Append(handles, [use |-> u, range |-> i, parts |-> Parts(ranges[i], e, u)])
  /\ UNCHANGED <<env, ranges, uses, declared, references>>

RBNext == EmitGlobalHeaps \/ EmitSRVs \/ EmitUAVs \/ EmitCBVs \/ EmitSamplers \/ CreateHandle

RBSpec == RBInit /\ [][RBNext]_rbVars

-----------------------------------------------------------------------------
(* What the code computes, and what D3D12 means.                           *)

TableBase(p, lane, kind) ==
  CASE p.from = "push"   -> TableWord(p.at - env.descriptors)
    [] p.from = "record" -> RecordWord(p.at, lane, SizeLog2(kind)) \div 2^SizeLog2(kind)
    [] OTHER -> 0

\* x[lane] is the run-time part of the index.
SlotIn(p, kind, lane, x) ==
  LET slot == WrapWord(TableBase(p, lane, kind) + p.base + IndexValue(p.dyn, x[lane]))
  IN  IF p.clamp >= 0 /\ slot > p.clamp THEN p.clamp ELSE slot

Reached(p, kind, lane, x) ==
  WrapWord(p.scale * SlotIn(p, kind, IF p.perLane THEN lane ELSE 1, x) + p.bias)

\* The element of its range a handle names; a single descriptor has one element.
NamedElement(r, u, x) ==
  IF r.range = 1 \/ (r.range = Unbounded /\ r.rejects = "unbounded" /\ ~ r.global) THEN 0
  ELSE WrapWord(IndexValue(u.index, x) - (IF r.lib \/ r.global THEN 0 ELSE r.register))

\* The slot of its heap, or of its array, that D3D12 says the handle names.
NamedSlot(r, b, u, lane, x) ==
  LET k == LocalEntry(env, r)
      element == NamedElement(r, u, x)
  IN  CASE r.global -> WrapWord(IndexValue(u.index, x))
        [] k > 0 -> LET t == LocalTable(env, r, k) IN
                    WrapWord(RecordWord(k, lane, 0) + t.offset + (r.register - t.register) + element)
        [] OTHER -> IF b.heap THEN WrapWord(TableWord(b.root) + b.offset + element) ELSE element

\* The run-time parts that can occur: lanes differ only where the shader says so.
Inputs(u) == {x \in [Lanes -> 0 .. 3] : u.nonUniform \/ x[1] = x[2]}

\* The smallest offset that is aligned and behind all earlier entries.
RecordPosition(k) ==
  LET e(j) == env.signature[j]
      Size(j) == IF e(j).type = "constants" THEN 4 * e(j).words ELSE 8
      Ok(f) == \A j \in 1 .. k : /\ e(j).type # "constants" => f[j] % 8 = 0
                                 /\ j > 1 => f[j] >= f[j - 1] + Size(j - 1)
      layouts == {f \in [1 .. k -> {4 * n : n \in 0 .. 8}] : Ok(f)}
      best == CHOOSE f \in layouts : \A g \in layouts : \A j \in 1 .. k : f[j] <= g[j]
  IN  best[k]

PointerAsBound(r, p) ==
  IF p.from = "recordEntry"
    THEN RecordOffset(env.signature, p.at) = RecordPosition(LocalEntry(env, r))
    ELSE MemberOffset(p.at) = (IF r.binding.type = "push" THEN 8 * env.descriptors + 4 * r.binding.root
                               ELSE 8 * r.binding.root)

PartAsBound(h, p) ==
  LET r == ranges[h.range]
      b == IF p.what = "counter" THEN r.counter ELSE r.binding
      Limit == IF r.kind = "sampler" THEN SamplerHeapMax ELSE env.heapSize
  IN  IF p.from \in {"recordEntry", "pushMember"} THEN PointerAsBound(r, p)
      ELSE \A x \in Inputs(h.use), lane \in Lanes :
             LET named == NamedSlot(r, b, h.use, lane, x[lane])
                 computed == r.global \/ h.use.index.op # "none" \/ p.from = "record"
             IN  /\ named < Limit =>
                      Reached(p, r.kind, lane, x) = WrapWord(p.scale * named + p.bias)
                 /\ env.robust /\ references[h.range].ref.bindless /\ computed /\ r.range # 1 =>
                      SlotIn(p, r.kind, lane, x) <= Limit

\* In every lane a handle reaches the descriptor that its registers, the remapper and
\* the local root signature name, and so do its counter and the offset of its view
\* (emit_create_handle with the references of emit_srvs, emit_uavs, emit_cbvs,
\* emit_samplers and emit_global_heaps); with descriptor_heap_robustness an index that
\* is computed never leaves the heap.
DescriptorsAsBound ==
  ~ stopped => \A j \in DOMAIN handles : \A p \in handles[j].parts : PartAsBound(handles[j], p)

\* A row of root constants is read from the words the caller bound to it; a word behind
\* the block reads as zero, or as some word of the block if the row is computed.
RowsAsBound ==
  ~ stopped => \A j \in DOMAIN handles : \A c \in 0 .. 3, x \in 0 .. 3 :
    LET h == handles[j]
        ref == references[h.range].ref
        w == ranges[h.range].binding.root + 4 * IndexValue(h.use.row, x) + c
        read == RowWord(ref.member, h.use.row, c, x)
    IN  ref.kind = "constants" =>
          IF w < env.words THEN read = 8 * env.descriptors + 4 * w
          ELSE read = -1 \/ (h.use.row.op # "const" /\ read >= 8 * env.descriptors)

\* A variable that several ranges share allows what each of them does, and no range
\* uses one that is bound elsewhere or typed otherwise (create_bindless_heap_variable).
VariablesFit ==
  \A i \in DOMAIN references : \A j \in DOMAIN references[i].ref.vars :
    LET r == ranges[i]
        v == declared[references[i].ref.vars[j]]
    IN  /\ v.class = r.class /\ v.kind = r.kind /\ v.set = r.binding.set
        /\ v.component = r.components[j]
        /\ r.class = "UAV" => /\ r.read => v.read /\ (r.atomic => v.format # "unknown")
                              /\ r.written => v.written
                              /\ r.coherent => v.coherent
                              /\ v.read # r.read => r.global
                              /\ v.written # r.written => r.global
                              /\ \A c \in DOMAIN references[i].counter.vars :
                                   LET w == declared[references[i].counter.vars[c]]
                                   IN  w.set = r.counter.set /\ w.kind = references[i].counter.kind
=============================================================================
