---------------------------- MODULE MC_Resources ----------------------------
(***************************************************************************)
(* Small environments and shaders for ResourceBinding: every class of      *)
(* resource at every place, as one descriptor, as an array and as an       *)
(* unbounded range, and pairs of ranges that may share a variable.         *)
(***************************************************************************)
EXTENDS ResourceBinding

Base == [descriptors |-> 2, words |-> 6, signature |-> << >>, samplerLog2 |-> 1,
         resourceLog2 |-> 2, robust |-> FALSE, heapSize |-> 40, physical |-> TRUE,
         readWithoutFormat |-> FALSE, groupCoherence |-> FALSE, ssboAlign |-> 16,
         typedOffsets |-> FALSE, fragment |-> TRUE, pointerStride |-> 2, pointerOffset |-> 1,
         offsetStride |-> 2, offsetBias |-> 1]
Robust == [Base EXCEPT !.robust = TRUE, !.heapSize = 14, !.typedOffsets = TRUE]
PlainEnv == [Base EXCEPT !.physical = FALSE, !.groupCoherence = TRUE, !.readWithoutFormat = TRUE]

At(type, set, heap, root, offset) ==
  [type |-> type, set |-> set, heap |-> heap, root |-> root, offset |-> offset]
Own  == At("texel", 2, FALSE, 0, 0)
Ssbo == At("ssbo", 2, FALSE, 0, 0)
Heap == At("texel", 3, TRUE, 1, 5)
SsboHeap == At("ssbo", 3, TRUE, 3, 4)
Pointer == At("pointer", 0, FALSE, 1, 0)
Push == At("push", 0, FALSE, 3, 0)
Late == At("texel", 3, TRUE, 6, 0)
Input == At("input", 4, FALSE, 0, 0)

RangeOfKind(class, kind) ==
  [class |-> class, kind |-> kind, space |-> 0, register |-> 2, range |-> 1, lib |-> FALSE,
   active |-> TRUE, magic |-> FALSE, global |-> FALSE, rejects |-> "never", binding |-> Own,
   counter |-> Own, hasCounter |-> FALSE, read |-> TRUE, written |-> TRUE, atomic |-> FALSE,
   coherent |-> FALSE, dynamic |-> FALSE, components |-> <<"u32">>, align |-> 16]

Use(r, index, nonUniform) ==
  [how |-> "handle", range |-> 1, index |-> index, nonUniform |-> nonUniform,
   counter |-> r.hasCounter, row |-> NoIndex, lo |-> 0, hi |-> 0, space |-> 0, class |-> r.class]

Ix(op, c) == [op |-> op, c |-> c]
Forms(r) ==
  CASE r.global -> {Ix("const", 4), Ix("value", 0), Ix("add", 3)}
    [] ~ r.global /\ r.lib -> IF r.range = 1 THEN {NoIndex} ELSE {NoIndex, Ix("const", 1), Ix("value", 0), Ix("add", 1)}
    [] OTHER -> IF r.range = 1 THEN {Ix("const", r.register)}
                ELSE {Ix("const", r.register + 1), Ix("value", 0), Ix("add", r.register)}

\* Every way to use a range on its own.
Uses(r) == {Use(r, i, nu) : i \in Forms(r), nu \in BOOLEAN}
             \cup (IF r.lib \/ r.global \/ r.register > 2 THEN {}
                   ELSE {[Use(r, i, FALSE) EXCEPT !.how = "binding", !.lo = lo, !.hi = hi] :
                           i \in Forms(r), lo \in 1 .. 3, hi \in {3, 5}})
Singles(rs) == UNION {{[ranges |-> <<r>>, uses |-> <<u>>] : u \in Uses(r)} : r \in rs}

Sized(r) == {[r EXCEPT !.range = n, !.lib = l] : n \in {1, 3, Unbounded}, l \in BOOLEAN}
Rejected(r) == {[r EXCEPT !.rejects = j, !.range = n] : j \in {"unbounded", "always"}, n \in {3, Unbounded}}
Bound(r, places) == UNION {Sized([r EXCEPT !.binding = b]) : b \in places} \cup Rejected(r)

Structured(class) == [RangeOfKind(class, "structured") EXCEPT !.components = <<"u32", "f32">>, !.align = 4]
CountedRange(type, b, cb) ==
  [RangeOfKind("UAV", "structured") EXCEPT !.hasCounter = TRUE, !.binding = b, !.counter = cb]

SRVs == Bound(RangeOfKind("SRV", "texture2d"), {Own, Heap, Late, Input, Pointer})
          \cup Bound(RangeOfKind("SRV", "raw"), {Ssbo, SsboHeap, Pointer})
          \cup Bound(Structured("SRV"), {Ssbo, SsboHeap})
          \cup Bound(RangeOfKind("SRV", "rtas"), {Own, Heap, SsboHeap, Pointer})
UAVs == Bound([RangeOfKind("UAV", "texture2d") EXCEPT !.atomic = TRUE], {Own, Heap, Pointer})
          \cup Bound([RangeOfKind("UAV", "typed") EXCEPT !.components = <<"f16">>], {Heap})
          \cup Bound(Structured("UAV"), {SsboHeap})
          \cup UNION {Sized(CountedRange("ssbo", b, cb)) :
                        b \in {Heap, Own, SsboHeap}, cb \in {Own, [Heap EXCEPT !.set = 5],
                           [Heap EXCEPT !.set = 5, !.type = "ssbo"], [Own EXCEPT !.type = "ssbo"]}}
          \cup {[RangeOfKind("UAV", "raw") EXCEPT !.magic = TRUE],
                [RangeOfKind("UAV", "raw") EXCEPT !.register = Unbounded, !.space = Unbounded]}
CBVs == Bound([RangeOfKind("CBV", "cbuffer") EXCEPT !.components = <<"f32", "f64">>], {Own, Heap, Pointer})
Samplers == Bound(RangeOfKind("Sampler", "sampler"), {Own, Heap})

\* A typed or SSBO counter is reached through the table of its UAV, so it is bound there.
SameTable(r) == /\ r.hasCounter /\ r.binding.heap /\ r.counter.type \in {"ssbo", "texel"} =>
                     r.counter.root = r.binding.root /\ r.counter.offset = r.binding.offset
Pointers == {[r EXCEPT !.counter.type = "none", !.counter.root = 4, !.counter.offset = 1] :
               r \in {q \in UAVs : q.hasCounter /\ q.counter.heap}}

Global(class, kind, b) == [RangeOfKind(class, kind) EXCEPT !.global = TRUE, !.binding = b, !.range = Unbounded]
Globals == {Global("SRV", "texture2d", Heap), Global("SRV", "rtas", SsboHeap), Global("CBV", "cbuffer", Heap),
            Global("CBV", "cbuffer", Push), Global("Sampler", "sampler", Heap), Global("SRV", "raw", Own),
            [Global("UAV", "structured", SsboHeap) EXCEPT !.hasCounter = TRUE, !.align = 4,
                                                       !.counter = [Heap EXCEPT !.type = "none"]],
            [Global("UAV", "typed", Heap) EXCEPT !.components = <<"f16">>]}

\* Root constants, with rows that are constant or computed.
Rows == {[ranges |-> <<r>>, uses |-> <<[Use(r, NoIndex, FALSE) EXCEPT !.row = row]>>] :
           r \in {[RangeOfKind("CBV", "cbuffer") EXCEPT !.binding = b, !.dynamic = TRUE] :
                    b \in {Push, [Push EXCEPT !.root = 0]}},
           row \in {Ix("const", 0), Ix("const", 1), Ix("value", 0)}}

\* Two ranges of one heap, which do different things.
Accesses == {[[RangeOfKind("UAV", k) EXCEPT !.binding = Heap] EXCEPT !.read = rd, !.written = w, !.coherent = c,
                                                              !.range = 3] :
               k \in {"texture2d", "typed"}, rd \in BOOLEAN, w \in BOOLEAN, c \in BOOLEAN}
Pairs == {[ranges |-> <<a, [b EXCEPT !.register = 8]>>,
           uses |-> <<Use(a, Ix("add", 2), FALSE), [Use(b, Ix("add", 8), FALSE) EXCEPT !.range = 2]>>] :
            a \in Accesses, b \in Accesses}

-----------------------------------------------------------------------------
(* Local root signatures.                                                  *)

Table(class, register, count, offset) ==
  [class |-> class, space |-> 0, register |-> register, count |-> count, offset |-> offset]
TableEntry(ts) == [type |-> "table", class |-> "none", space |-> 0, register |-> 0, words |-> 0, tables |-> ts]
ConstantEntry(n, register) ==
  [type |-> "constants", class |-> "CBV", space |-> 0, register |-> register, words |-> n, tables |-> << >>]
DescriptorEntry(class, register) ==
  [type |-> "descriptor", class |-> class, space |-> 0, register |-> register, words |-> 0, tables |-> << >>]

Local == [Base EXCEPT !.signature =
            <<ConstantEntry(1, 9), TableEntry(<<Table("SRV", 0, 2, 0), Table("SRV", 2, Unbounded, 3),
                                                Table("UAV", 1, 4, 1), Table("CBV", 0, 3, 0)>>),
              DescriptorEntry("SRV", 6), ConstantEntry(2, 8), DescriptorEntry("UAV", 7),
              TableEntry(<<Table("Sampler", 2, 4, 2)>>)>>]

InTables == UNION {Sized([RangeOfKind(c[1], c[2]) EXCEPT !.binding = Heap]) :
                     c \in {<<"SRV", "texture2d">>, <<"UAV", "typed">>, <<"CBV", "cbuffer">>,
                            <<"Sampler", "sampler">>}}
InRecord == {[RangeOfKind("SRV", "raw") EXCEPT !.register = 6], [RangeOfKind("UAV", "structured") EXCEPT !.register = 7],
             [RangeOfKind("SRV", "texture2d") EXCEPT !.register = 6],
             [RangeOfKind("CBV", "cbuffer") EXCEPT !.register = 8, !.range = 3],
             [RangeOfKind("CBV", "cbuffer") EXCEPT !.register = 8]}
LocalCounters == {[CountedRange("ssbo", SsboHeap, [SsboHeap EXCEPT !.set = 5]) EXCEPT !.lib = TRUE]}

Passing ==
  {[env |-> e, shaders |-> Singles(SRVs \cup Samplers \cup CBVs \cup {r \in UAVs : SameTable(r)} \cup Globals)
                             \cup Pairs \cup Rows] : e \in {Base, Robust, PlainEnv}}
    \cup {[env |-> Base, shaders |-> Singles(Pointers)],
          [env |-> Local, shaders |-> Singles(InTables \cup InRecord \cup LocalCounters)]}

\* An acceleration structure whose pointer is read from the heap, behind a shader record.
RecordHeaps ==
  {[env |-> Local, shaders |-> Singles({[RangeOfKind("SRV", "rtas") EXCEPT !.lib = TRUE, !.binding = SsboHeap]})]}
=============================================================================
