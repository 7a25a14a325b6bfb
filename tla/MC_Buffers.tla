----------------------------- MODULE MC_Buffers -----------------------------
(***************************************************************************)
(* Buffers, side by side: a behaviour translates the accesses to a raw or  *)
(* structured buffer, or a shader that talks to the driver in packets of   *)
(* atomic operations on a reserved buffer.                                 *)
(***************************************************************************)
EXTENDS BufferAccess, AGSPackets

VARIABLE running

-----------------------------------------------------------------------------
(* Small buffers, offsets and drivers.                                     *)

Expr(op, mul, bias) == [op |-> op, mul |-> mul, bias |-> bias]

\* Offsets of the forms the compiler writes: a constant, x, x * mul, and x * mul
\* with a constant that is added, taken away, or or-ed into bits that are clear.
Offsets == {Expr("const", 0, b) : b \in {0, 8, 16, 20}}
             \cup {Expr("none", m, 0) : m \in {1, 4, 12, 16}}
             \cup {Expr("add", m, b) : m \in {1, 8, 16}, b \in {4, 16}}
             \cup {Expr("sub", 8, 8), Expr("or", 16, 4), Expr("or", 16, 8), Expr("or", 8, 4)}
Indices == {Expr("const", 0, 3), Expr("none", 1, 0), Expr("none", 2, 0), Expr("add", 1, 3),
            Expr("sub", 2, 1)}
Fields  == {Expr("const", 0, b) : b \in {0, 8}} \cup {Expr("none", 4, 0)}

ZeroField == Expr("const", 0, 0)
Vectors == {{0}, {0, 1}, {1, 2}, {0, 1, 2, 3}}

RawAccesses(types, masks, offsets) ==
  [kind : {"load"}, type : types, mask : masks, offset : offsets, field : {ZeroField}]
    \cup [kind : {"store"}, type : types, mask : {m \in masks : 0 \in m},
          offset : offsets, field : {ZeroField}]
    \cup [kind : {"atomic"}, type : {"i32"}, mask : {{0}}, offset : offsets, field : {ZeroField}]

StructAccesses(types, masks, fields) ==
  [kind : {"load"}, type : types, mask : masks, offset : Indices, field : fields]
    \cup [kind : {"atomic"}, type : {"i64"}, mask : {{0}}, offset : Indices, field : {ZeroField}]

Amd  == [native16 |-> TRUE, scalarLayout |-> TRUE, componentRobustness |-> TRUE,
         alignment |-> 4, wraps |-> TRUE, chains |-> FALSE]
Old  == [Amd EXCEPT !.native16 = FALSE, !.scalarLayout = FALSE, !.componentRobustness = FALSE,
                    !.alignment = 16, !.wraps = FALSE]
Chain == [Amd EXCEPT !.chains = TRUE, !.alignment = 16]

Raw(storage, view) == [kind |-> "raw", stride |-> 1, storage |-> storage, view |-> view]
Structured(stride, storage, view) ==
  [kind |-> "structured", stride |-> stride, storage |-> storage, view |-> view]

\* Every access on its own, and next to one that wants other elements.
Case(d, b, a) ==
  [driver |-> d, buffer |-> b,
   shaders |-> {<<x>> : x \in a}
                 \cup {<<x, y>> : x \in a, y \in {z \in a : /\ z.mask = {0} /\ z.offset.op = "const"
                                                         /\ z.offset.bias < 8 /\ z.field = ZeroField}}]
Longer == {{0, 1, 2, 3, 4, 5, 6, 7}}

Passing ==
  {Case(d, Raw("ssbo", << >>), RawAccesses({"i16", "f32", "f64"}, Vectors, Offsets)) : d \in {Amd, Old}}
    \cup {Case(Old, Raw("texel", << >>), RawAccesses({"f32"}, Vectors, Offsets)),
          Case(Amd, Raw("ssbo", << >>), RawAccesses({"f32"}, Longer, Offsets)),
          Case(Amd, Raw("pointer", << >>), RawAccesses({"i16", "f32", "i64"}, Vectors, Offsets)),
          Case(Chain, Raw("ssbo", << >>), RawAccesses({"i16", "f32"}, Vectors, Offsets))}
    \cup {Case(d, Structured(s, t, << >>), StructAccesses({"f32"}, Vectors, Fields)) :
            d \in {Amd, Old}, s \in {8, 24}, t \in {"ssbo", "pointer"}}
    \cup {Case(Chain, Structured(s, "ssbo", << >>), StructAccesses({"f32", "f64"}, Vectors, Fields)) :
            s \in {8, 24}}
    \cup {Case(Old, Structured(8, "ssbo", <<o, 24>>), StructAccesses({"f32", "i64"}, Vectors, Fields)) :
            o \in {8, 16}}
    \cup {Case([Old EXCEPT !.alignment = 64], Raw("ssbo", <<16, 32>>),
               RawAccesses({"f32", "i64"}, {{0}, {0, 1, 2, 3}}, Offsets))}

\* A structure of three words, of which the first two are read.
OffsetCases ==
  {Case(Old, Structured(12, "ssbo", <<12, 24>>), StructAccesses({"f32"}, {{0, 1}}, {ZeroField}))}

-----------------------------------------------------------------------------

BAIdle  == driver = << >> /\ buffer = << >> /\ shader = << >> /\ cursor = 0 /\ tracked = {}
             /\ arrays = << >> /\ accessed = << >>
AGSIdle == block = << >> /\ made = << >> /\ want = << >> /\ pass = "idle" /\ at = 0
             /\ packet = << >> /\ phase = 0 /\ hook = 0 /\ ptr = << >> /\ component = << >>
             /\ tracking = << >> /\ emitted = << >> /\ failed = FALSE

BuffersInit ==
  \/ running = "access"  /\ BAInit /\ AGSIdle
  \/ running = "packets" /\ BAIdle /\ AGSInit

BuffersNext ==
  \/ running = "access"  /\ BANext  /\ UNCHANGED <<running, agsVars>>
  \/ running = "packets" /\ AGSNext /\ UNCHANGED <<running, baVars>>

BuffersSpec == BuffersInit /\ [][BuffersNext]_<<running, baVars, agsVars>>

-----------------------------------------------------------------------------
\* Every call of the driver extension in the shader is emitted once, with the
\* operands its packets carried (dxil_ags.cpp), and the first pass has tracked
\* the access to the resource before the second emits it (analyze_ags_*).
PacketsSound == running = "packets" => EmittedAsWritten /\ AccessesTracked

=============================================================================
