---------------------------- MODULE MC_Converter ----------------------------
(* What the converter decides for a whole shader, side by side: its        *)
(* bindings, the linking of its stages, its views and the emission of its  *)
(* blocks.  A behaviour runs one of them.                                  *)
EXTENDS MC_Resources, StageIO, ViewInstancing, MC_BlockEmission

VARIABLE running

-----------------------------------------------------------------------------
(* Pipelines of two and three shaders.  Registers have four columns.       *)

E(name, system, type, rows, cols, row, col) ==
  [name |-> name, system |-> system, type |-> type, rows |-> rows, cols |-> cols,
   row |-> row, col |-> col, mode |-> "linear", stream |-> 0, atVertex |-> FALSE]
Flatly(e) == [e EXCEPT !.mode = "constant"]
On(e, s) == [e EXCEPT !.stream = s]
S(stage, ins, outs, patch) ==
  [stage |-> stage, ins |-> ins, outs |-> outs, patch |-> patch, passthrough |-> FALSE, dualSource |-> FALSE]

Plain == [storage16 |-> FALSE, nativeHalf |-> FALSE, ignoreShadingRate |-> FALSE,
          khrBarycentrics |-> TRUE, swizzles |-> << >>, passOffset |-> FALSE]

Pos == E("pos", "Position", "F32", 1, 4, 0, 0)
A == E("a", "User", "F32", 1, 2, 1, 0)
B == Flatly(E("b", "User", "I16", 1, 1, 1, 2))
H == E("h", "User", "F16", 2, 1, 2, 0)
Clip0 == E("clip", "ClipDistance", "F32", 2, 2, 4, 0)
Clip1 == E("clip1", "ClipDistance", "F32", 1, 1, 6, 0)
Cull == E("cull", "CullDistance", "F32", 1, 2, 6, 1)
Rate == Flatly(E("rate", "ShadingRate", "U32", 1, 1, 7, 0))
Prim == Flatly(E("prim", "PrimitiveID", "U32", 1, 1, 7, 1))
LayerOf == Flatly(E("layer", "RenderTargetArrayIndex", "U32", 1, 1, 7, 2))
Bary == E("bary", "Barycentrics", "F32", 1, 3, 9, 0)
FrontFace == Flatly(E("front", "IsFrontFace", "U32", 1, 1, 9, 3))
Sample == Flatly(E("sample", "SampleIndex", "U32", 1, 1, 10, 0))
Instance == E("instance", "InstanceID", "U32", 1, 1, 0, 0)
T(row, type) == E(<<"t0", "t1", "t2">>[row + 1], "Target", type, 1, 4, row, 0)

PixelIns == <<Pos, A, B, H, [Bary EXCEPT !.mode = "noperspective"], FrontFace, Sample>>
VertexPixel(ins, outs, options, dual) ==
  [shaders |-> <<S("vertex", <<Instance>>, ins, << >>),
                 [S("pixel", PixelIns, outs, << >>) EXCEPT !.dualSource = dual]>>,
   options |-> options, dxilconv |-> FALSE]

CP == <<Pos, A, B, E("cpclip", "ClipDistance", "F32", 1, 2, 2, 0)>>
Outer == E("outer", "TessFactor", "F32", 3, 1, 0, 3)
Inner == E("inner", "InsideTessFactor", "F32", 1, 1, 3, 3)
Outer1 == E("outer1", "TessFactor", "F32", 1, 1, 1, 3)
PatchUser == <<E("p", "User", "F32", 1, 2, 1, 0), E("q", "User", "I16", 2, 2, 2, 1)>>
Factors == <<Outer, Inner>>
Split == <<[Outer EXCEPT !.rows = 1], Outer1>>

Tessellated(hull, cp, patch, dsIns, options, conv) ==
  [shaders |-> <<S("vertex", << >>, CP, << >>),
                 [S("hull", CP, cp, patch) EXCEPT !.passthrough = hull],
                 S("domain", dsIns, << >>, patch)>>,
   options |-> options, dxilconv |-> conv]

GeoOuts == <<Pos, A, On(E("s1", "User", "F32", 2, 2, 0, 0), 1), On(E("s2", "User", "F32", 1, 4, 0, 0), 2)>>
Geometry(options) ==
  [shaders |-> <<S("vertex", << >>, <<Pos, A, Clip0, Clip1>>, << >>),
                 S("geometry", <<Pos, A, Clip0, Clip1, Prim>>, GeoOuts, << >>),
                 S("pixel", <<Pos, A>>, <<T(0, "F32")>>, << >>)>>,
   options |-> options, dxilconv |-> FALSE]

MeshPrims == <<E("mp", "User", "F32", 1, 2, 0, 0), Flatly(E("mq", "User", "U32", 1, 1, 1, 0)),
               E("cullp", "CullPrimitive", "U32", 1, 1, 2, 0)>>
Mesh(options) ==
  [shaders |-> <<S("mesh", << >>, <<Pos, A, Clip0, Cull>>, MeshPrims),
                 S("pixel", <<A, E("mp", "User", "F32", 1, 2, 2, 0), Flatly(E("mq", "User", "U32", 1, 1, 3, 0))>>,
                   <<T(0, "I16")>>, << >>)>>,
   options |-> options, dxilconv |-> FALSE]

AtVertex(options) ==
  [shaders |-> <<S("vertex", << >>, <<Pos, A, Cull, Rate, LayerOf>>, << >>),
                 S("pixel", <<[Flatly(A) EXCEPT !.atVertex = TRUE], Cull, LayerOf>>, <<T(0, "U16"), T(1, "F16")>>, << >>)>>,
   options |-> options, dxilconv |-> FALSE]

Narrowing == {[Plain EXCEPT !.storage16 = s, !.nativeHalf = n] : s \in BOOLEAN, n \in BOOLEAN}
BGRA == <<<<2, 1, 0, 3>>>>

MCPipelines ==
  {VertexPixel(<<Pos, A, B, H>>, <<T(0, "I16"), T(1, "F16")>>, o, FALSE) : o \in Narrowing}
  \cup {VertexPixel(<<Pos, A, B, H, Rate>>, <<T(0, "F32"), T(1, "F32"), T(2, "F32")>>, o, d) :
          d \in BOOLEAN,
          o \in {[Plain EXCEPT !.swizzles = w, !.khrBarycentrics = k, !.ignoreShadingRate = ~k] : w \in {<< >>, BGRA}, k \in BOOLEAN}}
  \cup {Tessellated(pass, CP, p, CP, Plain, conv) :
          pass \in BOOLEAN, p \in {Factors \o PatchUser, Split \o PatchUser}, conv \in BOOLEAN}
  \cup {Tessellated(FALSE, CP, Factors \o PatchUser, <<Pos, A>>, [Plain EXCEPT !.passOffset = TRUE], FALSE)}
  \cup {Geometry(Plain), Mesh(Plain), Mesh([Plain EXCEPT !.storage16 = TRUE])}
  \cup {AtVertex([Plain EXCEPT !.khrBarycentrics = k, !.ignoreShadingRate = i]) : k \in BOOLEAN, i \in BOOLEAN}

-----------------------------------------------------------------------------
\* Two views.  A shader that names a layer is drawn with the constant.
MCLayers == 0 :> 1 @@ 1 :> 2
MCViewports == 0 :> 3 @@ 1 :> 0

MCSetups ==
  {s \in [enable: BOOLEAN, last: BOOLEAN, viewSpec: BOOLEAN, viewportSpec: BOOLEAN, ubo: BOOLEAN,
          masks: BOOLEAN, mask: {{0, 1}, {1}}, stage: {"vertex", "domain", "geometry", "mesh"},
          declaresLayer: BOOLEAN, declaresViewport: BOOLEAN, threads: {1, 2}, counted: {Before, 0}] :
     /\ s.counted = IF s.stage = "mesh" THEN Before ELSE 0
     /\ s.stage # "mesh" => s.threads = 1
     /\ s.ubo = (~s.viewSpec \/ s.declaresLayer)}

-----------------------------------------------------------------------------

BindingsIdle ==
  /\ env = << >> /\ ranges = << >> /\ uses = << >> /\ declared = << >>
  /\ references = << >> /\ handles = << >> /\ stopped = << >>
StagesIdle ==
  /\ pipeline = << >> /\ at = << >> /\ phase = << >> /\ element = << >> /\ made = << >>
  /\ distances = << >> /\ offset = << >> /\ pc = << >> /\ private = << >>
  /\ recorded = << >> /\ interface = << >> /\ written = << >> /\ wrong = << >>
ViewsIdle ==
  /\ setup = << >> /\ view = << >> /\ step = << >> /\ viewMap = << >> /\ mapUses = {}
  /\ outputs = << >> /\ drawn = {} /\ named = << >>
EmissionIdle ==
  /\ function = << >> /\ emitted = << >> /\ blocks = << >> /\ nodeId = << >>
  /\ module = << >>

ConverterInit ==
  \/ running = "bindings" /\ RBInit /\ StagesIdle /\ ViewsIdle /\ EmissionIdle
  \/ running = "stages" /\ StageInit /\ BindingsIdle /\ ViewsIdle /\ EmissionIdle
  \/ running = "views" /\ ViewInit /\ BindingsIdle /\ StagesIdle /\ EmissionIdle
  \/ running = "emission" /\ BEInit /\ BindingsIdle /\ StagesIdle /\ ViewsIdle

BindingsStep == running = "bindings" /\ RBNext /\ UNCHANGED <<running, sioVars, viVars, beVars>>
StagesStep == running = "stages" /\ StageNext /\ UNCHANGED <<running, rbVars, viVars, beVars>>
ViewsStep == running = "views" /\ ViewNext /\ UNCHANGED <<running, rbVars, sioVars, beVars>>
EmissionStep == running = "emission" /\ BENext /\ UNCHANGED <<running, rbVars, sioVars, viVars>>

ConverterNext == BindingsStep \/ StagesStep \/ ViewsStep \/ EmissionStep

converterVars == <<running, rbVars, sioVars, viVars, beVars>>
ConverterSpec == ConverterInit /\ [][ConverterNext]_converterVars

-----------------------------------------------------------------------------
\* A handle reaches the descriptor the root signature binds to its register, a row
\* of root constants its own words, and the variable it goes through has been
\* declared for the access (dxil_converter.cpp, dxil_resources.cpp).
BindingsSound == running = "bindings" => DescriptorsAsBound /\ RowsAsBound /\ VariablesFit

\* What a stage reads is what the stage before it wrote, in locations that fit, and
\* render targets get their columns swizzled (emit_stage_output_variables and the
\* accesses of dxil_resources.cpp).
StagesSound == running = "stages" => SignaturesLink /\ InterfacesFit /\ TargetsAsSwizzled

\* Blocks that are split while they are emitted keep the function structured, their
\* phis name the blocks that branch to them, and helper calls fit the helper
\* (SPIRVModule::Impl::emit_basic_block).
EmissionSound == running = "emission" => PhisNamePredecessors /\ BlocksStructured /\ AssumeCallsFit
=============================================================================
