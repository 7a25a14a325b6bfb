------------------------------ MODULE StageIO ------------------------------
(***************************************************************************)
(* What the shaders of a pipeline hand to each other.  The shaders are     *)
(* converted one by one: the elements of a D3D signature become SPIR-V     *)
(* variables with locations or built-ins (dxil_converter.cpp), and every   *)
(* loadInput, storeOutput, loadPatchConstant, ... becomes an access to one *)
(* component of such a variable (dxil_resources.cpp, dxil_tessellation.cpp,*)
(* dxil_mesh.cpp, dxil_geometry.cpp).                                      *)
(*                                                                         *)
(* A shader is converted, run by its invocations, and then the next one    *)
(* reads what was left in the interface.  What it should have read follows *)
(* from the registers of the two signatures alone.                         *)
(***************************************************************************)
EXTENDS Integers, Sequences, FiniteSets, SequencesExt, TLC

CONSTANTS Pipelines,   \* the shaders of a pipeline, in order, with their options
          HalfBits,    \* bits of the narrow component types; the wide have twice as many
          Vertices,    \* vertices of a primitive, control points of a patch
          MaxControlPoints \* the size given to a hull shader's unsized inputs

ASSUME StageAssumption == Vertices \in Nat \ {0} /\ MaxControlPoints >= Vertices

VARIABLES
  pipeline, \* the pipeline at hand
  at,       \* the shader being converted or run
  phase,    \* "inputs", "outputs", "patch", "lower", "run"
  element,  \* the signature element the conversion is at
  made,     \* the shader's variables, by signature and element
  distances,\* clip and cull distances counted so far, by signature
  offset,   \* patch_location_offset; -1 where the code has ~0u
  pc,       \* where each invocation is
  private,  \* PatchLoweringRows
  recorded, \* where the embedder saw the previous shader's outputs go, by name
  interface,\* what the previous shader left, by slot
  written,  \* what this one has written
  wrong     \* loads that got something else than the signatures say

sioVars == <<pipeline, at, phase, element, made, distances, offset, pc, private,
             recorded, interface, written, wrong>>

Shader == pipeline.shaders[at]
Stage == Shader.stage
Options == pipeline.options
Invocations == 0 .. Vertices - 1

\* Stages whose inputs are arrays over the vertices of a primitive.
StageArrayedInputs == Stage \in {"geometry", "hull", "domain"}
StageArrayedOutputs == Stage \in {"hull", "mesh"}

-----------------------------------------------------------------------------
(* Component types.  Narrow types are widened in the interface unless both *)
(* the interface and the arithmetic can be narrow.                         *)

Narrow(type) == type \in {"F16", "I16", "U16"}
Widened(type) == CASE type = "F16" -> "F32" [] type = "I16" -> "I32" [] type = "U16" -> "U32"
                   [] OTHER -> type
Unsigned(type) == CASE type = "I16" -> "U16" [] type = "I32" -> "U32" [] OTHER -> type
Width(type) == IF Narrow(type) THEN HalfBits ELSE 2 * HalfBits

NativeHalf == Options.nativeHalf
EffectiveType(type) == IF Options.storage16 /\ (type # "F16" \/ NativeHalf) THEN type ELSE Widened(type)

SignExtend(x, from, to) == IF x >= 2^(from - 1) THEN x + 2^to - 2^from ELSE x

\* build_value_cast: the sign of the target decides before that of the source.
CastSigned(input, output) == output \in {"I16", "I32"} \/ input \in {"I16", "I32"}
ValueCast(x, input, output) ==
  IF Width(input) = Width(output) \/ input \in {"F16", "F32"} THEN x
  ELSE IF Width(output) < Width(input) THEN x % 2^Width(output)
  ELSE IF CastSigned(input, output) THEN SignExtend(x, Width(input), Width(output)) ELSE x

\* The type a value has in the shader: floats stay wide without native halves.
ShaderType(type) == Unsigned(IF type = "F16" /\ ~NativeHalf THEN "F32" ELSE type)
StoreFixup(type, x) == ValueCast(x, ShaderType(type), EffectiveType(type))
LoadFixup(type, x) == ValueCast(x, EffectiveType(type), ShaderType(type))

\* The bits a shader hands on: the largest of the type, negative if it is signed.
ShaderBits(type) == 2^Width(ShaderType(type)) - 1
\* What the next shader or the blender is to find for them in a wide interface.
InterfaceBits(type) ==
  IF type \in {"F16", "F32"} THEN ShaderBits(type)
  ELSE IF type \in {"I16", "I32"} THEN SignExtend(ShaderBits(type), Width(type), Width(EffectiveType(type)))
  ELSE ShaderBits(type)

-----------------------------------------------------------------------------
(* emit_builtin_decoration                                                 *)

BuiltIn(system, direction) ==
  CASE system = "Position" -> IF Stage = "pixel" THEN "FragCoord" ELSE "Position"
    [] system = "RenderTargetArrayIndex" -> "Layer"
    [] system = "ViewPortArrayIndex" -> "ViewportIndex"
    [] system = "ShadingRate" -> IF direction = "outputs" THEN "PrimitiveShadingRate" ELSE "ShadingRate"
    [] system = "TessFactor" -> "TessLevelOuter"
    [] system = "InsideTessFactor" -> "TessLevelInner"
    [] system = "Barycentrics" -> "BaryCoord"
    [] system = "InternalBarycentricsNoPerspective" -> "BaryCoordNoPersp"
    [] OTHER -> system

\* VUID-StandaloneSpirv-Flat-04744: integers are not interpolated.
RequiresFlat(system, direction) ==
  /\ Stage = "pixel" /\ direction = "inputs"
  /\ \/ system \in {"SampleIndex", "RenderTargetArrayIndex", "ViewPortArrayIndex", "PrimitiveID"}
     \/ system = "ShadingRate" /\ ~Options.ignoreShadingRate

\* emit_interpolation_decorations
Interpolation(mode) ==
  CASE mode = "constant" -> {"Flat"}
    [] mode = "centroid" -> {"Centroid"}
    [] mode = "sample" -> {"Sample"}
    [] mode = "noperspective" -> {"NoPerspective"}
    [] mode = "noperspectiveCentroid" -> {"NoPerspective", "Centroid"}
    [] mode = "noperspectiveSample" -> {"NoPerspective", "Sample"}
    [] OTHER -> {}

WithPerspective(mode) ==
  CASE mode = "noperspective" -> "linear" [] mode = "noperspectiveCentroid" -> "centroid"
    [] mode = "noperspectiveSample" -> "sample" [] OTHER -> mode

\* emit_builtin_interpolation_decorations
BuiltInInterpolation(system, mode) ==
  CASE system \in {"Barycentrics", "InternalBarycentricsNoPerspective"} -> Interpolation(mode)
    [] system = "Position" -> Interpolation(WithPerspective(mode))
    [] OTHER -> {}

\* adjust_system_value
AdjustedSystem(e) == IF e.system = "Barycentrics" /\ e.mode # WithPerspective(e.mode)
                     THEN "InternalBarycentricsNoPerspective" ELSE e.system
AdjustedMode(e) == IF e.system = "Barycentrics" THEN WithPerspective(e.mode) ELSE e.mode

-----------------------------------------------------------------------------
(* Variables.  A variable without a built-in has a location and the first  *)
(* of its components; "per" says whether there is one for each vertex, for *)
(* each primitive or for each patch.                                       *)

Variable(e, system, direction, cols) ==
  [element |-> e, system |-> system, direction |-> direction, builtin |-> "",
   private |-> FALSE, array |-> 0, rows |-> e.rows, cols |-> cols, type |-> EffectiveType(e.type),
   location |-> 0, component |-> 0, index |-> 0, per |-> "vertex", stream |-> 0,
   decorations |-> {}, semanticOffset |-> 0, lowering |-> FALSE]

\* A clip or cull distance element lives in the one array of its kind.
Distance(e, system, direction, first) ==
  [Variable(e, system, direction, e.cols) EXCEPT !.builtin = system, !.semanticOffset = first]

IsDistance(system) == system \in {"ClipDistance", "CullDistance"}

\* remap_stage_input of the embedder: behind a mesh shader the outputs are found by
\* name, those of the primitives included, at the locations remap_stage_output saw.
RemappedRows(e) ==
  IF Stage = "pixel" /\ e.name \in DOMAIN recorded /\ pipeline.shaders[at - 1].stage = "mesh"
  THEN recorded[e.name]
  ELSE [location |-> e.row, component |-> e.col, per |-> "vertex"]

\* emit_stage_input_variables, the body of the loop.
InputVariable(e) ==
  LET system == IF Stage = "domain" /\ AdjustedSystem(e) # "DomainLocation" THEN "User"
                ELSE AdjustedSystem(e)
      masked == system = "ShadingRate" /\ Options.ignoreShadingRate
      bary == system \in {"Barycentrics", "InternalBarycentricsNoPerspective"}
      cols == IF system = "Position" THEN 4
              ELSE IF bary /\ ~Options.khrBarycentrics THEN 2 ELSE e.cols
      arrayed == StageArrayedInputs /\ system \notin {"PrimitiveID", "ShadingRate", "DomainLocation"}
      perVertex == e.atVertex /\ Stage = "pixel"
      mode == IF ~arrayed /\ perVertex /\ Options.khrBarycentrics THEN "linear" ELSE AdjustedMode(e)
      place == RemappedRows(e)
      base == [Variable(e, system, "inputs", cols) EXCEPT
                 !.private = masked,
                 !.array = IF arrayed THEN (IF Stage = "hull" THEN MaxControlPoints ELSE Vertices)
                           ELSE IF perVertex /\ Options.khrBarycentrics THEN 3 ELSE 0,
                 !.decorations = IF ~perVertex THEN {}
                                 ELSE IF Options.khrBarycentrics THEN {"PerVertex"} ELSE {"ExplicitInterp"}]
  IN  IF IsDistance(system) THEN Distance(e, system, "inputs", distances["inputs"][system])
      ELSE IF system # "User"
      THEN [base EXCEPT !.builtin = BuiltIn(system, "inputs"),
                        !.decorations = @ \cup (IF RequiresFlat(system, "inputs") THEN {"Flat"} ELSE {})
                                          \cup (IF Stage = "pixel" THEN BuiltInInterpolation(system, mode) ELSE {})]
      ELSE [base EXCEPT !.decorations = @ \cup (IF Stage = "pixel" THEN Interpolation(mode) ELSE {}),
                        !.location = place.location, !.per = place.per,
                        !.component = IF Stage = "vertex" THEN 0 ELSE place.component]

\* build_geometry_stream_row_offsets: each stream's rows follow those of the streams before.
RowsOfStream(s) ==
  LET ends == {o.row + o.rows : o \in {p \in ToSet(Shader.outs) : p.stream = s}}
  IN  Max(ends \cup {0})
StreamOffset(s) == FoldFunction(+, 0, [t \in 0 .. s - 1 |-> RowsOfStream(t)])

\* emit_stage_output_variables, the body of the loop.
MaskedTarget(e) == Shader.dualSource /\ e.row >= 2
OutputVariable(e) ==
  LET masked == Options.ignoreShadingRate /\ e.system = "ShadingRate"
      demoted == Stage = "hull" \/ (Stage = "domain" /\ e.system = "ShadingRate")
      system == IF demoted /\ ~masked THEN "User" ELSE e.system
      base == [Variable(e, system, "outputs", IF system = "Position" THEN 4 ELSE e.cols) EXCEPT
                 !.private = masked,
                 !.array = IF StageArrayedOutputs THEN Vertices ELSE 0,
                 !.stream = IF Stage = "geometry" THEN e.stream ELSE 0]
  IN  CASE IsDistance(system) -> Distance(e, system, "outputs", distances["outputs"][system])
        [] system = "Target" ->
             [base EXCEPT !.location = IF Shader.dualSource THEN 0 ELSE e.row,
                          !.index = IF Shader.dualSource THEN e.row ELSE 0,
                          !.semanticOffset = IF Shader.dualSource THEN 0 ELSE e.row,
                          !.component = e.col]
        [] system \notin {"User", "Target", "ClipDistance", "CullDistance"} ->
             [base EXCEPT !.builtin = BuiltIn(system, "outputs")]
        [] system = "User" ->
             [base EXCEPT !.location = e.row + (IF Stage = "geometry" THEN StreamOffset(e.stream) ELSE 0),
                          !.component = e.col]

\* emit_patch_variables, the body of the loop.
IsFactor(system) == system \in {"TessFactor", "InsideTessFactor"}
FactorRows(e) == CASE e.system = "TessFactor" -> 4 [] e.system = "InsideTessFactor" -> 2
                   [] OTHER -> e.rows
Broken == Stage = "hull" /\ pipeline.dxilconv
PatchVariable(e) ==
  LET earlier == {x \in DOMAIN made : x[1] = "patch" /\ IsFactor(e.system) /\ made[x].system = e.system}
      base == [Variable(e, e.system, "patch", e.cols) EXCEPT
                 !.rows = FactorRows(e), !.per = IF Stage = "mesh" THEN "primitive" ELSE "patch",
                 !.array = IF Stage = "mesh" THEN Vertices ELSE 0,
                 !.lowering = Broken /\ e.system = "User"]
  IN  IF earlier # {}
      THEN [made[CHOOSE x \in earlier : TRUE] EXCEPT !.element = e, !.semanticOffset = e.row]
      ELSE IF e.system # "User" THEN [base EXCEPT !.builtin = BuiltIn(e.system, "patch")]
      ELSE [base EXCEPT !.location = e.row + Max({offset, 0}), !.component = e.col]

\* The rows emit_patch_variables gives PatchLoweringRows.
LoweringRows == Max({0} \cup {e.row + e.rows : e \in {p \in ToSet(Shader.patch) : p.system = "User"}})

-----------------------------------------------------------------------------
(* A slot is one component of the interface between two shaders.           *)

Slot(variable, vertex, row, col) ==
  LET v == IF variable.per = "patch" THEN 0 ELSE vertex
  IN  IF variable.builtin # "" THEN <<"builtin", variable.builtin, v, row, col>>
      ELSE <<variable.per, variable.stream + variable.index, v, variable.location + row, variable.component + col>>

\* get_clip_cull_distance_access_chain: rows and columns are flattened.
Flattened(variable, row, col) == row * variable.element.cols + col + variable.semanticOffset

\* Where an access to a component of an element goes.
Accessed(variable, vertex, row, col) ==
  IF IsDistance(variable.builtin) THEN <<"builtin", variable.builtin, vertex, Flattened(variable, row, col), 0>>
  ELSE IF variable.direction = "patch" THEN Slot(variable, vertex, row + variable.semanticOffset, col)
  ELSE Slot(variable, vertex, row, col)

\* The column of a render target, moved by the swizzle of the target (emit_store_output).
Swizzled(variable, col) ==
  LET swizzle == IF variable.semanticOffset + 1 \in DOMAIN Options.swizzles
                 THEN Options.swizzles[variable.semanticOffset + 1] ELSE << >>
  IN  IF Stage = "pixel" /\ variable.cols > 1 /\ \E k \in DOMAIN swizzle : swizzle[k] = col
      THEN (CHOOSE k \in DOMAIN swizzle : swizzle[k] = col) - 1
      ELSE col

Components(e) == {<<row, col>> : row \in 0 .. e.rows - 1, col \in 0 .. e.cols - 1}

\* What a shader writes to a component: who wrote it, and the bits.
Value(e, component, vertex, bits) == <<at, e.name, component, vertex, bits>>

NoSignature == <<0, "", <<0, 0>>, 0, 0>>

-----------------------------------------------------------------------------
(* What the signatures say: the producer's element on the same registers,  *)
(* or the primitive's element of the same name.                            *)

Covers(p, row, col) == row \in p.row .. p.row + p.rows - 1 /\ col \in p.col .. p.col + p.cols - 1
RegisterOf(e, component) == <<e.row + component[1], e.col + component[2]>>

\* The shader whose outputs reach this one: a hull shader without a body hands on its inputs.
Linked(e, component, elements) ==
  LET register == RegisterOf(e, component)
      matches == {p \in ToSet(elements) : p.stream = 0 /\ Covers(p, register[1], register[2])}
  IN  IF matches = {} THEN << >>
      ELSE LET p == CHOOSE q \in matches : TRUE
           IN  <<p, <<register[1] - p.row, register[2] - p.col>>>>

LinkedByName(e, component, elements) ==
  LET matches == {p \in ToSet(elements) : p.name = e.name}
  IN  IF matches = {} THEN << >> ELSE <<CHOOSE q \in matches : TRUE, component>>

Expected(e, component, vertex, signature) ==
  LET before == IF at = 1 THEN << >>
                ELSE IF signature = "patch" THEN pipeline.shaders[at - 1].patch
                ELSE pipeline.shaders[at - 1].outs
      primitive == Stage = "pixel" /\ at > 1 /\ pipeline.shaders[at - 1].stage = "mesh"
                     /\ \E p \in ToSet(pipeline.shaders[at - 1].patch) : p.name = e.name
      link == IF primitive THEN LinkedByName(e, component, pipeline.shaders[at - 1].patch)
              ELSE Linked(e, component, before)
      writer == IF at > 2 /\ pipeline.shaders[at - 1].passthrough /\ signature # "patch" THEN at - 2 ELSE at - 1
  IN  IF link = << >> THEN NoSignature
      ELSE <<writer, link[1].name, link[2], IF signature = "patch" \/ primitive THEN 0 ELSE vertex,
             ShaderBits(link[1].type)>>

-----------------------------------------------------------------------------
(* Values that the device supplies.  Numbers stand for them: One for 1.0,  *)
(* so that reciprocals and 1 - i - j stay whole.                           *)

One == 8
BaseIndex == 3

\* In the variable: the indices count from the base of the draw, w is not inverted,
\* and without SPV_KHR_fragment_shader_barycentric only i and j are there.
Supplied(variable, col) ==
  CASE variable.builtin \in {"InstanceID", "VertexID"} -> BaseIndex + 1
    [] variable.builtin = "FragCoord" -> <<5, 6, 7, 2>>[col + 1]
    [] variable.builtin \in {"BaryCoord", "BaryCoordNoPersp"} ->
         IF Options.khrBarycentrics THEN <<5, 1, 2>>[col + 1] ELSE <<1, 2>>[col + 1]
    [] OTHER -> 1

\* In D3D.
Meant(e, col) ==
  CASE e.system = "Position" -> <<5, 6, 7, 4>>[col + 1]
    [] e.system = "Barycentrics" -> <<5, 1, 2>>[col + 1]
    [] e.system = "IsFrontFace" -> 2^(2 * HalfBits) - 1
    [] OTHER -> 1

IsSupplied(e) == \/ e.system \in {"InstanceID", "VertexID", "IsFrontFace", "SampleIndex", "Barycentrics"}
                 \/ e.system = "Position" /\ Stage = "pixel"

\* emit_amd_bary_coord_load, fixup_builtin_load
AmdBary(variable, col) ==
  IF col >= 1 THEN Supplied(variable, col - 1) ELSE One - Supplied(variable, 0) - Supplied(variable, 1)

FixedUp(variable, col) ==
  LET x == Supplied(variable, col)
  IN  CASE variable.builtin \in {"InstanceID", "VertexID"} -> x - BaseIndex
        [] variable.builtin = "IsFrontFace" -> IF x = 0 THEN 0 ELSE 2^(2 * HalfBits) - 1
        [] variable.builtin = "FragCoord" /\ col = 3 -> One \div x
        [] OTHER -> x

LoadSupplied(variable, col) ==
  IF variable.builtin \in {"BaryCoord", "BaryCoordNoPersp"} /\ ~Options.khrBarycentrics
  THEN AmdBary(variable, col) ELSE FixedUp(variable, col)

-----------------------------------------------------------------------------
(* Loads and stores                                                        *)

In(slots, slot) == IF slot \in DOMAIN slots THEN slots[slot] ELSE NoSignature
WithBits(value, bits) == [value EXCEPT ![5] = bits]

\* emit_load_input, emit_load_patch_constant: the vertex is an operand where there is
\* one variable per vertex, and vertex 0 provokes otherwise.
Load(variable, vertex, component) ==
  LET value == In(interface, Accessed(variable, vertex, component[1], component[2]))
  IN  WithBits(value, LoadFixup(variable.element.type, value[5]))

VerticesRead(variable) == IF variable.array = 0 THEN {0} ELSE Invocations \cap 0 .. variable.array - 1

ReadsOf(signature) ==
  UNION {{<<made[x], v, c>> : v \in VerticesRead(made[x]), c \in Components(made[x].element)} :
           x \in {y \in DOMAIN made : y[1] = signature /\ ~made[y].private}}

MissedLoads(signature) ==
  {<<r[1].element.name, r[2], r[3]>> : r \in
     {q \in ReadsOf(signature) :
        IF IsSupplied(q[1].element)
        THEN LoadSupplied(q[1], q[3][2]) # Meant(q[1].element, q[3][2])
        ELSE Load(q[1], q[2], q[3]) # Expected(q[1].element, q[3], q[2], signature)}}

\* emit_store_output, emit_store_vertex_output, emit_store_primitive_output: what an
\* invocation leaves in the slots of one variable.
StoredAt(variable, vertex) ==
  LET e == variable.element
      slotOf == [c \in Components(e) |-> Accessed(variable, vertex, c[1], Swizzled(variable, c[2]))]
  IN  [slot \in {slotOf[c] : c \in Components(e)} |->
         LET c == CHOOSE d \in Components(e) : slotOf[d] = slot
         IN  Value(e, c, vertex, StoreFixup(e.type, ShaderBits(e.type)))]

Merged(slots, others) ==
  [slot \in DOMAIN slots \cup DOMAIN others |-> IF slot \in DOMAIN others THEN others[slot] ELSE slots[slot]]

StoreAll(signature, vertices) ==
  FoldSet(LAMBDA x, acc : Merged(acc, StoredAt(made[x[1]], x[2])),
          written,
          {y \in DOMAIN made : y[1] = signature /\ ~made[y].private} \X vertices)

\* build_hull_passthrough_function: input i of the control point to output i.
Passed(vertex) ==
  LET pairs == {k \in DOMAIN Shader.ins : k \in DOMAIN Shader.outs}
      input(k) == made[<<"inputs", k>>]
      output(k) == made[<<"outputs", k>>]
  IN  FoldSet(LAMBDA k, acc :
        Merged(acc, [slot \in {Accessed(output(k), vertex, c[1], c[2]) : c \in Components(Shader.ins[k])} |->
                       LET c == CHOOSE d \in Components(Shader.ins[k]) :
                                  Accessed(output(k), vertex, d[1], d[2]) = slot
                       IN  In(interface, Accessed(input(k), vertex, c[1], c[2]))]),
        written, pairs)

-----------------------------------------------------------------------------
(* The patch constant function of a hull shader.                           *)

\* dxilconv stores to registers past the end of an element: everything through the first
\* element that begins early enough.
StoresThrough(e) ==
  LET early == {p \in ToSet(Shader.patch) : p.system = "User" /\ p.row <= e.row /\ p.col <= e.col}
  IN  IF Broken /\ e.system = "User"
      THEN CHOOSE p \in early : \A q \in early : p.row <= q.row ELSE e
PatchStores == UNION {{<<e, StoresThrough(e), c>> : c \in Components(e)} : e \in ToSet(Shader.patch)}

PatchValue(e, c) == Value(e, c, 0, StoreFixup(e.type, ShaderBits(e.type)))

\* What the shader writes for component c of element e when it names the element
\* `through' (which may begin at another row of the same registers).
StoreOperands(e, through, c) == <<e.row + c[1] - through.row, e.col + c[2] - through.col>>

\* emit_store_patch_constant on an element that is lowered: the rows of
\* PatchLoweringRows are registers, so that the start of the element is added.
LoweredRow(through, operands) == <<operands[1] + through.row, operands[2] + through.col>>
LoweredStores ==
  LET stores == {s \in PatchStores : Broken /\ s[1].system = "User"}
      row(s) == LoweredRow(s[2], StoreOperands(s[1], s[2], s[3]))
  IN  [r \in {row(s) : s \in stores} |->
         LET s == CHOOSE t \in stores : row(t) = r IN PatchValue(s[1], s[3])]

\* emit_patch_output_lowering: after the function has returned.
Lowered(rows) ==
  LET users == {x \in DOMAIN made : x[1] = "patch" /\ made[x].lowering}
      copied(x) == [slot \in {Slot(made[x], 0, c[1], c[2]) : c \in Components(made[x].element)} |->
                      LET e == made[x].element
                          c == CHOOSE d \in Components(e) : Slot(made[x], 0, d[1], d[2]) = slot
                      IN  In(rows, <<e.row + c[1], e.col + c[2]>>)]
  IN  FoldSet(LAMBDA x, acc : Merged(acc, copied(x)), << >>, users)

DirectStores ==
  LET direct == {x \in DOMAIN made : x[1] = "patch" /\ ~made[x].lowering}
  IN  FoldSet(LAMBDA x, acc : Merged(acc, StoredAt(made[x], 0)), written, direct)

\* loadOutputControlPoint: the control points the patch function finds unwritten.
MissedControlPoints ==
  {<<"control point", v, <<0, 0>>>> : v \in
     {u \in Invocations : \E x \in DOMAIN made : x[1] = "outputs" /\ ~made[x].private
        /\ \E c \in Components(made[x].element) : In(written, Accessed(made[x], u, c[1], c[2])) = NoSignature}}

-----------------------------------------------------------------------------
NoDistances == [s \in {"inputs", "outputs"} |-> [d \in {"ClipDistance", "CullDistance"} |-> 0]]

StageInit ==
  /\ pipeline \in Pipelines
  /\ at = 1 /\ phase = "inputs" /\ element = 1
  /\ made = << >> /\ distances = NoDistances /\ offset = -1
  /\ pc = [i \in Invocations |-> "main"]
  /\ private = << >> /\ recorded = << >> /\ interface = << >> /\ written = << >>
  /\ wrong = {}

Signature == CASE phase = "inputs" -> Shader.ins [] phase = "outputs" -> Shader.outs
               [] phase = "patch" -> Shader.patch
NextPhase == CASE phase = "inputs" -> "outputs" [] phase = "outputs" -> "patch" [] phase = "patch" -> "run"

\* The offset behind which the patch constants go, unless the embedder has given it
\* (dxil_spv_converter_set_patch_location_offset).
AutoPatchLocation(e) ==
  IF /\ ~(Options.passOffset /\ at > 1 /\ Stage = "domain")
     /\ \/ phase = "inputs" /\ Stage = "domain"
        \/ phase = "outputs" /\ Stage \in {"hull", "mesh"}
  THEN Max({offset, 0, e.row + e.rows}) ELSE offset

Counted(variable) ==
  IF IsDistance(variable.builtin)
  THEN [distances EXCEPT ![phase][variable.builtin] = @ + variable.rows * variable.cols]
  ELSE distances

\* remap_stage_output
Recorded(variable) ==
  IF variable.direction # "inputs" /\ variable.builtin = ""
  THEN Merged(recorded, variable.element.name :>
         [location |-> variable.location, component |-> variable.component, per |-> variable.per])
  ELSE recorded

DeclareElement(Make(_)) ==
  /\ element \in DOMAIN Signature
  /\ \E e \in {Signature[element]} : \E variable \in {Make(e)} :
       /\ offset' = AutoPatchLocation(e)
       /\ IF phase = "outputs" /\ MaskedTarget(e) THEN UNCHANGED <<made, distances, recorded>>
          ELSE /\ made' = Merged(made, <<phase, element>> :> variable)
               /\ distances' = Counted(variable)
               /\ recorded' = Recorded(variable)
  /\ element' = element + 1
  /\ UNCHANGED <<pipeline, at, phase, pc, private, interface, written, wrong>>

DeclareInput == phase = "inputs" /\ DeclareElement(InputVariable)
DeclareOutput == phase = "outputs" /\ DeclareElement(OutputVariable)
DeclarePatch == phase = "patch" /\ DeclareElement(PatchVariable)

EndDeclarations ==
  /\ phase \in {"inputs", "outputs", "patch"} /\ element = Len(Signature) + 1
  /\ phase' = NextPhase /\ element' = 1
  /\ UNCHANGED <<pipeline, at, made, distances, offset, pc, private, recorded, interface, written, wrong>>

\* One invocation runs the shader: a vertex, a control point, or the whole primitive.
Alone == Stage \in {"pixel", "geometry", "mesh"}
Stores(i) ==
  CASE Stage = "hull" /\ Shader.passthrough -> Passed(i)
    [] Stage \in {"vertex", "hull", "domain"} /\ ~Shader.passthrough -> StoreAll("outputs", {i})
    [] Stage \in {"pixel", "geometry"} -> StoreAll("outputs", {0})
    [] Stage = "mesh" -> Merged(StoreAll("outputs", Invocations), StoreAll("patch", Invocations))

RunMain(i) ==
  /\ phase = "run" /\ pc[i] = "main" /\ (Alone => i = 0)
  /\ wrong' = wrong \cup (IF Shader.passthrough THEN {} ELSE MissedLoads("inputs"))
                    \cup (IF Stage = "domain" THEN MissedLoads("patch") ELSE {})
  /\ written' = Stores(i)
  /\ pc' = [pc EXCEPT ![i] = IF Stage = "hull" THEN "barrier" ELSE "done"]
  /\ UNCHANGED <<pipeline, at, phase, element, made, distances, offset, private, recorded, interface>>

\* build_hull_main: a barrier, then invocation 0 alone runs the patch constant function.
NoBarrier == TRUE
PassBarrier == \A j \in Invocations : pc[j] # "main"

RunPatch(i) ==
  /\ phase = "run" /\ pc[i] = "barrier" /\ PassBarrier
  /\ IF i = 0
     THEN /\ wrong' = wrong \cup MissedControlPoints
          /\ private' = LoweredStores
          /\ written' = Merged(DirectStores, Lowered(LoweredStores))
     ELSE UNCHANGED <<wrong, private, written>>
  /\ pc' = [pc EXCEPT ![i] = "done"]
  /\ UNCHANGED <<pipeline, at, phase, element, made, distances, offset, recorded, interface>>

Finished == phase = "run" /\ \A i \in Invocations : pc[i] = "done" \/ (Alone /\ i # 0)

NextShader ==
  /\ Finished /\ at < Len(pipeline.shaders)
  /\ at' = at + 1 /\ phase' = "inputs" /\ element' = 1
  /\ made' = << >> /\ distances' = NoDistances
  /\ offset' = IF Options.passOffset THEN offset ELSE -1
  /\ pc' = [i \in Invocations |-> "main"]
  /\ private' = << >>
  /\ interface' = written /\ written' = << >>
  /\ UNCHANGED <<pipeline, recorded, wrong>>

StageNext ==
  \/ DeclareInput \/ DeclareOutput \/ DeclarePatch \/ EndDeclarations
  \/ \E i \in Invocations : RunMain(i) \/ RunPatch(i)
  \/ NextShader

StageSpec == StageInit /\ [][StageNext]_sioVars

-----------------------------------------------------------------------------
(* Every load of a component of an input, a patch constant or a control    *)
(* point yields what the shader before stored to the same register, or     *)
(* what D3D says the device supplies there: through the widening of narrow *)
(* types, HS to DS system values, the offset of patch constants, hull      *)
(* shaders without a body, dxilconv's stores past the end of an element,   *)
(* and the barrier in front of the patch constant function.                *)
SignaturesLink == wrong = {}

PlacedRows == {x \in DOMAIN made : made[x].builtin = "" /\ ~made[x].private}
LocationsOf(variable) ==
  {<<variable.index, variable.location + c[1], variable.component + c[2]>> : c \in Components(variable.element)}
InSameInterface(a, b) == (a.direction = "inputs") = (b.direction = "inputs") \/ Stage = "domain"
OwnRows(variable) == variable.element.rows + variable.semanticOffset

(* No two variables of one interface share a component of a location,      *)
(* those of different geometry streams and the patch constants included;   *)
(* every index an access uses is within the variable; an integer input of  *)
(* a pixel shader is flat or per vertex.                                   *)
InterfacesFit ==
  phase = "run" =>
    /\ \A x \in PlacedRows, y \in PlacedRows :
         x # y /\ InSameInterface(made[x], made[y]) => LocationsOf(made[x]) \cap LocationsOf(made[y]) = {}
    /\ \A x \in DOMAIN made :
         IF IsDistance(made[x].builtin)
         THEN \A c \in Components(made[x].element) :
                Flattened(made[x], c[1], c[2]) < distances[x[1]][made[x].builtin]
         ELSE /\ made[x].direction = "patch" => OwnRows(made[x]) <= made[x].rows
              /\ made[x].builtin \notin {"BaryCoord", "BaryCoordNoPersp"} =>
                   made[x].element.cols <= made[x].cols
    /\ \A x \in DOMAIN made, y \in DOMAIN made :
         x # y /\ x[1] = y[1] /\ IsDistance(made[x].builtin) /\ made[x].builtin = made[y].builtin =>
           \A c \in Components(made[x].element), d \in Components(made[y].element) :
             Flattened(made[x], c[1], c[2]) # Flattened(made[y], d[1], d[2])
    /\ \A r \in DOMAIN private : r[1] < LoweringRows /\ r[2] < 4
    /\ Stage = "pixel" =>
         \A x \in DOMAIN made :
           x[1] = "inputs" /\ ~made[x].private /\ made[x].element.type \notin {"F16", "F32"}
             /\ made[x].builtin # "IsFrontFace" =>
               made[x].decorations \cap {"Flat", "PerVertex", "ExplicitInterp"} # {}

(* A pixel shader's targets: what is written for component c of target t    *)
(* reaches the component that the swizzle names, with its sign.             *)
TargetsAsSwizzled ==
  Finished /\ Stage = "pixel" =>
    \A x \in DOMAIN made :
      x[1] = "outputs" /\ made[x].system = "Target" =>
        \A c \in Components(made[x].element) :
          LET e == made[x].element
              t == IF Shader.dualSource THEN 0 ELSE e.row
              to == IF t + 1 \in DOMAIN Options.swizzles /\ e.cols > 1
                    THEN {k - 1 : k \in {j \in DOMAIN Options.swizzles[t + 1] : Options.swizzles[t + 1][j] = c[2]}}
                    ELSE {c[2]}
          IN  \A k \in to : In(written, <<"vertex", IF Shader.dualSource THEN e.row ELSE 0, 0, t + c[1], e.col + k>>) =
                              Value(e, c, 0, InterfaceBits(e.type))
=============================================================================
