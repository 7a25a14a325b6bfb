--------------------------- MODULE ViewInstancing ---------------------------
(***************************************************************************)
(* View instancing (dxil_geometry.cpp, dxil_mesh.cpp).  A draw runs once   *)
(* for each view; what it rasterizes goes to the layer and the viewport    *)
(* the shader names plus the offsets of the view.  Either the hardware     *)
(* iterates over the views and picks the layers (ViewIndex), or the        *)
(* embedder draws each view by itself with a constant that holds the view  *)
(* and its layer.  A shader that names a layer itself rules the hardware's *)
(* iteration out.                                                          *)
(***************************************************************************)
EXTENDS Integers, Sequences, FiniteSets

CONSTANTS ViewSetups,   \* the options and the shader: see MC module
          LayerOffset,  \* view -> its render target array offset
          ViewportOffset, \* view -> its viewport offset
          HalfWord,     \* 2^16 in the code: the view in the low half, the layer above
          Primitives,   \* the most primitives a mesh shader declares
          Named         \* layers and viewports a shader may name

VARIABLES
  setup,     \* the options, the stage and what the shader declares
  view,      \* the view at hand
  step,      \* "entry", "body", "returned"
  viewMap,   \* view_index_to_view_instance_id: what it was created as
  mapUses,   \* what it has been used as
  outputs,   \* the outputs as they stand; for a mesh shader by primitive
  drawn,     \* what reached the rasterizer: the outputs and what the shader named
  named      \* what the shader named since the last vertex

viVars == <<setup, view, step, viewMap, mapUses, outputs, drawn, named>>

ViewIds == DOMAIN LayerOffset
Unwritten == -1
Before == -1   \* setup.counted of a mesh shader until it has set its counts
Blank == [layer |-> Unwritten, viewport |-> Unwritten, position |-> "undefined"]
Unnamed == [layer |-> 0, viewport |-> 0]
Slots == IF setup.stage = "mesh" THEN 0 .. Primitives - 1 ELSE {0}

ASSUME VIConstants ==
  /\ HalfWord \in Nat \ {0} /\ Primitives \in Nat \ {0} /\ Named \subseteq Nat
  /\ ViewIds \subseteq 0 .. HalfWord - 1 /\ DOMAIN ViewportOffset = ViewIds
  /\ \A v \in ViewIds : LayerOffset[v] \in Nat /\ ViewportOffset[v] \in Nat
  /\ ViewSetups \subseteq
       [enable : BOOLEAN, last : BOOLEAN, viewSpec : BOOLEAN, viewportSpec : BOOLEAN, ubo : BOOLEAN,
        masks : BOOLEAN, mask : SUBSET ViewIds, stage : {"vertex", "domain", "geometry", "mesh"},
        declaresLayer : BOOLEAN, declaresViewport : BOOLEAN, threads : Nat \ {0}, counted : {Before, 0}]
  /\ \A s \in ViewSetups : s.counted = Before <=> s.stage = "mesh"

PerView == setup.enable /\ setup.last
CustomLayer == setup.declaresLayer /\ setup.enable
CustomViewport == setup.declaresViewport /\ setup.enable

-----------------------------------------------------------------------------
(* The view and its offsets                                                *)

\* The constant of the embedder (emit_view_instance_ubo, build_layer_offset_id).
Packed(v) == v + HalfWord * LayerOffset[v]
LayerFromUBO(v) == Packed(v) \div HalfWord
ViewFromUBO(v) == Packed(v) % HalfWord

\* build_view_instance_id: the hardware's index through a map of two bits each.
HardwareMultiview == ~CustomLayer /\ setup.viewSpec
ViewMapAs == IF HardwareMultiview THEN "constant" ELSE "ubo"
ViewInstance(v) == IF HardwareMultiview THEN v ELSE ViewFromUBO(v)

\* build_viewport_offset_id: eight bits of a map for each view.
ViewportFromMap(v) == ViewportOffset[ViewInstance(v)]

EmitsFixedOnEntry(entry) == entry

\* should_emit_view_instancing_fixed_layer_viewport
EmitsFixed(entry) == \/ setup.stage \in {"vertex", "domain"}
                     \/ setup.stage \in {"geometry", "mesh"} /\ ~entry

FixedLayer(entry) == PerView /\ ~CustomLayer /\ ~setup.viewSpec /\ EmitsFixed(entry) /\ setup.ubo
FixedViewport(entry) == PerView /\ ~CustomViewport /\ setup.viewportSpec /\ EmitsFixed(entry)

\* emit_workgroup_unrolled_array_store: thread t stores to t, t + threads, ... below the limit.
Unrolled(limit) ==
  {p \in Slots : p < limit /\ \E t \in 0 .. setup.threads - 1, k \in 0 .. Primitives :
                                p = t + k * setup.threads /\ k * setup.threads < Primitives}

WithFixed(entry, limit) ==
  LET slots == IF setup.stage = "mesh" THEN Unrolled(limit) ELSE {0}
  IN  [p \in Slots |->
         IF p \notin slots THEN outputs[p]
         ELSE [outputs[p] EXCEPT !.layer = IF FixedLayer(entry) THEN LayerFromUBO(view) ELSE @,
                                 !.viewport = IF FixedViewport(entry) THEN ViewportFromMap(view) ELSE @]]

FixedMapUses(entry) == (IF FixedLayer(entry) THEN {"ubo"} ELSE {})
                         \cup (IF FixedViewport(entry) THEN {ViewMapAs} ELSE {})
RecordUses(uses) ==
  /\ mapUses' = mapUses \cup uses
  /\ viewMap' = IF viewMap = "none" /\ uses # {} THEN CHOOSE k \in uses : TRUE ELSE viewMap

-----------------------------------------------------------------------------
ViewInit ==
  /\ setup \in ViewSetups /\ view \in ViewIds
  /\ step = "entry" /\ viewMap = "none" /\ mapUses = {}
  /\ outputs = [p \in Slots |-> Blank] /\ drawn = {} /\ named = Unnamed

\* The start of convert_function: emit_view_masking, then the fixed layer and viewport.
Masks == PerView /\ setup.masks
MaskedOut == Masks /\ view \notin setup.mask
Degenerate == setup.stage \in {"vertex", "domain"}

EnterFunction ==
  /\ step = "entry"
  /\ step' = IF MaskedOut THEN "returned" ELSE "body"
  /\ outputs' = IF MaskedOut THEN (IF Degenerate THEN [p \in Slots |-> [outputs[p] EXCEPT !.position = "degenerate"]]
                                   ELSE outputs)
                ELSE WithFixed(TRUE, 0)
  /\ RecordUses((IF Masks THEN {ViewMapAs} ELSE {}) \cup FixedMapUses(TRUE))
  /\ drawn' = IF MaskedOut /\ Degenerate THEN {<<outputs'[0], Unnamed>>} ELSE drawn
  /\ UNCHANGED <<setup, view, named>>

\* emit_store_output, emit_store_primitive_output of the two indices.
StoreLayer(x) ==
  /\ step = "body" /\ setup.declaresLayer /\ setup.counted # Before
  /\ outputs' = [p \in Slots |-> [outputs[p] EXCEPT !.layer = IF PerView THEN x + LayerFromUBO(view) ELSE x]]
  /\ named' = [named EXCEPT !.layer = x]
  /\ RecordUses(IF PerView THEN {"ubo"} ELSE {})
  /\ UNCHANGED <<setup, view, step, drawn>>

StoreViewport(x) ==
  /\ step = "body" /\ setup.declaresViewport /\ setup.counted # Before
  /\ outputs' = [p \in Slots |-> [outputs[p] EXCEPT !.viewport =
                   IF PerView /\ setup.viewportSpec THEN x + ViewportFromMap(view) ELSE x]]
  /\ named' = [named EXCEPT !.viewport = x]
  /\ RecordUses(IF PerView /\ setup.viewportSpec THEN {ViewMapAs} ELSE {})
  /\ UNCHANGED <<setup, view, step, drawn>>

\* A shader writes what it declares before a vertex is out.
AllWritten == \A p \in Slots : /\ setup.declaresLayer => outputs[p].layer # Unwritten
                               /\ setup.declaresViewport => outputs[p].viewport # Unwritten

\* emit_stream: the outputs are undefined once the vertex is out.
EmitVertex ==
  /\ step = "body" /\ setup.stage = "geometry" /\ AllWritten
  /\ drawn' = drawn \cup {<<[WithFixed(FALSE, 0)[0] EXCEPT !.position = "shader"], named>>}
  /\ outputs' = [p \in Slots |-> Blank] /\ named' = Unnamed
  /\ RecordUses(FixedMapUses(FALSE))
  /\ UNCHANGED <<setup, view, step>>

\* emit_set_mesh_output_counts
SetMeshOutputs(limit) ==
  /\ step = "body" /\ setup.stage = "mesh" /\ setup.counted = Before
  /\ setup' = [setup EXCEPT !.counted = limit]
  /\ outputs' = WithFixed(FALSE, limit)
  /\ RecordUses(FixedMapUses(FALSE))
  /\ UNCHANGED <<view, step, drawn, named>>

ReturnFromShader ==
  /\ step = "body" /\ setup.counted # Before
  /\ setup.stage = "geometry" \/ AllWritten
  /\ step' = "returned"
  /\ drawn' = CASE setup.stage = "mesh" -> {<<[outputs[p] EXCEPT !.position = "shader"], named>> :
                                              p \in {q \in Slots : q < setup.counted}}
                [] setup.stage = "geometry" -> drawn
                [] OTHER -> {<<[outputs[0] EXCEPT !.position = "shader"], named>>}
  /\ UNCHANGED <<setup, view, viewMap, mapUses, outputs, named>>

ViewNext ==
  \/ EnterFunction \/ EmitVertex \/ ReturnFromShader
  \/ \E x \in Named : StoreLayer(x) \/ StoreViewport(x)
  \/ \E n \in 0 .. Primitives : SetMeshOutputs(n)

ViewSpec == ViewInit /\ [][ViewNext]_viVars

-----------------------------------------------------------------------------
Written(x) == IF x = Unwritten THEN 0 ELSE x
HardwareLayer == IF PerView /\ HardwareMultiview THEN LayerOffset[view] ELSE 0
StoresViewport == PerView /\ setup.viewportSpec
StoresLayer == PerView /\ (setup.ubo \/ HardwareMultiview)

(* Whatever reaches the rasterizer for a view is in the layer and in the    *)
(* viewport that the shader named plus the offsets of the view, each added  *)
(* once; nothing of a view that is masked out is more than a degenerate     *)
(* vertex; and the one cached identifier of the view map is used only as    *)
(* what it was created as.                                                  *)
ViewsPlaced ==
  /\ \A d \in drawn :
       \/ d[1].position = "degenerate"
       \/ /\ ~MaskedOut
          /\ Written(d[1].layer) + HardwareLayer =
               d[2].layer + (IF StoresLayer THEN LayerOffset[view] ELSE 0)
          /\ Written(d[1].viewport) =
               d[2].viewport + (IF StoresViewport THEN ViewportOffset[view] ELSE 0)
  /\ mapUses \subseteq {viewMap}
=============================================================================
