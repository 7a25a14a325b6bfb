------------------------------ MODULE AGSPackets ------------------------------
(***************************************************************************)
(* The AMD shader intrinsics (AGS) protocol of opcodes/dxil/dxil_ags.cpp.  *)
(*                                                                         *)
(* A shader asks for an intrinsic by a packet: a run of magic              *)
(* AtomicCompareExchange calls on a dummy UAV, with an ordinary load or    *)
(* store between them that names the resource.  dxil-spirv reassembles the *)
(* packets three times over the same basic blocks: in the primary and the  *)
(* secondary analysis pass, to learn how each resource is accessed, and    *)
(* when it emits SPIR-V, to replace each packet by one operation.          *)
(*                                                                         *)
(* The calls write what the headers under shaders/ags do.  What the        *)
(* operations compute is left out; that a data format is not supported is  *)
(* an attribute of the call.                                               *)
(***************************************************************************)
EXTENDS Integers, Sequences, SequencesExt

CONSTANTS
    MaxCalls,        \* calls a shader makes, and matrices it passes on
    Buffers,         \* its UAV buffers
    Textures,        \* and its UAV textures
    LaneAddressing,  \* plain accesses may use a one-record intrinsic's result
    MaxInstructions  \* records a packet may have

VARIABLES
    block,     \* the instructions of the shader
    made,      \* the calls that return a matrix, with their result registers
    want,      \* the operations the shader asks for, in order
    pass,      \* "write", "primary", "secondary", "emit", "done"
    at,        \* the instruction the pass is at
    packet,    \* ags.backdoor_instructions[0 .. num_instructions - 1]
    phase,     \* ags.current_phase
    hook,      \* ags.active_read_backdoor (0 is nullptr)
    ptr,       \* ags.active_uav_ptr and active_uav_op
    component, \* ags.coopmat_component_mapping and the ids of the values
    tracking,  \* uav_access_tracking
    emitted,   \* the operations emitted so far
    failed     \* a pass has returned false

agsVars == <<block, made, want, pass, at, packet, phase, hook, ptr, component,
             tracking, emitted, failed>>

Uavs == Buffers \union Textures
NoUav == [uav |-> "none", op |-> "none"]

-----------------------------------------------------------------------------
(* The shader: what the AGS header writes for a call.                      *)

Instruction == [kind |-> "magic", op |-> "none", phase |-> 0, io |-> 0,
                in |-> <<0, 0>>, uav |-> "none", supported |-> TRUE]
Record(op, ph) == [Instruction EXCEPT !.op = op, !.phase = ph]
Hooked(op, ph, v) == [Record(op, ph) EXCEPT !.in = <<v, 0>>]
Access(kind, uav, v) ==
    [Instruction EXCEPT !.kind = kind, !.uav = uav, !.in = <<v, 0>>]

\* Four records that pass the eight registers m of a matrix, two by two.
MatrixIn(op, ph, m) ==
    [i \in 1..4 |-> [Record(op, ph) EXCEPT !.io = i - 1,
                                           !.in = <<m[2 * i - 1], m[2 * i]>>]]
\* Eight records whose results are the registers of a matrix.
MatrixOut(op, ph) == [i \in 1..8 |-> [Record(op, ph) EXCEPT !.io = i - 1]]

Returning == {"UavLoad", "LdsLoad", "Copy", "MulAcc", "Fill", "ElementFill", "Arith"}
MatrixInputs ==
    [UavStore |-> 1, LdsStore |-> 1, Copy |-> 1, ElementFill |-> 1,
     ElementExtract |-> 1, Arith |-> 2, MulAcc |-> 3, UavLoad |-> 0,
     LdsLoad |-> 0, Fill |-> 0, AtomicU64 |-> 0, Lane |-> 0]

\* The instructions of one call when b instructions precede it; ms are the
\* registers of the matrices it takes.
Header(op, uav, ms, b) ==
    LET ins(ph) == FlattenSeq([i \in 1..Len(ms) |-> MatrixIn(op, ph, ms[i])])
    IN  CASE op = "Lane" -> <<Record(op, 0)>>
          [] op = "AtomicU64" -> <<Record(op, 0), Record(op, 1),
                                   Access("store", uav, b + 1), Record(op, 2)>>
          [] op = "UavLoad" -> <<Record(op, 0), Access("load", uav, b + 1),
                                 Access("extract", "none", b + 2), Hooked(op, 1, b + 3)>>
                               \o MatrixOut(op, 2)
          [] op = "LdsLoad" -> <<Record(op, 0), Access("gep", "lds", b + 1),
                                 Access("atomicrmw", "none", b + 2), Hooked(op, 1, b + 3)>>
                               \o MatrixOut(op, 2)
          [] op = "UavStore" -> <<Record(op, 0), Access("load", uav, b + 1),
                                  Access("extract", "none", b + 2)>>
                                \o ins(1) \o <<Hooked(op, 2, b + 3)>>
          [] op = "LdsStore" -> <<Record(op, 0), Access("gep", "lds", b + 1),
                                  Access("atomicrmw", "none", b + 2)>>
                                \o ins(1) \o <<Hooked(op, 2, b + 3)>>
          [] op = "Copy" -> <<Record(op, 0)>> \o ins(0) \o <<Record(op, 1)>>
                            \o MatrixOut(op, 2)
          [] op = "Fill" -> <<Record(op, 0)>> \o MatrixOut(op, 1)
          [] op = "ElementExtract" -> ins(0) \o <<Record(op, 1)>>
          [] OTHER -> ins(0) \o <<Record(op, 1)>> \o MatrixOut(op, 2)

\* The resource a call names.
Resource(op, uav) ==
    IF op \in {"LdsLoad", "LdsStore"} THEN "lds"
    ELSE IF op \in {"AtomicU64", "UavLoad", "UavStore"} THEN uav ELSE "none"

Written == Len(want) + Len(SelectSeq(block, LAMBDA i : i.kind = "forward")) \div 8

\* The shader makes a call: on an image only an atomic, with matrices an
\* earlier call returned.
WriteCall ==
    /\ pass = "write" /\ Written < MaxCalls
    /\ \E op \in DOMAIN MatrixInputs, uav \in Uavs, supported \in BOOLEAN :
       \E ms \in [1..MatrixInputs[op] -> {made[i] : i \in 1..Len(made)}] :
         LET b == Len(block)
             is == Header(op, uav, [i \in 1..Len(ms) |-> ms[i].registers], b)
             e == b + Len(is)
         IN  /\ op \in {"UavLoad", "UavStore"} => uav \in Buffers
             /\ op \notin {"AtomicU64", "UavLoad", "UavStore"} =>
                    uav = CHOOSE u \in Uavs : TRUE
             /\ block' = block \o [i \in 1..Len(is) |->
                                     [is[i] EXCEPT !.supported = supported]]
             /\ want' = Append(want, [op |-> op, uav |-> Resource(op, uav),
                                      mats |-> [i \in 1..Len(ms) |-> ms[i].id]])
             /\ made' = IF op \in Returning
                        THEN Append(made, [id |-> e, registers |-> [i \in 1..8 |-> e - 8 + i]])
                        ELSE made
    /\ UNCHANGED <<pass, at, packet, phase, hook, ptr, component, tracking,
                   emitted, failed>>

\* The registers of a matrix go through phis or a variable before they are used.
WriteForward ==
    /\ pass = "write" /\ Written < MaxCalls
    /\ \E i \in 1..Len(made) :
         LET b == Len(block)
         IN  /\ block' = block \o [r \in 1..8 |-> Access("forward", "none", made[i].registers[r])]
             /\ made' = Append(made, [id |-> made[i].id, registers |-> [r \in 1..8 |-> b + r]])
    /\ UNCHANGED <<want, pass, at, packet, phase, hook, ptr, component, tracking,
                   emitted, failed>>

\* The records whose results the header hands to the shader as numbers.
Results ==
    {v \in 1..Len(block) :
        \/ block[v].op = "Lane" /\ LaneAddressing
        \/ block[v].op = "AtomicU64" /\ block[v].phase \in {0, 2}}

\* An ordinary load or store, at a plain address or at such a result.
WriteAccess ==
    /\ pass = "write" /\ Written < MaxCalls
    /\ \E kind \in {"load", "store"}, uav \in Uavs, v \in 0..Len(block) :
         /\ v # 0 => v \in Results
         /\ block' = Append(block, Access(kind, uav, v))
         /\ want' = Append(want, [op |-> kind, uav |-> uav, mats |-> <<>>])
    /\ UNCHANGED <<made, pass, at, packet, phase, hook, ptr, component, tracking,
                   emitted, failed>>

-----------------------------------------------------------------------------
(* Reassembling packets.                                                   *)

BeginsByOpcode(i) == packet # <<>> /\ block[i].op # block[packet[1]].op

\* A record begins a new packet: an earlier phase, or another opcode.
BeginsPacket(i) ==
    \/ block[i].phase < phase
    \/ packet # <<>> /\ block[i].op # block[packet[1]].op

\* push_ags_instruction.
Push(i) ==
    LET new == BeginsPacket(i)
        p == IF new THEN <<>> ELSE packet
        ph == IF new THEN 0 ELSE phase
        fits == /\ block[i].phase \in {ph, ph + 1}
                /\ block[i].phase <= Len(p)
                /\ Len(p) < MaxInstructions
    IN  [packet |-> IF fits THEN Append(p, i) ELSE p,
         phase |-> IF fits THEN block[i].phase ELSE ph,
         hook |-> IF new THEN 0 ELSE hook]

\* WaveMatrixCopy: some shaders write dummy inputs before the four real ones.
ShiftCopy(s) ==
    IF s.packet # <<>> /\ block[s.packet[1]].op = "Copy" /\ s.phase = 1
       /\ Len(s.packet) > 5
    THEN [s EXCEPT !.packet = SubSeq(@, Len(@) - 4, Len(@))]
    ELSE s

\* What the emitter of each opcode waits for and insists on: the number of
\* records, where the matrices it takes start and their phase, the phases of
\* single records, the record that carries the hooked load, the phase of the
\* returned registers (9 is none).
Emitter(n, ins, inPhase, single, hooked, out) ==
    [records |-> n, inputs |-> ins, inPhase |-> inPhase, single |-> single,
     hooked |-> hooked, out |-> out]
EmitLane == Emitter(1, <<>>, 0, {}, 0, 9)
EmitAtomicU64 == Emitter(3, <<>>, 0, {}, 0, 9)
EmitWmmaLoad == Emitter(10, <<>>, 0, {<<1, 0>>, <<2, 1>>}, 2, 2)
EmitWmmaStore == Emitter(6, <<2>>, 1, {<<1, 0>>, <<6, 2>>}, 6, 9)
EmitWmmaConvert == Emitter(13, <<1>>, 0, {<<5, 1>>}, 0, 2)
EmitWmmaMuladd == Emitter(21, <<1, 5, 9>>, 0, {<<13, 1>>}, 0, 2)
EmitWmmaFill == Emitter(9, <<>>, 0, {}, 0, 1)
EmitElementInsert == Emitter(13, <<1>>, 0, {}, 0, 2)
EmitElementExtract == Emitter(5, <<1>>, 0, {}, 0, 9)
EmitElementWiseArith == Emitter(17, <<1, 5>>, 0, {<<9, 1>>}, 0, 2)
EmitterOf ==
    [Lane |-> EmitLane, AtomicU64 |-> EmitAtomicU64, UavLoad |-> EmitWmmaLoad,
     LdsLoad |-> EmitWmmaLoad, UavStore |-> EmitWmmaStore, LdsStore |-> EmitWmmaStore,
     Copy |-> EmitWmmaConvert, MulAcc |-> EmitWmmaMuladd, Fill |-> EmitWmmaFill,
     ElementFill |-> EmitElementInsert, ElementExtract |-> EmitElementExtract,
     Arith |-> EmitElementWiseArith]

Complete(p) == p # <<>> /\ Len(p) = EmitterOf[block[p[1]].op].records

\* The returned registers are the last eight records, in order and phase.
ValidReturns(p, ph) ==
    \A i \in 0..7 : block[p[Len(p) - 7 + i]].io = i /\ block[p[Len(p) - 7 + i]].phase = ph

\* The four records from s on take phis or loads only: the first alone has a value.
AllForwarded(p, s) ==
    \A i \in 0..3, j \in 1..2 : block[block[p[s + i]].in[j]].kind = "forward"

\* The matrix of the four records from s on: one matrix, its registers in order.
ValidInputs(p, s, ph) ==
    \A i \in 0..3 :
        LET r == block[p[s + i]]
        IN  /\ r.phase = ph /\ r.io = i
            /\ \A j \in 1..2 :
                 /\ r.in[j] \in DOMAIN component
                 /\ component[r.in[j]].component = 2 * i + j - 1
                 /\ \/ AllForwarded(p, s)
                    \/ component[r.in[j]].id = component[block[p[s]].in[1]].id

\* emit_wmma_return_values: the registers stand for the matrix with this id.
WithReturns(p, id) ==
    [v \in {p[i] : i \in Len(p) - 7..Len(p)} |->
        [id |-> id, component |-> (CHOOSE i \in 1..Len(p) : p[i] = v) - (Len(p) - 7)]]
    @@ component

-----------------------------------------------------------------------------
(* The passes.                                                             *)

IsMagic == at <= Len(block) /\ block[at].kind = "magic"
Reassembled(s) == packet' = s.packet /\ phase' = s.phase /\ hook' = s.hook

\* Primary pass, on a record: analyze_magic_ags_instruction.
AnalyzeMagic ==
    /\ pass = "primary" /\ IsMagic /\ ~failed
    /\ \E s \in {ShiftCopy(Push(at))} :
         LET e == EmitterOf[block[s.packet[1]].op]
             returns == s.packet # <<>> /\ Complete(s.packet) /\ e.out # 9
         IN  /\ Reassembled(s)
             /\ failed' = (returns /\ ~ValidReturns(s.packet, e.out))
             /\ component' = IF returns /\ ~failed' THEN WithReturns(s.packet, 0) ELSE component
    /\ at' = at + 1
    /\ UNCHANGED <<block, made, want, pass, ptr, tracking, emitted>>

\* Secondary pass, on a record: analyze_prepass_ags_dxil_atomic_op.
AnalyzePrepass ==
    /\ pass = "secondary" /\ IsMagic /\ ~failed
    /\ Reassembled(Push(at))
    /\ at' = at + 1
    /\ UNCHANGED <<block, made, want, pass, ptr, component, tracking, emitted, failed>>

\* The access at the instruction is addressed by the packet's first record.
Redirected(n) == Len(packet) = n /\ block[at].in[1] = packet[1]

\* analyze_ags_buffer_load, and analyze_dxil_buffer_load when it declines.
TrackedLoad ==
    IF ~Redirected(1) THEN {"read", "raw"}
    ELSE CASE block[packet[1]].op = "UavStore" -> {"written", "b8"}
           [] block[packet[1]].op = "UavLoad" -> {"read", "b8"}
           [] OTHER -> {}

\* analyze_ags_buffer_store within analyze_dxil_buffer_store.
TrackedStore(uav) ==
    {"written", "raw"} \union
    (IF Redirected(2)
     THEN {"atomic", "read", IF uav \in Textures THEN "image64" ELSE "b64"} ELSE {})

\* Texture accesses are analysed in the primary pass, texture stores in both,
\* buffer accesses in the secondary pass.
AnalyzeAccess ==
    /\ pass \in {"primary", "secondary"} /\ ~failed
    /\ at <= Len(block) /\ block[at].kind # "magic"
    /\ LET i == block[at]
           analysed == \/ i.kind = "load" /\ (i.uav \in Textures <=> pass = "primary")
                       \/ i.kind = "store" /\ (i.uav \in Textures \/ pass = "secondary")
           flags == IF i.kind = "load" THEN TrackedLoad ELSE TrackedStore(i.uav)
       IN  tracking' = IF analysed THEN [tracking EXCEPT ![i.uav] = @ \union flags]
                                   ELSE tracking
    /\ at' = at + 1
    /\ UNCHANGED <<block, made, want, pass, packet, phase, hook, ptr, component,
                   emitted, failed>>

\* What an emitted operation does to its resource.
Needs(op, uav) ==
    CASE op = "load" -> {"read", "raw"}
      [] op = "store" -> {"written", "raw"}
      [] op = "AtomicU64" -> {"read", "written", "atomic",
                              IF uav \in Textures THEN "image64" ELSE "b64"}
      [] op = "UavLoad" -> {"read", "b8"}
      [] op = "UavStore" -> {"written", "b8"}
      [] OTHER -> {}

\* Emission, on a record: the packet is retired when it is complete.  The
\* phase is left as it is.
Retired(s) == [s EXCEPT !.packet = <<>>]

EmitMagic ==
    /\ pass = "emit" /\ IsMagic /\ ~failed
    /\ \E s \in {ShiftCopy(Push(at))} :
         IF Complete(s.packet)
         THEN LET p == s.packet
                  op == block[p[1]].op
                  e == EmitterOf[op]
                  valid ==
                    /\ block[p[Len(p)]].supported
                    /\ \A x \in e.single : block[p[x[1]]].phase = x[2]
                    /\ e.hooked # 0 => s.hook # 0 /\ block[p[e.hooked]].in[1] = s.hook
                    /\ \A j \in 1..Len(e.inputs) : ValidInputs(p, e.inputs[j], e.inPhase)
                    /\ e.out # 9 => ValidReturns(p, e.out)
                    /\ op = "AtomicU64" => ptr.op = "store" /\ ptr.uav # "none"
              IN  /\ failed' = ~valid
                  /\ Reassembled(Retired(s))
                  /\ emitted' =
                       IF ~valid THEN emitted
                       ELSE Append(emitted,
                              [op |-> op,
                               uav |-> IF op \in {"Lane", "Copy", "MulAcc", "Fill", "ElementFill",
                                                  "ElementExtract", "Arith"} THEN "none" ELSE ptr.uav,
                               mats |-> [j \in 1..Len(e.inputs) |->
                                           component[block[p[e.inputs[j]]].in[1]].id]])
                  /\ component' = IF valid /\ e.out # 9 THEN WithReturns(p, at) ELSE component
         ELSE /\ Reassembled(s)
              /\ UNCHANGED <<emitted, component, failed>>
    /\ at' = at + 1
    /\ UNCHANGED <<block, made, want, pass, ptr, tracking>>

\* Emission of a load, store, group-shared address, extract or atomicrmw: it
\* names the resource of the packet in progress, or is what it looks like.
EmitAccess ==
    /\ pass = "emit" /\ ~failed
    /\ at <= Len(block) /\ block[at].kind \notin {"magic", "forward"}
    /\ LET i == block[at]
           names == \/ i.kind \in {"load", "gep"} /\ Redirected(1)
                    \/ i.kind = "store" /\ Redirected(2)
           follows == i.kind \in {"extract", "atomicrmw"} /\ i.in[1] = hook
       IN  /\ ptr' = IF names THEN [uav |-> i.uav, op |-> i.kind] ELSE ptr
           /\ hook' = IF (names /\ i.kind # "store") \/ follows THEN at ELSE hook
           /\ emitted' = IF names \/ follows THEN emitted
                         ELSE Append(emitted, [op |-> i.kind, uav |-> i.uav, mats |-> <<>>])
    /\ at' = at + 1
    /\ UNCHANGED <<block, made, want, pass, packet, phase, component, tracking, failed>>

\* ags_filter_phi, ags_llvm_load_filter: the component of a matrix goes on, and the
\* first component with the matrix.
EmitForward ==
    /\ pass = "emit" /\ ~failed
    /\ at <= Len(block) /\ block[at].kind = "forward"
    /\ LET v == block[at].in[1]
       IN  component' =
             IF v \notin DOMAIN component THEN component
             ELSE at :> [id |-> IF component[v].component = 0 THEN component[v].id ELSE 0,
                         component |-> component[v].component] @@ component
    /\ at' = at + 1
    /\ UNCHANGED <<block, made, want, pass, packet, phase, hook, ptr, tracking, emitted, failed>>

NextPass == [write |-> "primary", primary |-> "secondary", secondary |-> "emit",
             emit |-> "done"]

\* The end of the block: ags.reset(); after the analysis also reset_analysis().
EndPass ==
    /\ pass # "done" /\ ~failed
    /\ pass = "write" => want # <<>>
    /\ pass # "write" => at = Len(block) + 1
    /\ pass' = NextPass[pass] /\ at' = 1
    /\ packet' = <<>> /\ phase' = 0 /\ hook' = 0
    /\ component' = IF pass = "secondary" THEN <<>> ELSE component
    /\ UNCHANGED <<block, made, want, ptr, tracking, emitted, failed>>

AGSInit ==
    /\ block = <<>> /\ made = <<>> /\ want = <<>>
    /\ pass = "write" /\ at = 1
    /\ packet = <<>> /\ phase = 0 /\ hook = 0 /\ ptr = NoUav
    /\ component = <<>> /\ tracking = [u \in Uavs |-> {}]
    /\ emitted = <<>> /\ failed = FALSE

AGSNext ==
    \/ WriteCall \/ WriteForward \/ WriteAccess \/ EndPass
    \/ AnalyzeMagic \/ AnalyzePrepass \/ AnalyzeAccess
    \/ EmitMagic \/ EmitAccess \/ EmitForward

AGSSpec == AGSInit /\ [][AGSNext]_agsVars

-----------------------------------------------------------------------------
(* Properties.                                                             *)

\* The operations emitted are the ones the shader asked for, in its order,
\* each on the resource and the matrices its own packet named: no packet takes
\* a record, a matrix or a stale resource pointer of another, none is lost,
\* and only an unsupported format makes the conversion fail
\* (emit_magic_ags_instruction).
EmittedAsWritten ==
    /\ IsPrefix(emitted, want)
    /\ pass = "done" => emitted = want
    /\ failed => \E i \in 1..Len(block) : ~block[i].supported

\* Every emitted operation does to its resource only what the analysis passes
\* found, which decides the aliases and the decorations the resource is
\* declared with (analyze_ags_buffer_load, analyze_ags_buffer_store).
AccessesTracked ==
    pass \in {"emit", "done"} =>
        \A i \in 1..Len(emitted) :
            emitted[i].uav \in Uavs =>
                Needs(emitted[i].op, emitted[i].uav) \subseteq tracking[emitted[i].uav]
=============================================================================
