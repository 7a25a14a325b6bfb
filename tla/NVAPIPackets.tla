----------------------------- MODULE NVAPIPackets -----------------------------
(***************************************************************************)
(* The NVIDIA shader extension (NVAPI) protocol of                         *)
(* opcodes/dxil/dxil_nvapi.cpp.                                            *)
(*                                                                         *)
(* A shader asks for an intrinsic through a dummy structured buffer: an    *)
(* IncrementCounter is the doorbell, stores at that index set the opcode   *)
(* and the arguments, further IncrementCounters or a load clock the        *)
(* results out, and a few intrinsics end in a fake CallShader or TraceRay. *)
(* dxil-spirv follows the protocol twice over the same instructions: when  *)
(* it analyses the shader and when it emits SPIR-V.                        *)
(*                                                                         *)
(* The intrinsics write what shaders/nvapi/nvHLSLExtns.h does; the order   *)
(* of SPIR-V operands is external.  An argument is a negative number, a    *)
(* result the number of the instruction that clocks it out.                *)
(***************************************************************************)
EXTENDS Integers, Sequences, SequencesExt, TLC

CONSTANTS
    MaxIntrinsics, \* intrinsics a shader asks for
    Intrinsics,    \* the ones it may ask for
    UavKind,       \* the kind of each of its UAVs
    Addresses,     \* byte addresses of its atomics
    MaxOrdinary,   \* ordinary accesses and block ends between them
    Mixing         \* other intrinsics may follow an atomic on a texture

VARIABLES
    text,       \* the instructions of the shader
    asked,      \* the intrinsics it asks for
    stage,      \* "write", "analyse", "emit", "done"
    line,       \* the instruction a pass is at
    inputs,     \* fake_doorbell_inputs
    handles,    \* fake_doorbell_intermediates
    outputs,    \* fake_doorbell_outputs
    doorbell,   \* the IncrementCounter of the intrinsic in progress, 0 is nullptr
    deferred,   \* deferred_opcode
    clocked,    \* clock_output_index
    expected,   \* num_expected_clock_outputs
    marked,     \* marked_uav
    formats,    \* has_nvapi_atomic_fp16bit and fp32bit of uav_access_tracking
    fake,       \* per pass, the instructions recognised as part of an intrinsic
    did,        \* the intrinsics emitted
    results     \* rewrite_value: the results the instructions stand for

nvapiVars == <<text, asked, stage, line, inputs, handles, outputs, doorbell, deferred,
               clocked, expected, marked, formats, fake, did, results>>

-----------------------------------------------------------------------------
(* What the header writes.                                                 *)

\* The parameters of an intrinsic and the slots they are stored to, in order.
HeaderArguments ==
    [Shuffle |-> << <<"value", "src0x">>, <<"lane", "src0y">>, <<"width", "src0z">> >>,
     Fp16Atomic |-> << <<"address", "src0x">>, <<"value", "src1x">>, <<"sub", "src2x">> >>,
     Fp32Atomic |-> << <<"address", "src0x">>, <<"value", "src1x">>, <<"sub", "src2x">> >>,
     Special |-> << <<"sub", "src0x">> >>,
     TraceHit |-> << <<"miss", "src0x">> >>,
     MakeHit |-> << <<"instance", "src0x">>, <<"geometry", "src0y">>,
                    <<"primitive", "src0z">>, <<"hitKind", "src0w">>,
                    <<"offset", "src1x">>, <<"stride", "src1y">> >>,
     MakeHitIndexed |-> << <<"instance", "src0x">>, <<"geometry", "src0y">>,
                           <<"primitive", "src0z">>, <<"hitKind", "src0w">>,
                           <<"record", "src1x">> >>,
     MakeMiss |-> << <<"miss", "src0x">>, <<"tmin", "src0y">>, <<"tmax", "src0z">>,
                     <<"originX", "src1x">>, <<"originY", "src1y">>, <<"originZ", "src1z">>,
                     <<"directionX", "src2x">>, <<"directionY", "src2y">>,
                     <<"directionZ", "src2z">> >>,
     MakeNop |-> <<>>,
     Reorder |-> << <<"with", "src0x">>, <<"object", "src0y">>, <<"hint", "src0z">>,
                    <<"bits", "src0w">> >>,
     Invoke |-> << <<"object", "src0x">> >>,
     Attributes |-> << <<"object", "src0x">> >>,
     IsHit |-> << <<"object", "src0x">> >>,
     GetHitKind |-> << <<"object", "src0x">> >>,
     InstanceID |-> << <<"object", "src0x">> >>,
     RayDesc |-> << <<"object", "src0x">> >>,
     RootConstant |-> << <<"object", "src0x">>, <<"offset", "src0y">> >>,
     ClusterId |-> <<>>]

OpcodeLast == {"Shuffle", "Fp16Atomic", "Fp32Atomic"}
Atomics == {"Fp16Atomic", "Fp32Atomic"}
MakesObject == {"TraceHit", "MakeHit", "MakeHitIndexed", "MakeMiss", "MakeNop"}
UsesObject == {"Reorder", "Invoke", "Attributes", "IsHit", "GetHitKind", "InstanceID",
               "RayDesc", "RootConstant"}
\* How many times the header reads the counter after the arguments.
HeaderReads(op) ==
    CASE op \in {"TraceHit", "MakeHit", "MakeHitIndexed"} -> 2
      [] op = "RayDesc" -> 8
      [] op \in Atomics -> 0
      [] OTHER -> 1

Line == [kind |-> "inc", slot |-> "none", value |-> 0, door |-> 0, uav |-> "none", handle |-> 0]
StoreTo(s, v, d) == [Line EXCEPT !.kind = "store", !.slot = s, !.value = v, !.door = d]

\* The instructions of an intrinsic, with n instructions before it, for these
\* argument values.
HeaderText(op, uav, values, n) ==
    LET marks == IF op \in Atomics
                 THEN <<Line, StoreTo("mark", 0, n + 1),
                        [Line EXCEPT !.kind = "uavstore", !.uav = uav, !.door = n + 1]>>
                 ELSE <<>>
        door == n + Len(marks) + 1
        args == [i \in 1..Len(HeaderArguments[op]) |->
                   StoreTo(HeaderArguments[op][i][2], values[i], door)]
        opcode == <<[StoreTo("opcode", 0, door) EXCEPT !.uav = op]>>
        number == IF HeaderReads(op) = 2 THEN <<StoreTo("number", 0, door)>> ELSE <<>>
        stores == IF op \in OpcodeLast THEN args \o opcode ELSE opcode \o number \o args
        last == door + Len(stores) + HeaderReads(op)
        ends == CASE op \in {"TraceHit", "Invoke"} -> <<[Line EXCEPT !.kind = "trace", !.handle = last]>>
                  [] op \in {"MakeHit", "MakeHitIndexed"} ->
                        <<[Line EXCEPT !.kind = "call", !.handle = last],
                          [Line EXCEPT !.kind = "trace", !.handle = last]>>
                  [] op = "Attributes" -> <<[Line EXCEPT !.kind = "call", !.handle = last]>>
                  [] op \in Atomics -> <<[Line EXCEPT !.kind = "load", !.door = door]>>
                  [] OTHER -> <<>>
    IN  marks \o <<Line>> \o stores \o [i \in 1..HeaderReads(op) |-> Line] \o ends

\* Result k of intrinsic c.
Result(c, k) == 10 * c + k

\* The results the instructions of an intrinsic must stand for.
HeaderResults(op, is, n, c) ==
    LET e == n + Len(is)
    IN  CASE op \in {"TraceHit", "MakeHit", "MakeHitIndexed"} ->
                (e - (IF op = "TraceHit" THEN 2 ELSE 3)) :> Result(c, 0)
          [] op \in {"Invoke", "Attributes"} -> <<>>
          [] op \in Atomics -> e :> Result(c, 0)
          [] OTHER -> [i \in e - HeaderReads(op) + 1..e |-> Result(c, i - (e - HeaderReads(op)) - 1)]

\* The objects made so far: the instructions that clocked them out.
Objects == {i \in 1..Len(text) : \E c \in 1..Len(asked) :
              asked[c].op \in MakesObject /\ i \in DOMAIN asked[c].results}

WriteIntrinsic ==
    /\ stage = "write" /\ Len(asked) < MaxIntrinsics
    /\ \E op \in Intrinsics, uav \in DOMAIN UavKind, object \in {0} \union Objects,
          address \in Addresses, n \in {Len(text)}, c \in {Len(asked) + 1} :
         /\ op \in UsesObject \ {"Reorder"} => object # 0
         /\ op \notin UsesObject => object = 0
         /\ op \notin Atomics => uav = (CHOOSE u \in DOMAIN UavKind : TRUE) /\ address = 0
         /\ Mixing \/ \A i \in 1..Len(asked) :
                        asked[i].op \in Atomics /\ UavKind[asked[i].uav] # "buffer"
                            => asked[i].op = op
         /\ \E values \in {[i \in 1..Len(HeaderArguments[op]) |->
                              CASE HeaderArguments[op][i][1] = "object" -> object
                                [] HeaderArguments[op][i][1] = "with" -> IF object = 0 THEN 0 ELSE -1
                                [] HeaderArguments[op][i][1] = "address" -> -100 - address
                                [] OTHER -> -Result(c, i)]} :
            \E is \in {HeaderText(op, uav, values, n)} :
              /\ text' = text \o is
              /\ asked' = Append(asked,
                    [op |-> op, uav |-> IF op \in Atomics THEN uav ELSE "none",
                     arguments |-> [p \in {HeaderArguments[op][i][1] : i \in 1..Len(values)} |->
                                      values[CHOOSE i \in 1..Len(values) :
                                               HeaderArguments[op][i][1] = p]],
                     results |-> HeaderResults(op, is, n, c)])
    /\ UNCHANGED <<stage, line, inputs, handles, outputs, doorbell, deferred, clocked,
                   expected, marked, formats, fake, did, results>>

IsOrdinary(i) == i.kind \in {"plain", "trace", "call", "end"} /\ i.handle = 0

\* An ordinary store, TraceRay or CallShader, or the end of a basic block.
WriteOrdinary ==
    /\ stage = "write" /\ Len(SelectSeq(text, IsOrdinary)) < MaxOrdinary
    /\ \E kind \in {"plain", "trace", "call", "end"} :
         text' = Append(text, [Line EXCEPT !.kind = kind])
    /\ UNCHANGED <<asked, stage, line, inputs, handles, outputs, doorbell, deferred,
                   clocked, expected, marked, formats, fake, did, results>>

-----------------------------------------------------------------------------
(* NVAPIState.                                                             *)

NoInputs == [op |-> "none", mark |-> FALSE, slots |-> <<>>]

\* NVAPIState::reset.  The marked UAV persists.
Reset ==
    /\ inputs' = NoInputs /\ handles' = <<>> /\ outputs' = <<>> /\ doorbell' = 0
    /\ deferred' = "none" /\ clocked' = 0 /\ expected' = 0

KeepState == UNCHANGED <<inputs, handles, outputs, doorbell, deferred, clocked, expected>>

\* The slots can_commit_opcode waits for.
Needed ==
    [Shuffle |-> {"src0x", "src0y", "src0z"},
     Fp16Atomic |-> {"src0x", "src1x", "src2x"}, Fp32Atomic |-> {"src0x", "src1x", "src2x"},
     Special |-> {"src0x"}, TraceHit |-> {"number", "src0x"},
     MakeHit |-> {"number", "src0x", "src0y", "src0z", "src0w", "src1x", "src1y"},
     MakeHitIndexed |-> {"number", "src0x", "src0y", "src0z", "src0w", "src1x"},
     MakeMiss |-> {"src0x", "src0y", "src0z", "src1x", "src1y", "src1z", "src2x", "src2y", "src2z"},
     MakeNop |-> {}, Reorder |-> {"src0x", "src0y", "src0z", "src0w"},
     Invoke |-> {"src0x"}, Attributes |-> {"src0x"}, IsHit |-> {"src0x"},
     GetHitKind |-> {"src0x"}, InstanceID |-> {"src0x"}, RayDesc |-> {"src0x"},
     RootConstant |-> {"src0x", "src0y"}, ClusterId |-> {}]

CanCommit(in) ==
    /\ in.op # "none"
    /\ Needed[in.op] \subseteq DOMAIN in.slots
    /\ in.op \in Atomics => marked # "none"

\* The opcodes that wait for the fake CallShader or TraceRay.
DeferredOpcodes == {"TraceHit", "MakeHit", "MakeHitIndexed", "Invoke", "Attributes"}

ExpectedOutputs(op) ==
    CASE op \in Atomics -> 0
      [] op \in {"TraceHit", "MakeHit", "MakeHitIndexed"} -> 2
      [] op = "RayDesc" -> 8
      [] OTHER -> 1

-----------------------------------------------------------------------------
(* Emission of the intrinsics: the slots each takes its operands from, in  *)
(* SPIR-V order, and what SPIR-V calls those operands (external).          *)

EmitShuffle == <<"src0x", "src0y">>
EmitFp16Atomic == <<"src0x", "src1x", "src2x">>
EmitFp32Atomic == <<"src0x", "src1x", "src2x">>
EmitSpecial == <<"src0x">>
EmitTraceHit == <<"src0x">>
EmitMakeHitAsDeclared == <<"src0x", "src0y", "src0z", "src0w", "src1x", "src1y">>
EmitMakeHit == <<"src0x", "src0z", "src0y", "src0w", "src1x", "src1y">>
EmitMakeHitIndexed == <<"src0x", "src0z", "src0y", "src0w", "src1x">>
EmitMakeMiss == <<"src0x", "src1x", "src1y", "src1z", "src0y", "src2x", "src2y", "src2z", "src0z">>
EmitReorder(in) == IF in.slots["src0x"] # 0 THEN <<"src0y", "src0z", "src0w">>
                                            ELSE <<"src0z", "src0w">>
EmitInvoke == <<"src0x">>
EmitAttributes == <<"src0x">>
EmitGetBool == <<"src0x">>
EmitGetUint == <<"src0x">>
EmitRayDesc == <<"src0x">>
EmitRootConstant == <<"src0x", "src0y">>
NoOperands == <<>>

PacketOperands(in) ==
    CASE in.op = "Shuffle" -> EmitShuffle
      [] in.op = "Fp16Atomic" -> EmitFp16Atomic
      [] in.op = "Fp32Atomic" -> EmitFp32Atomic
      [] in.op = "Special" -> EmitSpecial
      [] in.op = "TraceHit" -> EmitTraceHit
      [] in.op = "MakeHit" -> EmitMakeHit
      [] in.op = "MakeHitIndexed" -> EmitMakeHitIndexed
      [] in.op = "MakeMiss" -> EmitMakeMiss
      [] in.op = "Reorder" -> EmitReorder(in)
      [] in.op = "Invoke" -> EmitInvoke
      [] in.op = "Attributes" -> EmitAttributes
      [] in.op = "IsHit" -> EmitGetBool
      [] in.op \in {"GetHitKind", "InstanceID"} -> EmitGetUint
      [] in.op = "RayDesc" -> EmitRayDesc
      [] in.op = "RootConstant" -> EmitRootConstant
      [] OTHER -> NoOperands

SpirvOperands(op, n) ==
    CASE op = "Shuffle" -> <<"value", "lane">>
      [] op \in Atomics -> <<"address", "value", "sub">>
      [] op = "Special" -> <<"sub">>
      [] op = "TraceHit" -> <<"miss">>
      [] op = "MakeHit" -> <<"instance", "primitive", "geometry", "hitKind", "offset", "stride">>
      [] op = "MakeHitIndexed" -> <<"instance", "primitive", "geometry", "hitKind", "record">>
      [] op = "MakeMiss" -> <<"miss", "originX", "originY", "originZ", "tmin",
                              "directionX", "directionY", "directionZ", "tmax">>
      [] op = "Reorder" -> IF n = 3 THEN <<"object", "hint", "bits">> ELSE <<"hint", "bits">>
      [] op = "RootConstant" -> <<"object", "offset">>
      [] OTHER -> SubSeq(<<"object">>, 1, n)

\* emit_nvapi_extn_op_hit_object_get_uint: InstanceID is emitted as
\* OpHitObjectGetInstanceIdNV, which is what DXR calls InstanceIndex.
SpirvMeaning(op) == IF op = "InstanceID" THEN "InstanceIndex" ELSE op

\* On a buffer the address is the index of a 32-bit element.
ByteAddress(uav, a) == IF UavKind[uav] = "buffer" THEN -100 - 4 * (-100 - a) ELSE a

\* What the id of a value stands for.
IdOf(v) == IF v > 0 /\ v \in DOMAIN results THEN results[v] ELSE v

\* The intrinsic emitted for these inputs.
EmittedFor(in) ==
    LET slots == PacketOperands(in)
        names == SpirvOperands(in.op, Len(slots))
        uav == IF in.op \in Atomics THEN marked ELSE "none"
        at(p) == in.slots[slots[CHOOSE i \in 1..Len(slots) : names[i] = p]]
    IN  [op |-> SpirvMeaning(in.op), uav |-> uav,
         arguments |-> [p \in {names[i] : i \in 1..Len(slots)} |->
             IF p = "address" THEN ByteAddress(uav, at(p)) ELSE IdOf(at(p))]]

-----------------------------------------------------------------------------
(* The passes over the instructions.                                       *)

Working == stage \in {"analyse", "emit"} /\ line <= Len(text)
Analysis == stage = "analyse"
Here == text[line]
Recognised == fake' = [fake EXCEPT ![stage] = @ \union {line}]

\* notify_doorbell, through analyze_ and emit_nvapi_buffer_update_counter: start
\* an intrinsic, or clock out a result of the one in progress.
NotifyDoorbell ==
    /\ Working /\ Here.kind = "inc"
    /\ IF expected = 0
       THEN /\ inputs' = NoInputs /\ handles' = <<>> /\ outputs' = <<>>
            /\ deferred' = "none" /\ clocked' = 0 /\ expected' = 0
            /\ doorbell' = line /\ UNCHANGED results
       ELSE LET open == clocked < expected
                next == IF open THEN clocked + 1 ELSE clocked
            IN  /\ results' = IF open /\ deferred = "none" /\ ~Analysis
                              THEN (line :> outputs[clocked + 1]) @@ results ELSE results
                /\ IF next >= expected /\ deferred = "none" THEN Reset
                   ELSE /\ handles' = IF open THEN Append(handles, line) ELSE handles
                        /\ clocked' = next
                        /\ UNCHANGED <<inputs, outputs, doorbell, deferred, expected>>
    /\ Recognised /\ line' = line + 1
    /\ UNCHANGED <<text, asked, stage, marked, formats, did>>

\* commit_opcode: emit now, or wait for the fake call.
Commit(in) ==
    /\ expected' = ExpectedOutputs(in.op)
    /\ deferred' = IF in.op \in DeferredOpcodes THEN in.op ELSE deferred
    /\ IF Analysis \/ in.op \in DeferredOpcodes THEN UNCHANGED <<did, outputs>>
       ELSE /\ did' = Append(did, EmittedFor(in))
            /\ outputs' = [k \in 1..8 |-> Result(Len(did) + 1, k - 1)]

\* analyze_nvapi_buffer_store, on every store once the opcode is known.
FormatsSeen(in) ==
    IF Analysis /\ in.op # "none" /\ marked # "none"
    THEN [formats EXCEPT ![marked] = {in.op} \intersect Atomics] ELSE formats

\* write_arguments_from_store: a store to the dummy buffer at the doorbell.
WriteArguments ==
    /\ Working /\ Here.kind = "store" /\ Here.door = doorbell /\ ~inputs.mark
    /\ \E in \in {CASE Here.slot = "opcode" -> [inputs EXCEPT !.op = Here.uav]
                    [] Here.slot = "mark" -> [inputs EXCEPT !.mark = TRUE]
                    [] OTHER -> [inputs EXCEPT !.slots = (Here.slot :> Here.value) @@ @]} :
         /\ inputs' = in
         /\ IF CanCommit(in) THEN Commit(in) ELSE UNCHANGED <<expected, deferred, did, outputs>>
         /\ formats' = FormatsSeen(in)
    /\ Recognised /\ line' = line + 1
    /\ UNCHANGED <<text, asked, stage, handles, doorbell, clocked, marked, results>>

\* mark_uav_write: the store that names the UAV of an atomic.
MarkUav ==
    /\ Working /\ Here.kind = "uavstore" /\ Here.door = doorbell /\ inputs.mark
    /\ marked' = Here.uav /\ Reset
    /\ Recognised /\ line' = line + 1
    /\ UNCHANGED <<text, asked, stage, formats, did, results>>

\* emit_nvapi_buffer_load: the result of an atomic.
LoadResult ==
    /\ Working /\ Here.kind = "load" /\ Here.door = doorbell
    /\ results' = IF Analysis THEN results ELSE (line :> outputs[1]) @@ results
    /\ Recognised /\ line' = line + 1
    /\ KeepState /\ UNCHANGED <<text, asked, stage, marked, formats, did>>

\* get_nvapi_trace_handle.
TraceHandle ==
    CASE deferred \in {"TraceHit", "MakeHit", "MakeHitIndexed"} /\ Len(handles) >= 2 -> handles[2]
      [] deferred \in {"Invoke", "Attributes"} /\ Len(handles) >= 1 -> handles[1]
      [] OTHER -> 0
IsFake == TraceHandle # 0 /\ Here.handle = TraceHandle

\* Emission of the deferred intrinsic, whose object the first handle stands for.
EmitDeferred ==
    IF Analysis THEN UNCHANGED <<did, results>>
    ELSE /\ did' = Append(did, EmittedFor(inputs))
         /\ results' = IF deferred \in MakesObject
                       THEN (handles[1] :> Result(Len(did) + 1, 0)) @@ results ELSE results

\* analyze_ and emit_nvapi_call_shader: it carries the attributes, or completes
\* GetAttributes.
FakeCallShader ==
    /\ Working /\ Here.kind = "call" /\ IsFake
    /\ deferred \in {"MakeHit", "MakeHitIndexed", "Attributes"}
    /\ IF deferred = "Attributes" THEN EmitDeferred /\ Reset
       ELSE KeepState /\ UNCHANGED <<did, results>>
    /\ Recognised /\ line' = line + 1
    /\ UNCHANGED <<text, asked, stage, marked, formats>>

\* analyze_ and emit_nvapi_trace_ray.
FakeTraceRay ==
    /\ Working /\ Here.kind = "trace" /\ IsFake
    /\ deferred \in {"TraceHit", "MakeHit", "MakeHitIndexed", "Invoke"}
    /\ EmitDeferred /\ Reset
    /\ Recognised /\ line' = line + 1
    /\ UNCHANGED <<text, asked, stage, marked, formats>>

\* Anything else is what it looks like; stores are tracked under the stale opcode.
Ordinary ==
    /\ Working
    /\ \/ Here.kind \in {"plain", "end"}
       \/ Here.kind \in {"store", "uavstore", "load"} /\ Here.door # doorbell
       \/ Here.kind \in {"call", "trace"} /\ ~IsFake
    /\ IF Here.kind = "end" THEN Reset ELSE KeepState
    /\ formats' = IF Here.kind \in {"plain", "store", "uavstore"} THEN FormatsSeen(inputs) ELSE formats
    /\ line' = line + 1
    /\ UNCHANGED <<text, asked, stage, marked, fake, did, results>>

\* The end of the function; reset_analysis forgets the marked UAV.
NextStage ==
    /\ \/ stage = "write" /\ asked # <<>> /\ stage' = "analyse"
       \/ stage = "analyse" /\ line > Len(text) /\ stage' = "emit"
       \/ stage = "emit" /\ line > Len(text) /\ stage' = "done"
    /\ line' = 1 /\ Reset
    /\ marked' = IF stage = "analyse" THEN "none" ELSE marked
    /\ UNCHANGED <<text, asked, formats, fake, did, results>>

NVAPIInit ==
    /\ text = <<>> /\ asked = <<>> /\ stage = "write" /\ line = 1
    /\ inputs = NoInputs /\ handles = <<>> /\ outputs = <<>> /\ doorbell = 0
    /\ deferred = "none" /\ clocked = 0 /\ expected = 0
    /\ marked = "none" /\ formats = [u \in DOMAIN UavKind |-> {}]
    /\ fake = [analyse |-> {}, emit |-> {}] /\ did = <<>> /\ results = <<>>

NVAPINext ==
    \/ WriteIntrinsic \/ WriteOrdinary \/ NextStage
    \/ NotifyDoorbell \/ WriteArguments \/ MarkUav \/ LoadResult
    \/ FakeCallShader \/ FakeTraceRay \/ Ordinary

NVAPISpec == NVAPIInit /\ [][NVAPINext]_nvapiVars

-----------------------------------------------------------------------------
(* Properties.                                                             *)

\* The object an argument must be, when it is the result of an intrinsic.
AskedValue(v) ==
    IF v <= 0 THEN v
    ELSE LET c == CHOOSE k \in 1..Len(asked) : v \in DOMAIN asked[k].results
         IN  asked[c].results[v]

\* The intrinsics emitted are the ones the shader asked for, in its order, each
\* once, with every operand the argument that the header stored for it, and
\* every value the header reads stands for that result of that intrinsic,
\* however opcode and arguments are ordered and whatever ordinary accesses and
\* block ends lie between (write_arguments_from_store, commit_opcode,
\* notify_doorbell, emit_nvapi_trace_ray).
IntrinsicsAsWritten ==
    /\ Len(did) <= Len(asked)
    /\ stage = "done" => Len(did) = Len(asked)
    /\ \A c \in 1..Len(did) :
         /\ did[c].op = asked[c].op /\ did[c].uav = asked[c].uav
         /\ \A p \in DOMAIN did[c].arguments :
              did[c].arguments[p] = AskedValue(asked[c].arguments[p])
    /\ \A i \in DOMAIN results :
         \E c \in 1..Len(did) : i \in DOMAIN asked[c].results /\ asked[c].results[i] = results[i]

\* Both passes take the same instructions for a part of an intrinsic, and a
\* texture on which an atomic is emitted was found by the analysis to need the
\* format of that atomic (analyze_nvapi_buffer_store).
AnalysisAgrees ==
    /\ stage = "done" => fake["analyse"] = fake["emit"]
    /\ stage = "done" => UNION {DOMAIN asked[c].results : c \in 1..Len(asked)} \subseteq DOMAIN results
    /\ \A c \in 1..Len(did) :
         did[c].op \in Atomics /\ UavKind[did[c].uav] # "buffer" =>
            formats[did[c].uav] = {did[c].op}
=============================================================================
