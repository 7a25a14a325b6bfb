------------------------------ MODULE WaveOps ------------------------------
(***************************************************************************)
(* The SPIR-V that is emitted for the wave and quad intrinsics             *)
(* (opcodes/dxil/dxil_waveops.cpp) and for the helper functions it calls   *)
(* (build_wave_* and build_quad_vote of spirv_module.cpp), executed by one *)
(* subgroup.  DXIL excludes the helper lanes of a fragment shader from     *)
(* wave operations while SPIR-V lets them take part, so every operation    *)
(* has a masked form.  WaveMatch and the WaveMultiPrefix family become     *)
(* waterfall loops in which lanes leave one group at a time.               *)
(*                                                                         *)
(* A state carries one call: the lanes that execute it, their inputs and   *)
(* the options it was compiled with.  One step is the call, or one         *)
(* iteration of its loop for all lanes that are still in it.               *)
(***************************************************************************)
EXTENDS Integers, FiniteSets, FiniteSetsExt, Bitwise

CONSTANTS
  WaveLanes,    \* lanes of the waves that reduce, scan and match
  QuadLanes,    \* lanes of the waves that address other lanes, two quads
  Samples,      \* the values a lane may hold; the largest is a NaN pattern
  Keys          \* what a lane's partition mask may be made from

ASSUME WaveAssumption ==
  /\ WaveLanes \in Nat \ {0} /\ QuadLanes \in Nat \ {0}
  /\ 0 \in Samples /\ Samples \subseteq 0 .. 3 /\ Keys \subseteq 0 .. 3

VARIABLES
  call,      \* the intrinsic call and the lanes that execute it
  looping,   \* lanes that are in the waterfall loop
  result,    \* what the call returned to each lane that is through
  step       \* "call", "loop" or "done"

wvars == <<call, looping, result, step>>

----------------------------------------------------------------------------
(* Lanes.                                                                  *)

Lanes == 0 .. call.size - 1
Active == {l \in Lanes : call.status[l] # "inactive"}
Helpers == {l \in Lanes : call.status[l] = "helper"}

\* wave_op_needs_helper_lane_masking: decided once per shader.
Masking == call.masking

\* The lanes DXIL lets contribute to a result.
Participants == IF Masking THEN Active \ Helpers ELSE Active

\* A result is a sequence: empty when it is undefined.
Undef == << >>
Returned(f) == [l \in DOMAIN f |-> <<f[l]>>]
Bit(l) == call.value[l] % 2 = 1

----------------------------------------------------------------------------
(* The SPIR-V group operations: lanes A execute them.                      *)

ValueRange == 4
Signed(v) == IF v >= ValueRange \div 2 THEN v - ValueRange ELSE v

\* Combine two operands; values are two bits wide and wrap.
Combine(op, a, b) ==
  CASE op = "Sum" -> (a + b) % ValueRange
    [] op = "Product" -> (a * b) % ValueRange
    [] op = "UMin" -> IF a <= b THEN a ELSE b
    [] op = "UMax" -> IF a >= b THEN a ELSE b
    [] op = "SMin" -> IF Signed(a) <= Signed(b) THEN a ELSE b
    [] op = "SMax" -> IF Signed(a) >= Signed(b) THEN a ELSE b
    [] op = "And" -> a & b
    [] op = "Or" -> a | b
    [] op = "Xor" -> a ^^ b

\* The identity an exclusive scan starts from.
ScanIdentity(op) ==
  CASE op = "Product" -> 1
    [] op = "And" -> ValueRange - 1
    [] OTHER -> 0

\* A reduction over A, and an exclusive scan: A may be empty.
Group(op, A, v) ==
  IF A = {} THEN ScanIdentity(op)
  ELSE LET first == Min(A)
       IN  FoldSet(LAMBDA l, acc : Combine(op, v[l], acc), v[first], A \ {first})
Before(A, l) == {k \in A : k < l}
Ballot(A, P(_)) == {l \in A : P(l)}

\* A read of a lane that does not execute the instruction is undefined.
Shuffle(A, v, lane) == IF lane \in A THEN <<v[lane]>> ELSE Undef
QuadBase(l) == l - (l % 4)

----------------------------------------------------------------------------
(* Calls without a loop: what each lane of A gets.                         *)

ArithOps == {"Sum", "Product", "UMin", "UMax", "SMin", "SMax"}
BitOps == {"And", "Or", "Xor"}
PrefixOps == {"Sum", "Product"}
MultiOps == {"Sum", "Product", "And", "Or", "Xor"}

\* build_mask_reduction_input_arith: the sentinel a helper lane feeds.
SentinelUnsigned(op) ==
  CASE op = "Product" -> 1
    [] op \in {"UMin", "SMin"} -> ValueRange - 1
    [] OTHER -> 0

Sentinel(op) ==
  CASE op = "Product" -> 1
    [] op = "UMin" -> ValueRange - 1
    [] op = "SMin" -> ValueRange \div 2 - 1
    [] op = "SMax" -> ValueRange \div 2
    [] OTHER -> 0

\* build_mask_reduction_input_bitwise.
BitSentinel(op) == IF op = "And" THEN ValueRange - 1 ELSE 0

ReductionInput(op) ==
  [l \in Active |-> IF ~Masking \/ l \notin Helpers THEN call.value[l]
                    ELSE IF op \in BitOps THEN BitSentinel(op) ELSE Sentinel(op)]

\* build_masked_ballot.
MaskedBit(l) == Bit(l) /\ (Masking => l \notin Helpers)

\* build_wave_is_first_lane_masked: the lanes that are no helpers elect one.
IsFirstLaneMasked == [l \in Active |-> l \notin Helpers /\ l = Min(Active \ Helpers)]

\* emit_wave_is_first_lane_instruction.
IsFirstLane == IF Masking THEN IsFirstLaneMasked ELSE [l \in Active |-> l = Min(Active)]

\* emit_wave_boolean_instruction: helpers vote for the result the others get.
WaveAny == [l \in Active |-> \E k \in Active : MaskedBit(k)]
WaveAll == [l \in Active |-> \A k \in Active : Bit(k) \/ (Masking /\ k \in Helpers)]
\* Helper lanes take part in AllEqual.
WaveAllEqual == [l \in Active |-> \A j, k \in Active : call.value[j] = call.value[k]]

\* emit_wave_ballot_instruction, emit_wave_bit_count_instruction.
WaveBallot == [l \in Active |-> Ballot(Active, MaskedBit)]
WaveBitCount == [l \in Active |-> Cardinality(Ballot(Active, MaskedBit))]
WavePrefixBitCount == [l \in Active |-> Cardinality(Before(Ballot(Active, MaskedBit), l))]

\* build_wave_read_first_lane_masked: shuffle from the lowest lane that is not
\* a helper, zero if there is none.
ReadFirstLaneMasked ==
  LET real == Active \ Helpers
  IN  [l \in Active |-> IF real # {} THEN call.value[Min(real)] ELSE 0]

\* emit_wave_read_lane_first_instruction: a value that is uniform already is
\* forwarded, and some reads are asked to include the helper lanes.
ReadLaneFirst(operand) ==
  CASE operand = "uniform" -> [l \in Active |-> call.value[l]]
    [] operand = "any" /\ Masking -> ReadFirstLaneMasked
    [] OTHER -> [l \in Active |-> call.value[Min(Active)]]

\* emit_wave_active_op, _active_bit and _prefix_op.
WaveActiveOp(op) == [l \in Active |-> Group(op, Active, ReductionInput(op))]
WavePrefixOp(op) == [l \in Active |-> Group(op, Before(Active, l), ReductionInput(op))]

\* OpGroupNonUniformPartitionNV and the mask emit_wave_match adds to it.
MatchNV ==
  [l \in Active |-> {k \in Active : call.value[k] = call.value[l]}
                      \cap (IF Masking THEN Active \ Helpers ELSE Active)]

\* emit_masked_ballot: the partition operand of the NV scans.
Partition(l) ==
  IF Masking /\ l \in Helpers THEN Helpers
  ELSE call.mask[l] \cap (IF Masking THEN Active \ Helpers ELSE Active)

MultiPrefixNV(op) ==
  [l \in Active |-> Group(op, Before(Partition(l), l), call.value)]

----------------------------------------------------------------------------
(* Calls that address lanes.  A lane index is an expression over           *)
(* WaveGetLaneIndex and constants, UintRange wide.                         *)

UintRange == 16
AllButThree == UintRange - 4     \* ~3u

IsConst(e) == e.kind = "const"
IsLaneId(e) == e.kind = "lane"
ConstOf(e) == IF IsConst(e) THEN {e.c} ELSE {}

Apply(kind, a, b) ==
  CASE kind = "and" -> a & b
    [] kind = "or" -> a | b
    [] kind = "xor" -> a ^^ b
    [] kind = "add" -> (a + b) % UintRange

EvalLeaf(e, l) == IF IsConst(e) THEN e.c ELSE l
EvalInner(e, l) ==
  IF e.kind \in {"const", "lane"} THEN EvalLeaf(e, l)
  ELSE Apply(e.kind, EvalLeaf(e.lhs, l), EvalLeaf(e.rhs, l))
Eval(e, l) ==
  IF e.kind \in {"const", "lane"} THEN EvalLeaf(e, l)
  ELSE Apply(e.kind, EvalInner(e.lhs, l), EvalInner(e.rhs, l))

\* The two ways round of a commutative operand pair.
Pairs(e) == IF e.kind \in {"const", "lane"} THEN {} ELSE {<<e.lhs, e.rhs>>, <<e.rhs, e.lhs>>}
WithLane(e) == UNION {ConstOf(p[1]) : p \in {q \in Pairs(e) : IsLaneId(q[2])}}

\* get_constant_quad_lane, the cases lane | 3 and lane & ~3: at most one value.
QuadLaneLeaf(e) ==
  CASE e.kind = "or" -> WithLane(e) \cap {3}
    [] e.kind = "and" -> {0 : c \in WithLane(e) \cap {AllButThree}}
    [] OTHER -> {}

\* ... and the cases (lane & ~3) | c and (lane & ~3) + c.
QuadLane(e) ==
  QuadLaneLeaf(e) \cup
  (IF e.kind \in {"or", "add"}
   THEN {c \in UNION {ConstOf(p[1]) : p \in {q \in Pairs(e) : QuadLaneLeaf(q[2]) = {0}}} : c < 4}
   ELSE {})

\* get_constant_xor_lane.
XorLane(e) == IF e.kind = "xor" THEN WithLane(e) ELSE {}

\* emit_wave_read_lane_at_instruction: a broadcast within the quad, a swap, a
\* shuffle by a constant distance, or a shuffle.
ReadLaneAt(e) ==
  [l \in Active |->
     LET quad == IF call.quads THEN QuadLane(e) ELSE {}
         lane == CASE IsConst(e) -> e.c
                   [] quad # {} -> QuadBase(l) + Min(quad)
                   [] quad = {} /\ ~IsConst(e) /\ XorLane(e) # {} -> l ^^ Min(XorLane(e))
                   [] OTHER -> Eval(e, l)
     IN  Shuffle(Active, call.value, lane)]

\* emit_wave_quad_op_instruction: 0 horizontal, 1 vertical, 2 diagonal; the
\* quad swap and the exclusive-or shuffle read the same lane.
QuadSwapBy(l, distance) ==
  IF call.quads THEN QuadBase(l) + ((l % 4) ^^ distance) ELSE l ^^ distance
QuadOp(direction) ==
  [l \in Active |-> Shuffle(Active, call.value,
                           IF call.dummy THEN l ELSE QuadSwapBy(l, direction + 1))]

\* emit_wave_quad_read_lane_at_instruction; the robust form selects zero for a
\* lane that is not in the ballot of the block.  Both quad operations return
\* their operand when the workgroup has no quads (synthesize_dummy_derivatives).
QuadReadLaneAt(c) ==
  [l \in Active |->
     LET lane == IF call.dummy THEN l ELSE QuadBase(l) + c
     IN  IF call.robust /\ call.quads /\ lane \notin Active THEN <<0>>
         ELSE Shuffle(Active, call.value, lane)]

\* build_quad_vote: the four lanes of the quad, broadcast and combined.
QuadAll(l) == \A i \in 0 .. 3 : Bit(QuadBase(l) + i)
QuadAny(l) == \E i \in 0 .. 3 : Bit(QuadBase(l) + i)

\* emit_wave_quad_vote_instruction.
QuadVote(all) == [l \in Active |-> IF all THEN QuadAll(l) ELSE QuadAny(l)]

----------------------------------------------------------------------------
(* The call.                                                               *)

Straight ==
  CASE call.op = "IsFirstLane" -> Returned(IsFirstLane)
    [] call.op = "AnyTrue" -> Returned(WaveAny)
    [] call.op = "AllTrue" -> Returned(WaveAll)
    [] call.op = "AllEqual" -> Returned(WaveAllEqual)
    [] call.op = "Ballot" -> Returned(WaveBallot)
    [] call.op = "BitCount" -> Returned(WaveBitCount)
    [] call.op = "PrefixBitCount" -> Returned(WavePrefixBitCount)
    [] call.op = "ReadLaneFirst" -> Returned(ReadLaneFirst(call.arg))
    [] call.op \in {"ActiveOp", "ActiveBit"} -> Returned(WaveActiveOp(call.arg))
    [] call.op = "PrefixOp" -> Returned(WavePrefixOp(call.arg))
    [] call.op = "Match" -> Returned(MatchNV)
    [] call.op = "MultiPrefixOp" -> Returned(MultiPrefixNV(call.arg))
    [] call.op = "ReadLaneAt" -> ReadLaneAt(call.arg)
    [] call.op = "QuadOp" -> QuadOp(call.arg)
    [] call.op = "QuadReadLaneAt" -> QuadReadLaneAt(call.arg)
    [] call.op = "QuadVote" -> Returned(QuadVote(call.arg))

\* No extension counts bits per partition: that one is always a loop.
Waterfall ==
  \/ call.op = "MultiPrefixBitCount"
  \/ call.op \in {"Match", "MultiPrefixOp"} /\ ~call.nv

Call ==
  /\ step = "call" /\ ~Waterfall
  /\ result' = Straight
  /\ step' = "done"
  /\ UNCHANGED <<call, looping>>

\* The parameters of the helper function, and the arguments the call passes:
\* the value, the mask of a multi-prefix operation, and whether the lane is a
\* helper.
HelperParameters ==
  {"value"} \cup (IF call.op = "Match" THEN {} ELSE {"mask"})
    \cup (IF Masking THEN {"is_helper"} ELSE {})
CallArguments ==
  {"value"} \cup (IF call.op = "Match" THEN {} ELSE {"mask"})
    \cup (IF Masking /\ ~call.nv THEN {"is_helper"} ELSE {})

\* Helper lanes return at once; they get an undefined value.
EnterWaterfall ==
  /\ step = "call" /\ Waterfall
  /\ CallArguments = HelperParameters
  /\ looping' = IF Masking THEN Active \ Helpers ELSE Active
  /\ result' = [l \in Active |-> Undef]
  /\ step' = "loop"
  /\ UNCHANGED call

\* A call that does not fit its function is not valid SPIR-V: nothing runs.
RejectCall ==
  /\ step = "call" /\ Waterfall
  /\ CallArguments # HelperParameters
  /\ step' = "invalid"
  /\ UNCHANGED <<call, looping, result>>

\* emit_wave_match_instruction casts floats to integers: lanes compare bits.
OrderedEqual(a, b) == a = b /\ a # ValueRange - 1
Same(a, b) == a = b

\* The masks are cut to the lanes that entered the loop.
LoopMask(l) == call.mask[l] \cap (IF Masking THEN Active \ Helpers ELSE Active)

\* Lanes that agree with the first lane of the loop leave it: by value in
\* build_wave_match, by mask in the others.
MatchGroup(first) == {l \in looping : Same(call.value[l], call.value[first])}
MaskGroup(first) == {l \in looping : LoopMask(l) = LoopMask(first)}
Leaving == IF call.op = "Match" THEN MatchGroup(Min(looping)) ELSE MaskGroup(Min(looping))

\* What they leave with: the ballot of the agreeing lanes, or a scan over them.
MultiPrefixCountBits(group, l) == Cardinality({k \in Before(group, l) : Bit(k)})
MultiPrefixOp(group, l) == Group(call.arg, Before(group, l), call.value)
LeaveWith(group, l) ==
  CASE call.op = "Match" -> group
    [] call.op = "MultiPrefixBitCount" -> MultiPrefixCountBits(group, l)
    [] call.op = "MultiPrefixOp" -> MultiPrefixOp(group, l)

Iterate ==
  /\ step = "loop" /\ looping # {}
  /\ \E group \in {Leaving} :
       /\ looping' = looping \ group
       /\ result' = [l \in Active |-> IF l \in group THEN <<LeaveWith(group, l)>> ELSE result[l]]
  /\ UNCHANGED <<call, step>>

LeaveWaterfall ==
  /\ step = "loop" /\ looping = {}
  /\ step' = "done"
  /\ UNCHANGED <<call, looping, result>>

----------------------------------------------------------------------------
(* The calls that are explored.                                            *)

Lanewise(size, V) ==
  [0 .. size - 1 -> ({"inactive"} \X {0}) \cup ({"real", "helper"} \X V)]
NoMask(size) == [l \in 0 .. size - 1 |-> {}]

NewCall(op, arg, lanes, size, masks, masking, nv, quads, robust) ==
  [op |-> op, arg |-> arg, size |-> size,
   status |-> [l \in 0 .. size - 1 |-> lanes[l][1]],
   value |-> [l \in 0 .. size - 1 |-> lanes[l][2]],
   mask |-> masks, masking |-> masking, nv |-> nv, quads |-> quads, robust |-> robust,
   dummy |-> FALSE]

Reductions ==
  ({"ActiveOp"} \X ArithOps) \cup ({"ActiveBit"} \X BitOps) \cup ({"PrefixOp"} \X PrefixOps)
    \cup ({"IsFirstLane", "AnyTrue", "AllTrue", "AllEqual", "Ballot", "BitCount",
           "PrefixBitCount"} \X {""})
    \cup ({"ReadLaneFirst"} \X {"any", "forced"})

\* Some lane runs; without masking nothing asks which lanes are helpers.
Runs(lanes, masking) ==
  /\ \E l \in DOMAIN lanes : lanes[l][1] # "inactive"
  /\ masking \/ \A l \in DOMAIN lanes : lanes[l][1] # "helper"
IsUniform(lanes) ==
  \A j, k \in DOMAIN lanes : "inactive" \in {lanes[j][1], lanes[k][1]} \/ lanes[j][2] = lanes[k][2]

ReductionCalls(masking) ==
  {NewCall(r[1], r[2], lanes, WaveLanes, NoMask(WaveLanes), masking, FALSE, FALSE, FALSE) :
     r \in Reductions, lanes \in {x \in Lanewise(WaveLanes, Samples) : Runs(x, masking)}}

UniformCalls(masking) ==
  {NewCall("ReadLaneFirst", "uniform", lanes, WaveLanes, NoMask(WaveLanes), masking, FALSE, FALSE, FALSE) :
     lanes \in {x \in Lanewise(WaveLanes, Samples) : Runs(x, masking) /\ IsUniform(x)}}

MatchCalls(masking) ==
  {NewCall("Match", "", lanes, WaveLanes, NoMask(WaveLanes), masking, nv, FALSE, FALSE) :
     nv \in BOOLEAN,
     lanes \in {x \in Lanewise(WaveLanes, Samples) : Runs(x, masking)}}

\* The masks of one partition agree on the lanes that take part; what they say
\* of other lanes is up to the shader.
MaskFrom(lanes, key, masking) ==
  LET part == {l \in DOMAIN lanes : lanes[l][1] \in (IF masking THEN {"real"} ELSE {"real", "helper"})}
  IN  [l \in DOMAIN lanes |->
         {k \in part : key[k] % 2 = key[l] % 2}
           \cup (IF key[l] >= 2 THEN DOMAIN lanes \ part ELSE {})]

MultiPrefixCalls(masking) ==
  {NewCall(op[1], op[2], lanes, 3, MaskFrom(lanes, key, masking), masking, nv, FALSE, FALSE) :
     op \in ({"MultiPrefixOp"} \X MultiOps) \cup {<<"MultiPrefixBitCount", "">>},
     nv \in BOOLEAN, key \in [0 .. 2 -> Keys],
     lanes \in {x \in Lanewise(3, {1, 3}) : Runs(x, masking)}}

LaneIdx == [kind |-> "lane"]
Constants == {[kind |-> "const", c |-> c] : c \in {0, 1, 2, 3, 5, AllButThree}}
LaneOps == {"and", "or", "xor", "add"}
Inner == [kind : LaneOps, lhs : {LaneIdx}, rhs : Constants]
LaneExprs == {LaneIdx} \cup Constants \cup Inner
               \cup [kind : LaneOps, lhs : Constants, rhs : Inner \cup {LaneIdx}]

\* The second quad is cut off after some lane.
PartlyActive(n) == [l \in 0 .. QuadLanes - 1 |-> IF l <= n THEN <<"real", l % 4>> ELSE <<"inactive", 0>>]

QuadReadCalls ==
  {NewCall(c[1], c[2], lanes, QuadLanes, NoMask(QuadLanes), FALSE, FALSE, quads, robust) :
     c \in {"QuadReadLaneAt"} \X (0 .. 3), quads \in BOOLEAN, robust \in BOOLEAN,
     lanes \in {PartlyActive(n) : n \in 3 .. QuadLanes - 1}}

LaneCalls ==
  {NewCall(c[1], c[2], lanes, QuadLanes, NoMask(QuadLanes), FALSE, FALSE, quads, FALSE) :
     c \in ({"ReadLaneAt"} \X LaneExprs) \cup ({"QuadOp"} \X (0 .. 2)), quads \in BOOLEAN,
     lanes \in {PartlyActive(n) : n \in 3 .. QuadLanes - 1}}

\* A workgroup whose size makes no quads: the results are faked.
DummyCalls ==
  {[c EXCEPT !.dummy = TRUE] : c \in QuadReadCalls \cup {d \in LaneCalls : d.op = "QuadOp"}}

\* Quads are complete when they vote.
VoteCalls ==
  {NewCall("QuadVote", all, lanes, 4, NoMask(4), FALSE, FALSE, TRUE, FALSE) :
     all \in BOOLEAN, lanes \in [0 .. 3 -> {"real", "helper"} \X {0, 1}]}

WVInit ==
  /\ \/ \E masking \in BOOLEAN :
          \/ call \in ReductionCalls(masking)
          \/ call \in UniformCalls(masking)
          \/ call \in MatchCalls(masking)
          \/ call \in MultiPrefixCalls(masking)
     \/ call \in QuadReadCalls
     \/ call \in LaneCalls
     \/ call \in DummyCalls
     \/ call \in VoteCalls
  /\ looping = {}
  /\ result = [l \in 0 .. call.size - 1 |-> Undef]
  /\ step = "call"

WVNext == Call \/ EnterWaterfall \/ RejectCall \/ Iterate \/ LeaveWaterfall

\* The subgroup keeps executing.
WVSpec == WVInit /\ [][WVNext]_wvars /\ WF_wvars(WVNext)

----------------------------------------------------------------------------
(* What DXIL promises of the calls.                                        *)

Members(l) ==
  IF call.op \in {"MultiPrefixOp", "MultiPrefixBitCount"}
  THEN call.mask[l] \cap Participants ELSE Participants

Expected(l) ==
  CASE call.op = "IsFirstLane" -> l = Min(Participants)
    [] call.op = "AnyTrue" -> \E k \in Participants : Bit(k)
    [] call.op = "AllTrue" -> \A k \in Participants : Bit(k)
    [] call.op = "Ballot" -> {k \in Participants : Bit(k)}
    [] call.op = "BitCount" -> Cardinality({k \in Participants : Bit(k)})
    [] call.op \in {"PrefixBitCount", "MultiPrefixBitCount"} ->
         Cardinality({k \in Members(l) : k < l /\ Bit(k)})
    [] call.op = "ReadLaneFirst" -> call.value[Min(IF call.arg = "forced" THEN Active ELSE Participants)]
    [] call.op \in {"ActiveOp", "ActiveBit"} -> Group(call.arg, Participants, call.value)
    [] call.op \in {"PrefixOp", "MultiPrefixOp"} ->
         Group(call.arg, {k \in Members(l) : k < l}, call.value)
    [] call.op = "Match" -> {k \in Participants : call.value[k] = call.value[l]}
    [] call.op = "QuadVote" -> IF call.arg THEN \A k \in Active : Bit(k)
                               ELSE \E k \in Active : Bit(k)

\* Every lane that takes part gets the value DXIL defines over the lanes that
\* take part: helper lanes of a fragment shader change no reduction, scan,
\* vote, ballot, match or first-lane read, however the lanes fall into the
\* groups of a waterfall loop.
ResultsExcludeHelpers ==
  step = "done" /\ call.op \notin {"AllEqual", "ReadLaneAt", "QuadOp", "QuadReadLaneAt"} =>
    \A l \in Participants : result[l] = <<Expected(l)>>

\* What helper lanes get where it matters: they are never the first lane, they
\* read the same first value as the others, and zero when a wave is all
\* helpers.  AllEqual takes helpers into account, and so may only err towards
\* FALSE.
HelpersStayUniform ==
  step = "done" =>
    /\ call.op = "ReadLaneFirst" /\ call.arg = "any" =>
         \A l \in Active : result[l] = (IF Participants = {} THEN <<0>> ELSE <<Expected(l)>>)
    /\ call.op = "IsFirstLane" /\ Masking => \A l \in Helpers : result[l] = <<FALSE>>
    /\ call.op = "AllEqual" =>
         \A l \in Active : result[l] = <<TRUE>> => \A j, k \in Participants : call.value[j] = call.value[k]

\* A lane read gets the value of the lane the shader named, when that lane
\* runs, whichever of broadcast, quad broadcast, quad swap or shuffle it was
\* turned into; the robust quad read gets zero otherwise.  Where there are no
\* quads, DXIL names no lane and the lane reads itself.
Named(l) ==
  CASE call.op = "ReadLaneAt" -> Eval(call.arg, l)
    [] call.op # "ReadLaneAt" /\ call.dummy -> l
    [] call.op = "QuadOp" /\ ~ call.dummy -> QuadBase(l) + ((l % 4) ^^ (call.arg + 1))
    [] call.op = "QuadReadLaneAt" /\ ~ call.dummy -> QuadBase(l) + call.arg

LaneReadsAsNamed ==
  step = "done" /\ call.op \in {"ReadLaneAt", "QuadOp", "QuadReadLaneAt"} =>
    \A l \in Active :
      /\ Named(l) \in Active => result[l] = <<call.value[Named(l)]>>
      /\ Named(l) \notin Active /\ call.robust /\ call.quads /\ call.op = "QuadReadLaneAt" => result[l] = <<0>>

\* The partition operand of the NV scans is what the extension asks of it for
\* every lane that executes them, helper lanes included: each lane is in its
\* own partition and all lanes of a partition name the same one.
PartitionsAreValid ==
  step = "done" /\ call.op = "MultiPrefixOp" /\ call.nv =>
    \A l \in Active : /\ l \in Partition(l)
                      /\ \A k \in Partition(l) : Partition(k) = Partition(l)

\* Every waterfall loop ends: each iteration frees at least the lane that was
\* broadcast, NaN patterns included.
WaterfallEnds == <>(step \in {"done", "invalid"})

\* Every call passes the arguments its helper function takes ("There is no NV
\* equivalent for this one", dxil_waveops.cpp:973: the helper is called with
\* or without the NV extension).
CallsFitFunctions == step # "invalid"
=============================================================================
