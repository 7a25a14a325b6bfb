----------------------------- MODULE MC_Opcodes -----------------------------
(* The translation of opcodes that needs more than one instruction, side   *)
(* by side: integers of odd widths, floating point emulation, NVAPI        *)
(* packets, and the variables of ray tracing.  A behaviour runs one of     *)
(* them.                                                                   *)
EXTENDS IntegerOps, FloatConversions, NVAPIPackets, RayPayloads, RayObjects

VARIABLE running

\* Halves of four bits, words of eight and double words of sixteen; five bits are
\* an odd width.
MCInputs == {<<1, 0>>, <<1, 1>>}
              \cup ({4} \X {0, 1, 7, 8, 15})
              \cup ({5} \X {0, 1, 5, 15, 16, 31})
              \cup ({8} \X {0, 1, 3, 9, 127, 128, 255})
              \cup ({16} \X {0, 255, 256, 40000})
SomeOps == Operators \ {"udiv", "urem", "shl"}

\* Every half; floats around the half denormals, the limit of FP8 and infinity.
AllHalves == 0 .. 32767
SomeFloats ==
  0 .. 16500 \cup {4 * h + f : h \in {1000 * k + 7 : k \in 5 .. 24} \cup 24300 .. 24400
                                       \cup {31743, 31744, 32000}, f \in 0 .. 3}
FlushingModes == [rounds : BOOLEAN, flushes : {TRUE}]
Element(s, m) == [sign |-> s, mag |-> m]
SomeMatrices ==
  {<<Element(0, 4 * 15360), Element(1, 4 * 24576 + 1)>>,
   <<Element(0, 4 * 31744), Element(1, 4 * 7000 + 3), Element(1, 4 * 31743 + 3), Element(0, 4 * 32256)>>}

\* A raw buffer and a texture; every NVAPI intrinsic but the one whose number
\* differs from its DXIL builtin's.
Uavs == [b1 |-> "buffer", t1 |-> "texture"]
AllButInstanceID == DOMAIN HeaderArguments \ {"InstanceID"}

-----------------------------------------------------------------------------
IntegersIdle ==
  /\ values = << >> /\ packed = << >> /\ branch = << >>
FloatsIdle ==
  /\ job = << >> /\ got = << >> /\ steps = << >> /\ lane = << >> /\ matrix = << >>
  /\ output = << >> /\ bytes = << >>
PacketsIdle ==
  /\ text = << >> /\ asked = << >> /\ stage = << >> /\ line = << >> /\ inputs = << >>
  /\ handles = << >> /\ outputs = << >> /\ doorbell = << >> /\ deferred = << >>
  /\ clocked = << >> /\ expected = << >> /\ marked = << >> /\ formats = << >>
  /\ fake = << >> /\ did = << >> /\ results = << >>
PayloadsIdle ==
  /\ rayCalls = << >> /\ rayPhase = << >> /\ rayAt = << >> /\ storage = << >>
  /\ copied = << >> /\ source = << >> /\ memory = << >> /\ scratch = << >>
  /\ misplaced = FALSE /\ misread = FALSE
ObjectsIdle ==
  /\ incoming = << >> /\ traced = [b \in TraceBlocks |-> "none"] /\ newer = {}
  /\ handle = "q1" /\ consumer = << >>
  /\ rejected = << >> /\ where = "idle" /\ from = << >> /\ rounds = << >> /\ ssa = << >>
  /\ held = << >> /\ ticks = << >> /\ newest = << >> /\ heap = << >>
  /\ queries = [x \in Queries |-> 0] /\ last = << >>
  /\ recorded = [from |-> "q1", meant |-> 0, taken |-> 0]

OpcodesInit ==
  \/ running = "integers" /\ IOInit /\ FloatsIdle /\ PacketsIdle /\ PayloadsIdle /\ ObjectsIdle
  \/ running = "floats" /\ FCInit /\ IntegersIdle /\ PacketsIdle /\ PayloadsIdle /\ ObjectsIdle
  \/ running = "packets" /\ NVAPIInit /\ IntegersIdle /\ FloatsIdle /\ PayloadsIdle /\ ObjectsIdle
  \/ running = "payloads" /\ RPInit /\ IntegersIdle /\ FloatsIdle /\ PacketsIdle /\ ObjectsIdle
  \/ running = "objects" /\ ROInit /\ IntegersIdle /\ FloatsIdle /\ PacketsIdle /\ PayloadsIdle

IntegersStep == running = "integers" /\ IONext /\ UNCHANGED <<running, floatVars, nvapiVars, rayVars, objectVars>>
FloatsStep == running = "floats" /\ FCNext /\ UNCHANGED <<running, ioVars, nvapiVars, rayVars, objectVars>>
PacketsStep == running = "packets" /\ NVAPINext /\ UNCHANGED <<running, ioVars, floatVars, rayVars, objectVars>>
PayloadsStep == running = "payloads" /\ RPNext /\ UNCHANGED <<running, ioVars, floatVars, nvapiVars, objectVars>>
ObjectsStep == running = "objects" /\ RONext /\ UNCHANGED <<running, ioVars, floatVars, nvapiVars, rayVars>>

OpcodesNext == IntegersStep \/ FloatsStep \/ PacketsStep \/ PayloadsStep \/ ObjectsStep

opcodeVars == <<running, ioVars, floatVars, nvapiVars, rayVars, objectVars>>
OpcodesSpec == OpcodesInit /\ [][OpcodesNext]_opcodeVars

-----------------------------------------------------------------------------
\* Integers narrower or wider than the words that hold them, bit operations,
\* packed bytes and branches decided early: the emitted word means the DXIL value
\* (opcodes_llvm_builtins.cpp, dxil_arithmetic.cpp).
IntegersSound ==
  running = "integers" => IntegersAsWritten /\ PackedAsWritten /\ StaticBranchesAgree

\* Emulated FP8, preserved half denormals and matrix conversions keep every value
\* their formats can hold (spirv_module.cpp, dxil_ags.cpp).
FloatsSound == running = "floats" => Fp8AsWritten /\ DenormsPreserved /\ MatricesAsWritten

\* An NVAPI intrinsic is emitted with the arguments the shader wrote to its packet,
\* and both passes see the same packets (dxil_nvapi.cpp).
IntrinsicsSound == running = "packets" => IntrinsicsAsWritten /\ AnalysisAgrees
=============================================================================
