---------------------------- MODULE FloatConversions ----------------------------
(***************************************************************************)
(* The floating point conversions the converter builds itself: helper      *)
(* functions that keep half denormals (build_legacy_denorm_f16_conv),      *)
(* that emulate FP8 with halves (build_fp16_to_fp8, build_fp8_to_fp16),    *)
(* and the conversions of cooperative matrices made of them                *)
(* (emit_wmma_complex_convert).                                            *)
(*                                                                         *)
(* A half is its bit pattern.  The magnitude of a 32-bit float is four     *)
(* times a half pattern plus two further bits of fraction, so that the     *)
(* order of patterns is the order of values and rounding to half is        *)
(* rounding to a multiple of four.                                         *)
(***************************************************************************)
EXTENDS Integers, Sequences

CONSTANTS
    Halves,     \* half magnitudes that are converted
    Floats,     \* 32-bit float magnitudes that are converted
    HwModes,    \* what packHalf2x16 and unpackHalf2x16 do: [rounds, flushes]
    Matrices,   \* sequences of [sign, mag], the elements a lane holds
    Saturation, \* saturate flags of matrix conversions
    NativeFp8   \* whether options.wmma_fp8 is set: a set of BOOLEAN

VARIABLES
    job,    \* what is converted
    got,    \* the result of a scalar conversion
    steps,  \* the operations still to run on a matrix
    lane,   \* the loop's index
    matrix, \* the operand of the running operation
    output, \* its coop_output
    bytes   \* the matrix as written to memory

floatVars == <<job, got, steps, lane, matrix, output, bytes>>

Infinity == 31744
Sign(h) == h \div 32768
Magnitude(h) == h % 32768
Exponent(m) == m \div 1024
WithSign(s, m) == s * 32768 + m

\* n / d rounded to nearest, ties to even.
Rounded(n, d) ==
    LET q == n \div d
        r == 2 * (n % d)
    IN  IF r > d \/ (r = d /\ q % 2 = 1) THEN q + 1 ELSE q

\* The half of n units of 2^-24.
OfUnits(n) ==
    IF n < 1024 THEN n
    ELSE LET k == CHOOSE k \in 10..20 : 2^k <= n /\ n < 2^(k + 1)
         IN  (k - 9) * 1024 + (n \div 2^(k - 10)) - 1024

\* Half multiplication by 1/256 and by 256.
Over256(m) ==
    IF m >= Infinity THEN m
    ELSE IF Exponent(m) > 8 THEN m - 8192
    ELSE IF Exponent(m) <= 1 THEN Rounded(m, 256)
    ELSE Rounded(1024 + (m % 1024), 2^(9 - Exponent(m)))
Times256(m) == IF Exponent(m) = 0 THEN OfUnits(m * 256) ELSE m + 8192

-----------------------------------------------------------------------------
(* The helpers.                                                            *)

QuantBy(h, bias) ==
    LET scaled == WithSign(Sign(h), Over256(Magnitude(h)))
        quant == ((scaled + bias) % 65536) \div 128
    IN  IF Sign(h) = 1 \/ (quant \div 128) % 2 = 1 THEN 128 + (quant % 128) ELSE quant % 128

\* convert_fp16_to_fp8.
Fp16ToFp8(h) == QuantBy(h, 63)

\* build_fp16_scalar and the scale after it.
Fp8ToFp16(b) == WithSign(b \div 128, Times256((b % 128) * 128))

\* packHalf2x16 of one component.
PackHalf(w, hw) ==
    LET h == IF hw.rounds THEN Rounded(w, 4) ELSE w \div 4
    IN  IF hw.flushes /\ w < 4096 THEN 0 ELSE h

\* A bitwise OR whose operands are equal or one of them zero.
Merge(a, b) == IF a = 0 THEN b ELSE IF b = 0 \/ a = b THEN a ELSE -1

\* The two directions of build_legacy_denorm_f16_conv.
FloatToHalf(w, hw) == Merge(PackHalf(w, hw), IF w < 4096 THEN w \div 4 ELSE 0)
HalfToFloat(m, hw) ==
    Merge(IF hw.flushes /\ m < 1024 THEN 0 ELSE 4 * m, IF m < 1024 THEN 4 * m ELSE 0)

Limit == 4 * 24320  \* 448.0

IsNaN(w) == w > 4 * Infinity
ToHalf(x) == [x EXCEPT !.mag = 4 * Rounded(x.mag, 4)]

\* GLSL NClamp to -448 and 448: a NaN becomes the lower bound.
Clamp(x) ==
    IF IsNaN(x.mag) THEN [sign |-> 1, mag |-> Limit]
    ELSE [x EXCEPT !.mag = IF x.mag > Limit THEN Limit ELSE x.mag]

\* The emulated F32_2_FP8 of emit_float8_conversion.
FloatToFp8(x) ==
    LET h == ToHalf(Clamp(x)) IN Fp16ToFp8(WithSign(h.sign, h.mag \div 4))

-----------------------------------------------------------------------------
(* Scalar conversions.                                                     *)

ConvertHalf ==
    /\ job.kind = "none"
    /\ \E m \in Halves, s \in {0, 1} :
         /\ job' = [kind |-> "Fp16ToFp8", in |-> WithSign(s, m)]
         /\ got' = Fp16ToFp8(WithSign(s, m))
    /\ UNCHANGED <<steps, lane, matrix, output, bytes>>

ConvertFp8 ==
    /\ job.kind = "none"
    /\ \E b \in 0..255 : job' = [kind |-> "Fp8ToFp16", in |-> b] /\ got' = Fp8ToFp16(b)
    /\ UNCHANGED <<steps, lane, matrix, output, bytes>>

\* emit_legacy_f16_to_f32_instruction and emit_legacy_f32_to_f16_instruction
\* with force_denorm_preserve_fp16_conversions.
PreserveDenorm ==
    /\ job.kind = "none"
    /\ \E hw \in HwModes :
         \/ \E m \in Halves : job' = [kind |-> "HalfToFloat", in |-> m] /\ got' = HalfToFloat(m, hw)
         \/ \E w \in Floats :
              /\ job' = [kind |-> "FloatToHalf", in |-> w, expect |-> PackHalf(w, [hw EXCEPT !.flushes = FALSE])]
              /\ got' = FloatToHalf(w, hw)
    /\ UNCHANGED <<steps, lane, matrix, output, bytes>>

ConvertFloat ==
    /\ job.kind = "none"
    /\ \E w \in Floats, s \in {0, 1} :
         /\ job' = [kind |-> "FloatToFp8", in |-> [sign |-> s, mag |-> w]]
         /\ got' = FloatToFp8([sign |-> s, mag |-> w])
    /\ UNCHANGED <<steps, lane, matrix, output, bytes>>

-----------------------------------------------------------------------------
(* Matrix conversions.                                                     *)

Formats == {"F32", "F16", "FP8"}
Uses == {"A", "B", "C"}

\* build_coopmat_type: only accumulators hold 32-bit floats.
Exists(fmt, use) == fmt = "F32" => use = "C"

Effective(fmt, native) == IF fmt = "FP8" /\ ~native THEN "F16" ELSE fmt

\* The element conversion of OpFConvert to a format.
FConvert(fmt, native, saturating) ==
    CASE Effective(fmt, native) = "FP8" -> IF saturating THEN "saturated8" ELSE "to8"
      [] Effective(fmt, native) = "F16" -> "to16"
      [] OTHER -> "to32"

Reject == <<"reject">>

\* emit_coopmat_transpose, which copies element by element where it may.
Transpose(fmt, from, to, native) ==
    IF native /\ "A" \notin {from, to} /\ fmt = "FP8" THEN <<"transfer">>
    ELSE IF fmt = "F32" THEN Reject ELSE <<"transpose">>

ConvertUseUnclamped(c) ==
    IF Effective(c.in, c.native) # Effective(c.out, c.native)
    THEN <<FConvert(c.out, c.native, c.saturating)>> ELSE <<"transpose">>

\* emit_coopmat_transpose_with_convert on the path it takes.
ConvertUse(c) ==
    LET emulated == ~c.native /\ c.out = "FP8" /\ c.in # "FP8"
        early == emulated /\ c.saturating
        from == IF early THEN "F16" ELSE Effective(c.in, c.native)
        differ == from # Effective(c.out, c.native)
    IN  (IF early THEN <<FConvert(c.out, c.native, FALSE), "clamp">> ELSE <<>>)
        \o IF differ THEN <<FConvert(c.out, c.native, c.saturating)>> ELSE <<"transpose">>

\* emit_wmma_complex_convert after it.
ConvertApart(c) ==
    LET inUse == Exists(c.out, c.inUse)
        early == c.inUse # c.outUse /\ ~inUse
        use == IF early THEN c.outUse ELSE c.inUse
    IN  IF ~inUse /\ ~Exists(c.in, c.outUse) THEN Reject
        ELSE (IF early THEN Transpose(c.in, c.inUse, c.outUse, c.native) ELSE <<>>)
             \o (IF Effective(c.in, c.native) # Effective(c.out, c.native)
                 THEN <<FConvert(c.out, c.native, c.saturating)>> ELSE <<>>)
             \o (IF c.out = "FP8" /\ ~c.native THEN <<"clamp">> ELSE <<>>)
             \o (IF use # c.outUse THEN Transpose(c.out, use, c.outUse, c.native) ELSE <<>>)

\* emit_wmma_convert: the operations on the matrix.
ComplexConvert(c) ==
    IF c.in = c.out /\ c.inUse = c.outUse THEN <<>>
    ELSE (IF c.native /\ c.out = "FP8" /\ c.in # "FP8" /\ c.saturating THEN <<"fixup">> ELSE <<>>)
         \o IF c.nv /\ c.inUse = "C" /\ c.outUse # "C" THEN ConvertUse(c) ELSE ConvertApart(c)

MatrixOperators == {"fixup", "clamp", "to8", "saturated8", "to16", "to32", "transfer", "transpose"}
NaN == [sign |-> 1, mag |-> 4 * 32767]

\* An operation on one element.  OpFConvert to FP8 is the device's.
Converted(op, x) ==
    CASE op = "fixup" -> IF x.mag = 4 * Infinity THEN NaN ELSE x
      [] op = "clamp" -> Clamp(x)
      [] op = "to16" -> ToHalf(x)
      [] op = "to8" -> IF x.mag > Limit THEN NaN ELSE x
      [] op = "saturated8" -> IF IsNaN(x.mag) THEN x ELSE Clamp(x)
      [] OTHER -> x

StartMatrix ==
    /\ job.kind = "none"
    /\ \E in \in Formats, out \in Formats, inUse \in Uses, outUse \in Uses,
          saturating \in Saturation, nv \in BOOLEAN, native \in NativeFp8, m \in Matrices :
         LET c == [kind |-> "Matrix", in |-> in, out |-> out, inUse |-> inUse, outUse |-> outUse,
                   saturating |-> saturating, nv |-> nv, native |-> native,
                   elements |-> IF in = "F32" THEN m
                                ELSE IF in = "F16" \/ native
                                THEN [i \in DOMAIN m |-> ToHalf(m[i])]
                                ELSE [i \in DOMAIN m |-> Clamp(ToHalf(m[i]))]]
         IN  /\ Exists(in, inUse) /\ Exists(out, outUse)
             /\ job' = c /\ matrix' = c.elements
             /\ steps' = ComplexConvert(c)
    /\ lane' = 1 /\ output' = <<>>
    /\ UNCHANGED <<got, bytes>>

Loops == {"fixup", "clamp", "transfer"}

\* One iteration of a helper's loop: build_coop_mat_saturation_fixup,
\* build_coop_mat_saturate_fp8 and build_coop_mat_transfer.
IterateLoop ==
    /\ steps # <<>> /\ Head(steps) \in Loops
    /\ LET done == Append(output, Converted(Head(steps), matrix[lane]))
           last == lane + 1 > Len(matrix)
       IN  /\ output' = IF last THEN <<>> ELSE done
           /\ matrix' = IF last THEN done ELSE matrix
           /\ lane' = IF last THEN 1 ELSE lane + 1
           /\ steps' = IF last THEN Tail(steps) ELSE steps
    /\ UNCHANGED <<job, got, bytes>>

\* An operation on the whole matrix.
RunOperation ==
    /\ steps # <<>> /\ Head(steps) \in MatrixOperators \ Loops
    /\ matrix' = [i \in DOMAIN matrix |-> Converted(Head(steps), matrix[i])]
    /\ steps' = Tail(steps)
    /\ UNCHANGED <<job, got, lane, output, bytes>>

\* The step of the FP8 loop: two elements at once.
Stride == 2

\* build_fp16_to_fp8's loop, where the matrix is stored as FP8.
StoreFp8 ==
    /\ job.kind = "Matrix" /\ steps = <<>> /\ lane <= Len(matrix)
    /\ job.out = "FP8" /\ ~job.native
    /\ bytes' = bytes \o [k \in 1..2 |->
                   LET x == matrix[lane + k - 1] IN Fp16ToFp8(WithSign(x.sign, x.mag \div 4))]
    /\ lane' = lane + Stride
    /\ UNCHANGED <<job, got, steps, matrix, output>>

FCInit ==
    /\ job = [kind |-> "none"] /\ got = 0 /\ steps = <<>> /\ lane = 1
    /\ matrix = <<>> /\ output = <<>> /\ bytes = <<>>

FCNext ==
    \/ ConvertHalf \/ ConvertFp8 \/ PreserveDenorm \/ ConvertFloat
    \/ StartMatrix \/ IterateLoop \/ RunOperation \/ StoreFp8
FCSpec == FCInit /\ [][FCNext]_floatVars

-----------------------------------------------------------------------------
(* References.                                                             *)

\* The half with the value of an FP8 magnitude: E4M3, bias 7, denormals.
ValueOf8(b) == IF b < 8 THEN OfUnits(b * 32768) ELSE (b \div 8 + 8) * 1024 + (b % 8) * 128

\* The half between an FP8 magnitude and the next.
Midpoint(b) == IF b < 8 THEN OfUnits(b * 32768 + 16384) ELSE ValueOf8(b) + 64

\* Halves that scaling by 1/256 cannot keep apart.
Slack(m) ==
    IF Exponent(m) > 8 THEN 0 ELSE IF Exponent(m) <= 1 THEN 128 ELSE 2^(8 - Exponent(m))

\* b is the nearest FP8 magnitude of the half m, ties to zero.
Nearest(m, b) ==
    /\ m <= Midpoint(b) + Slack(m)
    /\ b > 0 => m > Midpoint(b - 1)

\* The same of a 32-bit float, which was rounded to half before.
NearestOfFloat(w, b) ==
    /\ b < 127
    /\ b < 126 => w <= 4 * (Midpoint(b) + Slack(w \div 4)) + 2
    /\ b > 0 => w >= 4 * Midpoint(b - 1) - 2

-----------------------------------------------------------------------------
\* Every half in the range of FP8 becomes its nearest FP8 value, denormals
\* included, every FP8 value survives the way to half and back, and a 32-bit
\* float of any size is clamped and rounded with its sign (build_fp16_to_fp8,
\* build_fp8_to_fp16, emit_float8_conversion).
Fp8AsWritten ==
    /\ job.kind = "Fp16ToFp8" /\ Magnitude(job.in) <= Limit \div 4 =>
           got \div 128 = Sign(job.in) /\ Nearest(Magnitude(job.in), got % 128)
    /\ job.kind = "Fp8ToFp16" =>
           /\ got = WithSign(job.in \div 128, ValueOf8(job.in % 128))
           /\ job.in % 128 # 127 => Fp16ToFp8(got) = job.in
    /\ job.kind = "FloatToFp8" =>
           IF IsNaN(job.in.mag) THEN got = 254
           ELSE got \div 128 = job.in.sign /\ NearestOfFloat(job.in.mag, got % 128)

\* Whatever the device does with half denormals, no value is lost: a half widens
\* to the same value, and a float becomes the device's own half, or the
\* truncated denormal (build_legacy_denorm_f16_conv).
DenormsPreserved ==
    /\ job.kind = "HalfToFloat" => got = 4 * job.in
    /\ job.kind = "FloatToHalf" => got = IF job.in < 4096 THEN job.in \div 4 ELSE job.expect

\* A matrix converted to emulated FP8 and stored has, in every element, the FP8
\* value nearest to what the element was, and a native one is finite where the
\* element was, whichever way the conversion and the change of use were split
\* (emit_wmma_complex_convert, emit_coopmat_transpose_with_convert).
MatricesAsWritten ==
    job.kind = "Matrix" /\ steps = <<>> /\ job.out = "FP8" =>
        /\ Len(matrix) = Len(job.elements)
        /\ ~job.native /\ lane > Len(matrix) =>
             /\ Len(bytes) = Len(matrix)
             /\ \A i \in DOMAIN matrix :
                  ~IsNaN(job.elements[i].mag) =>
                      /\ bytes[i] \div 128 = job.elements[i].sign
                      /\ NearestOfFloat(job.elements[i].mag, bytes[i] % 128)
        /\ job.native /\ job.saturating =>
             \A i \in DOMAIN matrix :
                 job.elements[i].mag < 4 * Infinity /\ job.in # "FP8" => matrix[i].mag <= Limit
=============================================================================
