----------------------------- MODULE IntegerOps -----------------------------
(***************************************************************************)
(* Integer instructions (opcodes_llvm_builtins.cpp, dxil_arithmetic.cpp).  *)
(* LLVM has integers of every width, SPIR-V has three.  A value of an odd  *)
(* width lives in the next wider type, and the bits above its width are    *)
(* whatever the last instruction left there: each instruction that would   *)
(* see them has to extend its operands first.                              *)
(*                                                                         *)
(* A program is written one instruction at a time.  Every value carries    *)
(* what LLVM and D3D say it is and what the emitted code computes.         *)
(***************************************************************************)
EXTENDS Integers, Sequences, FiniteSets, SequencesExt, Bitwise

CONSTANTS Word,       \* 32 in the code; halves and double words follow
          OddWidths,  \* widths below Word that are no SPIR-V width
          OddOps,     \* the binary operators a shader uses on odd widths
          Inputs,     \* <<width, value>> of the values a shader starts from
          Packed,     \* words whose bytes the packed instructions take
          MaxValues   \* inputs and instructions of a program

VARIABLES
  values,   \* per value: its width, what it is, what is computed, is it a constant
  packed,   \* what the packed instructions were written as and what they compute
  branch    \* the condition of a loop over the lanes: written, and decided to be

ioVars == <<values, packed, branch>>

Half == Word \div 2
Double == 2 * Word
Byte == Word \div 4
Widths == {1, Half, Word, Double} \cup OddWidths

Mod(x, w) == x % 2^w
Ones(w) == 2^w - 1
ToSigned(x, w) == IF x >= 2^(w - 1) THEN x - 2^w ELSE x
FromSigned(x, w) == Mod(x, w)
Quotient(a, b) == LET q == (IF a < 0 THEN -a ELSE a) \div (IF b < 0 THEN -b ELSE b)
                  IN  IF (a < 0) = (b < 0) THEN q ELSE -q

\* a * b at width w, in two steps that stay small.
Product(a, b, w) == Mod(a * Mod(b, Word) + 2^Word * Mod(a * (b \div 2^Word), Word), w)

\* physical_integer_bit_width.
Physical(w) == IF w \in {1, Half, Word, Double} THEN w ELSE IF w <= Word THEN Word ELSE Double

-----------------------------------------------------------------------------
(* An operator at one width.  LLVM and SPIR-V agree on these.              *)

Divisions == {"sdiv", "udiv", "srem", "urem"}
Bitwises == {"and", "or", "xor"}
Operators == Divisions \cup Bitwises \cup {"add", "sub", "mul", "shl", "lshr", "ashr"}
SignedOps == {"sdiv", "srem", "ashr"}

ApplyOperator(op, a, b, w) ==
  LET sa == ToSigned(a, w)
      sb == ToSigned(b, w)
  IN  CASE op = "add"  -> Mod(a + b, w)
        [] op = "sub"  -> Mod(a - b, w)
        [] op = "mul"  -> Product(a, b, w)
        [] op = "udiv" -> a \div b
        [] op = "urem" -> a % b
        [] op = "sdiv" -> FromSigned(Quotient(sa, sb), w)
        [] op = "srem" -> FromSigned(sa - sb * Quotient(sa, sb), w)
        [] op = "shl"  -> IF b < w THEN Mod(a, w - b) * 2^b ELSE 0
        [] op = "lshr" -> IF b < w THEN a \div 2^b ELSE 0
        [] op = "ashr" -> IF b < w THEN FromSigned(sa \div 2^b, w) ELSE 0
        [] op = "and"  -> a & b
        [] op = "or"   -> a | b
        [] op = "xor"  -> a ^^ b

\* What the shader may write: shifts stay below the width, quotients fit.
IsDefined(op, a, b, w) ==
  /\ op \in {"shl", "lshr", "ashr"} => b < w
  /\ op \in {"sdiv", "srem"} => ~ (a = 2^(w - 1) /\ b = Ones(w))

\* D3D defines a division by zero.
Meaning(op, a, b, w) == IF op \in Divisions /\ b = 0 THEN Ones(w) ELSE ApplyOperator(op, a, b, w)

-----------------------------------------------------------------------------
(* Emission of LLVM instructions.                                          *)

\* OpBitFieldSExtract and OpBitFieldUExtract of the low bits of a value.
Extract(x, offset, count, signed, w) ==
  LET field == Mod(x \div 2^offset, count)
  IN  CASE count = 0 -> 0
        [] count > 0 -> IF signed THEN FromSigned(ToSigned(field, count), w) ELSE field

\* build_naturally_extended_value.
\* Mutant: the bits above the width are left alone.
NotExtended(v, bits, signed) == v.physical

Extended(v, bits, signed) ==
  IF bits = Physical(v.bits) THEN v.physical
  ELSE Extract(v.physical, 0, bits, signed, Physical(v.bits))

\* build_udiv_umod: the divisor zero becomes all ones, and so does the result.
SafeQuotient(op, a, b, w) ==
  LET divisor == IF b = 0 THEN Ones(w) ELSE b
  IN  IF b = 0 THEN Ones(w) ELSE ApplyOperator(op, a, divisor, w)

\* emit_integer_division_instruction: the helper only for divisors that may be zero.
Division(op, x, y) ==
  LET w == Physical(x.bits)
      Operand(v) == IF op \in SignedOps THEN Extended(v, v.bits, TRUE) ELSE v.physical
  IN  CASE y.const /\ y.is # 0 -> ApplyOperator(op, Operand(x), Operand(y), w)
        [] y.const /\ y.is = 0 -> Ones(w)
        [] ~ y.const -> SafeQuotient(op, Operand(x), Operand(y), w)

\* constant_is_all_bits_set.
AllBitsSet(v) == v.const /\ v.is = Ones(v.bits)

\* emit_binary_instruction_impl.
BinaryEmission(op, x, y) ==
  LET w == Physical(x.bits)
  IN  CASE op \in Divisions -> Division(op, x, y)
        [] op = "sub" /\ x.const /\ x.is = 0 -> Mod(- y.physical, w)
        [] op = "xor" /\ AllBitsSet(x) -> Ones(w) - y.physical
        [] op = "xor" /\ ~ AllBitsSet(x) /\ AllBitsSet(y) -> Ones(w) - x.physical
        [] op \in {"lshr", "ashr"} ->
             ApplyOperator(op, Extended(x, x.bits, op = "ashr"), Extended(y, y.bits, op = "ashr"), w)
        [] OTHER -> ApplyOperator(op, x.physical, y.physical, w)

\* OpSConvert and OpUConvert between two SPIR-V widths.
Convert(x, from, to, signed) == Mod(IF signed THEN ToSigned(x, from) ELSE x, to)

\* emit_boolean_convert_instruction and emit_boolean_trunc_instruction.
BooleanConvert(v, w, signed) == IF v.physical = 0 THEN 0 ELSE IF signed THEN Ones(w) ELSE 1
BooleanTrunc(v) == IF Extended(v, v.bits, FALSE) % 2 # 0 THEN 1 ELSE 0

\* emit_masked_cast_instruction: the narrower of the two widths is extended.
MaskedCast(v, to, signed) ==
  LET from == Physical(v.bits)
      out  == Physical(to)
      low  == IF to < v.bits THEN to ELSE v.bits
  IN  IF from = out THEN Extended(v, low, signed)
      ELSE Convert(IF from # v.bits THEN Extended(v, low, signed) ELSE v.physical, from, out, signed)

\* emit_cast_instruction_impl.
CastEmission(cast, v, to) ==
  LET signed == cast = "sext"
  IN  CASE v.bits = 1 -> BooleanConvert(v, Physical(to), signed)
        [] v.bits > 1 /\ to = 1 -> BooleanTrunc(v)
        [] v.bits > 1 /\ to > 1 -> MaskedCast(v, to, signed)

CastMeaning(cast, x, from, to) == Mod(IF cast = "sext" THEN ToSigned(x, from) ELSE x, to)

\* emit_compare_instruction.
Predicates == {"eq", "slt", "sge", "ult", "uge"}
Compare(p, a, b, w) ==
  LET holds == CASE p = "eq"  -> a = b
                 [] p = "slt" -> ToSigned(a, w) < ToSigned(b, w)
                 [] p = "sge" -> ToSigned(a, w) >= ToSigned(b, w)
                 [] p = "ult" -> a < b
                 [] p = "uge" -> a >= b
  IN  IF holds THEN 1 ELSE 0

CompareEmission(p, x, y) ==
  LET signed == p \in {"slt", "sge"}
  IN  Compare(p, Extended(x, x.bits, signed), Extended(y, y.bits, signed), Physical(x.bits))

-----------------------------------------------------------------------------
(* Bit scans, counts and fields of dxil_arithmetic.cpp.                    *)

BitsOf(x, w) == {i \in 0 .. w - 1 : (x \div 2^i) % 2 = 1}
Highest(s) == IF s = {} THEN -1 ELSE CHOOSE i \in s : \A j \in s : j <= i
Lowest(s) == IF s = {} THEN -1 ELSE CHOOSE i \in s : \A j \in s : i <= j

Scans == {"lo", "hi", "shi"}

\* FindILsb, FindUMsb and FindSMsb, of words only.
FindBit(scan, x) ==
  CASE scan = "lo"  -> FromSigned(Lowest(BitsOf(x, Word)), Word)
    [] scan = "hi"  -> FromSigned(Highest(BitsOf(x, Word)), Word)
    [] scan = "shi" -> LET ones == BitsOf(x, Word)
                       IN  FromSigned(Highest(IF x >= 2^(Word - 1) THEN (0 .. Word - 1) \ ones
                                              ELSE ones), Word)

\* emit_native_bitscan: halves are extended, double words are scanned in two halves.
\* The two halves of a double word; the merge keeps -1 because it has every bit set.
BitscanDouble(scan, x) ==
  LET lo   == Mod(x, Word)
      hi   == x \div 2^Word
      flip == IF scan = "shi" /\ hi >= 2^(Word - 1) THEN Ones(Word) ELSE 0
      Of(half) == FindBit(IF scan = "lo" THEN "lo" ELSE "hi", half ^^ flip)
      low  == Of(lo)
      high == Of(hi) | Word
      UMin == IF low < high THEN low ELSE high
      SMax == IF ToSigned(low, Word) > ToSigned(high, Word) THEN low ELSE high
  IN  IF scan = "lo" THEN UMin ELSE SMax

Bitscan(scan, x, bits) ==
  CASE bits = Half   -> FindBit(scan, Convert(x, Half, Word, scan = "shi"))
    [] bits = Word   -> FindBit(scan, x)
    [] bits = Double -> BitscanDouble(scan, x)

\* emit_find_high_bit_instruction counts from the top.
ScanEmission(scan, v) ==
  LET found == Bitscan(scan, v.physical, v.bits)
  IN  IF scan = "lo" \/ found = Ones(Word) THEN found ELSE Mod(v.bits - 1 - found, Word)

\* D3D counts from the bit that comes first; a scan that finds nothing is -1.
ScanMeaning(scan, x, w) ==
  LET ones == BitsOf(x, w)
      hits == IF scan = "shi" /\ x >= 2^(w - 1) THEN (0 .. w - 1) \ ones ELSE ones
  IN  CASE hits = {} -> Ones(Word)
        [] hits # {} -> IF scan = "lo" THEN Lowest(hits) ELSE w - 1 - Highest(hits)

\* emit_peephole_findmsb: a select that counts from the bottom again.
FindMsbMeaning(scan, x, w) ==
  LET clz == ScanMeaning(scan, x, w) IN IF clz = Ones(Word) THEN Ones(Word) ELSE w - 1 - clz

\* emit_bit_count_instruction and emit_bit_reverse_instruction.
ReverseBits(x, w) == LET at == BitsOf(x, w) IN
  FoldLeft(LAMBDA sum, i : sum + (IF i - 1 \in at THEN 2^(w - i) ELSE 0), 0, [i \in 1 .. w |-> i])

CountEmission(v) ==
  IF v.bits = Double THEN Cardinality(BitsOf(Mod(v.physical, Word), Word))
                            + Cardinality(BitsOf(v.physical \div 2^Word, Word))
  ELSE Cardinality(BitsOf(v.physical, Word))

ReverseEmission(v) ==
  CASE v.bits = Word   -> ReverseBits(v.physical, Word)
    [] v.bits = Half   -> ReverseBits(v.physical, Word) \div 2^Half
    [] v.bits = Double -> ReverseBits(v.physical \div 2^Word, Word)
                            + 2^Word * ReverseBits(Mod(v.physical, Word), Word)

-----------------------------------------------------------------------------
(* Fields and packed bytes; operands are words.                            *)

\* clamp_bitfield_width after mask_input.
FieldWidth(width, offset) ==
  LET most == Word - (offset % Word) IN IF width % Word < most THEN width % Word ELSE most

\* emit_bfe_instruction and emit_bfi_instruction.
FieldEmission(width, offset, x, signed) ==
  LET count == FieldWidth(width, offset)
      at == offset % Word
  IN  IF at + count > Word THEN -1     \* undefined in SPIR-V
      ELSE Extract(x, at, count, signed, Word)

InsertEmission(width, offset, source, x) ==
  LET count == FieldWidth(width, offset)
      at == offset % Word
      low == Mod(x, at)
  IN  IF at + count > Word THEN -1
      ELSE low + 2^at * Mod(source, count) + 2^(at + count) * (x \div 2^(at + count))

FieldMeaning(width, offset, x, signed) ==
  LET n == width % Word
      at == offset % Word
      high == IF n + at < Word THEN Word - (n + at) ELSE 0
      left == Mod(x * 2^high, Word)
      right == IF n + at < Word THEN Word - n ELSE at
  IN  IF n = 0 THEN 0 ELSE ApplyOperator(IF signed THEN "ashr" ELSE "lshr", left, right, Word)

InsertMeaning(width, offset, source, x) ==
  LET mask == Mod((2^(width % Word) - 1) * 2^(offset % Word), Word)
  IN  (Mod(source * 2^(offset % Word), Word) & mask) | (x & (Ones(Word) - mask))

ByteOf(x, i, signed) == Extract(x, Byte * i, Byte, signed, Word)

\* emit_i8_dot_instruction without SPV_KHR_integer_dot_product: a chain of sums.
DotEmission(acc, a, b, signed) ==
  FoldLeft(LAMBDA sum, i : Mod(sum + ByteOf(a, i, signed) * ByteOf(b, i, signed), Word), acc,
           <<0, 1, 2, 3>>)

DotMeaning(acc, a, b, signed) ==
  LET Lane(x, i) == LET f == Mod(x \div 2^(Byte * i), Byte) IN IF signed THEN ToSigned(f, Byte) ELSE f
  IN  Mod(acc + Lane(a, 0) * Lane(b, 0) + Lane(a, 1) * Lane(b, 1) + Lane(a, 2) * Lane(b, 2)
              + Lane(a, 3) * Lane(b, 3), Word)

\* emit_msad_instruction: a byte of the reference that is zero is masked.
MsadEmission(reference, source, acc) ==
  LET Diff(i) == LET d == Mod(ByteOf(reference, i, FALSE) - ByteOf(source, i, FALSE), Word)
                     s == ToSigned(d, Word)
                 IN  IF ByteOf(reference, i, FALSE) = 0 THEN 0 ELSE IF s < 0 THEN -s ELSE s
  IN  Mod(acc + Diff(0) + Diff(1) + Diff(2) + Diff(3), Word)

MsadMeaning(reference, source, acc) ==
  LET B(x, i) == (x \div 2^(Byte * i)) % 2^Byte
      D(i) == IF B(reference, i) >= B(source, i) THEN B(reference, i) - B(source, i)
              ELSE B(source, i) - B(reference, i)
  IN  Mod(acc + FoldLeft(LAMBDA s, i : s + (IF B(reference, i) = 0 THEN 0 ELSE D(i)), 0, <<0, 1, 2, 3>>), Word)

\* emit_pack4x8_instruction of four copies of a word, and emit_unpack4x8_instruction.
Clamped(x, mode) ==
  LET lo == IF mode = "unsigned" THEN 0 ELSE - 2^(Byte - 1)
      hi == IF mode = "unsigned" THEN 2^Byte - 1 ELSE 2^(Byte - 1) - 1
      s  == ToSigned(x, Word)
  IN  IF mode = "none" THEN x ELSE FromSigned(IF s < lo THEN lo ELSE IF s > hi THEN hi ELSE s, Word)

PackEmission(x, y, mode) ==
  Mod(Clamped(x, mode), Byte) + 2^Byte * Mod(Clamped(y, mode), Byte)

\* emit_dxil_wide_arith_instruction: the high word first, or only the low word.
WideEmission(a, b, signed) ==
  LET product == Mod(IF signed THEN ToSigned(a, Word) * ToSigned(b, Word) ELSE a * b, Double)
  IN  <<product \div 2^Word, Mod(product, Word)>>

-----------------------------------------------------------------------------
(* can_optimize_conditional_branch_to_static: numerator / lanes > limit,   *)
(* where the device has between least and most lanes.                      *)

StaticCondition(numerator, limit, least, most) ==
  CASE numerator \div most > limit -> "true"
    [] numerator \div most <= limit /\ limit >= numerator \div least -> "false"
    [] OTHER -> "dynamic"

-----------------------------------------------------------------------------
(* Actions.                                                                *)

Value(bits, is, physical) == [bits |-> bits, is |-> is, physical |-> physical, const |-> FALSE]

IOInit ==
  /\ \E a, b \in Inputs : \E const \in BOOLEAN :
       /\ a[1] = b[1]
       /\ values = <<Value(a[1], a[2], a[2]), [Value(b[1], b[2], b[2]) EXCEPT !.const = const]>>
  /\ packed = << >> /\ branch = << >>

CanWrite == Len(values) < MaxValues /\ packed = << >> /\ branch = << >>
Write(v) == values' = Append(values, v) /\ UNCHANGED <<packed, branch>>

\* The operands are the last value and one before it, in both orders.
Operands == {<<i, j>> \in (1 .. Len(values)) \X (1 .. Len(values)) :
               Len(values) \in {i, j} /\ values[i].bits = values[j].bits}

EmitBinary ==
  /\ CanWrite
  /\ \E o \in Operands, op \in Operators :
       LET x == values[o[1]]
           y == values[o[2]]
       IN  /\ IsDefined(op, x.is, y.is, x.bits)
           /\ x.bits = 1 => op \in Bitwises
           /\ x.bits \in OddWidths => op \in OddOps
           /\ Write(Value(x.bits, Meaning(op, x.is, y.is, x.bits), BinaryEmission(op, x, y)))

EmitCast ==
  /\ CanWrite
  /\ \E to \in Widths : \E cast \in {"sext", "zext", "trunc"} :
       LET v == Last(values) IN
       /\ IF cast = "trunc" THEN to < v.bits ELSE to > v.bits
       /\ Write(Value(to, CastMeaning(cast, v.is, v.bits, to), CastEmission(cast, v, to)))

EmitCompare ==
  /\ CanWrite
  /\ \E o \in Operands, p \in Predicates :
       LET x == values[o[1]]
           y == values[o[2]]
       IN  /\ x.bits > 1
           /\ Write(Value(1, Compare(p, x.is, y.is, x.bits), CompareEmission(p, x, y)))

EmitSelect ==
  /\ CanWrite /\ Last(values).bits = 1 /\ values[1].bits = values[2].bits
  /\ Write(Value(values[1].bits, IF Last(values).is = 1 THEN values[1].is ELSE values[2].is,
                 IF Last(values).physical = 1 THEN values[1].physical ELSE values[2].physical))

EmitBits ==
  /\ CanWrite /\ Last(values).bits \in {Half, Word, Double}
  /\ LET v == Last(values) IN
     \/ \E scan \in Scans : Write(Value(Word, ScanMeaning(scan, v.is, v.bits), ScanEmission(scan, v)))
     \/ \E scan \in {"hi", "shi"} :
          Write(Value(Word, FindMsbMeaning(scan, v.is, v.bits), Bitscan(scan, v.physical, v.bits)))
     \/ Write(Value(Word, Cardinality(BitsOf(v.is, v.bits)), CountEmission(v)))
     \/ Write(Value(v.bits, ReverseBits(v.is, v.bits), ReverseEmission(v)))

IsWords == Len(values) = 2 /\ packed = << >> /\ branch = << >> /\ values[1].bits = Word /\ ~ values[2].const
Pack(is, computed) == packed' = <<is, computed>> /\ UNCHANGED <<values, branch>>

EmitPacked ==
  /\ IsWords
  /\ LET a == values[1].is
         b == values[2].is
     IN  \/ \E x \in Packed, signed \in BOOLEAN :
              \/ Pack(FieldMeaning(a, b, x, signed), FieldEmission(a, b, x, signed))
              \/ Pack(DotMeaning(x, a, b, signed), DotEmission(x, a, b, signed))
         \/ \E x, y \in Packed : Pack(InsertMeaning(a, b, x, y), InsertEmission(a, b, x, y))
         \/ \E x \in Packed : Pack(MsadMeaning(a, b, x), MsadEmission(a, b, x))
         \/ \E mode \in {"none", "unsigned", "signed"} :
              LET word == PackEmission(a, b, mode) IN
              Pack(<<Mod(Clamped(a, mode), Byte), Mod(Clamped(b, mode), Byte)>>,
                   <<ByteOf(word, 0, FALSE), ByteOf(word, 1, FALSE)>>)
         \/ \E signed \in BOOLEAN :
              LET wide == WideEmission(a, b, signed) IN
              Pack(Mod(IF signed THEN ToSigned(a, Word) * ToSigned(b, Word) ELSE a * b, Double),
                   2^Word * wide[1] + wide[2])

DecideBranch ==
  /\ IsWords
  /\ \E least \in {1, 2, 4} : \E most \in {m \in {1, 2, 4} : m >= least} :
       branch' = [numerator |-> values[1].is, limit |-> values[2].is, least |-> least, most |-> most,
                  decided |-> StaticCondition(values[1].is, values[2].is, least, most)]
  /\ UNCHANGED <<values, packed>>

IONext == EmitBinary \/ EmitCast \/ EmitCompare \/ EmitSelect \/ EmitBits \/ EmitPacked \/ DecideBranch

IOSpec == IOInit /\ [][IONext]_ioVars

-----------------------------------------------------------------------------
(* Properties.                                                             *)

\* The low bits of every value are what LLVM says the value is, whatever earlier
\* instructions left above its width (build_naturally_extended_value and its callers);
\* a division by zero is all ones, a scan that finds nothing is -1.
IntegersAsWritten ==
  \A i \in DOMAIN values :
    LET v == values[i] IN v.physical \in 0 .. Ones(Physical(v.bits)) /\ Mod(v.physical, v.bits) = v.is

\* Bit fields of every width and offset, dot products, byte differences, packing and wide
\* products are those of D3D, and no emitted bit field instruction is undefined.
PackedAsWritten == packed # << >> => packed[1] = packed[2]

\* A branch is made static only if it goes the same way for every subgroup size the
\* device may choose (can_optimize_conditional_branch_to_static).
StaticBranchesAgree ==
  branch # << >> =>
    \A lanes \in branch.least .. branch.most :
      LET holds == branch.numerator \div lanes > branch.limit
      IN  /\ branch.decided = "true" => holds
          /\ branch.decided = "false" => ~ holds
=============================================================================
