--------------------------- MODULE BitcodeModule ----------------------------
(***************************************************************************)
(* ModuleParseContext of the LLVM bitcode reader: values are numbered in   *)
(* the order of their records, and an operand names a value by its         *)
(* distance from the next number, by a signed distance or by its number.   *)
(* A number that has no value yet becomes a proxy, which is replaced at    *)
(* the end of the function.                                                *)
(*                                                                         *)
(* The records are written as the reader goes.  Next to the reader's table *)
(* of values stands the writer's, numbered by the rules of the format.     *)
(* Types other than void, opcodes and names are left out: records are well *)
(* typed, and an instruction or a constant has one operand.                *)
(***************************************************************************)
EXTENDS Integers, Sequences, SequencesExt

CONSTANTS
  NoValue, Forward,   \* the scope of values of the module, and of proxies
  IdRange,        \* 2^32
  SignBit,          \* 2^63
  MaxGlobals,       \* bound: values at module scope
  MaxArgs,          \* bound: arguments of a function
  MaxBlocks,        \* bound: basic blocks of a function
  MaxRecords        \* bound: constants and instructions in all functions

\* Values, proxies and numbers are told apart.
ASSUME BMConstants ==
  /\ NoValue \notin Nat /\ Forward \notin Nat /\ NoValue # Forward
  /\ NoValue \notin [scope : Nat \cup {NoValue, Forward}, n : Nat]

\* There are fewer values than numbers of 32 bits.
ASSUME BMBounds ==
  /\ MaxGlobals \in Nat /\ MaxArgs \in Nat /\ MaxRecords \in Nat /\ MaxBlocks \in Nat
  /\ IdRange \in Nat /\ SignBit \in Nat
  /\ MaxGlobals + MaxArgs + MaxRecords + 1 < IdRange /\ IdRange <= SignBit

VARIABLES
  reading,                          \* "module", "body" or "failed"
  use_relative_id,
  values,                      \* the reader's table
  global_values,               \* its copy while a body is read
  pending_forward_references,  \* the numbers that proxies wait for
  functions_with_bodies,
  seen_first_function_body,
  function,                    \* the function whose body is read
  blocks_left,                 \* basic blocks without a terminator
  instructions,                \* of this body
  constants,                   \* with operands
  global_initializations,      \* the initializers that are not set yet
  initializers,                \* the ones that are
  attached,                    \* instructions with metadata
  module,                      \* the finished functions
  written,                     \* the writer's table of values
  declared,                    \* the writer's functions with bodies
  records                      \* the writer's records in this body and in all

readerVars == <<use_relative_id, global_values, functions_with_bodies, seen_first_function_body, function>>
writerVars == <<written, declared, records>>
bmVars == <<reading, readerVars, values, pending_forward_references, blocks_left, instructions, constants,
            global_initializations, initializers, attached, module, writerVars>>

-----------------------------------------------------------------------------
(* Values and operands.                                                    *)

\* A value: the function it is in and its number there.
Value(scope, n) == [scope |-> scope, n |-> n]

\* An operand that waits for value number id.
Proxy(id) == Value(Forward, id)

\* The function whose body is being written.
Writing == declared[Len(module) + 1]

\* How the writer refers to value number id.
Encode(kind, id) ==
  LET next == Len(written)
  IN  CASE kind = "absolute" \/ ~ use_relative_id -> id
        [] kind = "phi" /\ use_relative_id ->
             IF next >= id THEN 2 * (next - id) ELSE 2 * (id - next) + 1
        [] OTHER -> (next - id) % IdRange

\* Mutant: the sign is dropped.
DecodeMagnitude(v) == v \div 2

\* decode_sign_rotated_value.
DecodeSigned(v) ==
  CASE v % 2 = 0 -> v \div 2
    [] v = 1 -> SignBit
    [] OTHER -> - (v \div 2)

\* The number that get_value, get_value_and_type or get_value_signed looks up.
Decode(kind, op) ==
  CASE kind = "absolute" \/ ~ use_relative_id -> op
    [] kind = "phi" /\ use_relative_id -> (Len(values) - DecodeSigned(op)) % (2 * SignBit)
    [] OTHER -> (Len(values) - op) % IdRange

\* The value, a proxy for it, or NoValue: a forward reference needs a type.
Operand(kind, typed, op) ==
  LET id == Decode(kind, op)
  IN  CASE id < Len(values) -> values[id + 1]
        [] id >= Len(values) /\ typed -> Proxy(id)
        [] OTHER -> NoValue

\* The forward references after an operand was looked up.
References(operand) ==
  pending_forward_references
    \cup (IF operand # NoValue /\ operand.scope = Forward THEN {operand.n} ELSE {})

FailModule ==
  /\ reading' = "failed"
  /\ UNCHANGED <<readerVars, values, pending_forward_references, blocks_left, instructions, constants,
                 global_initializations, initializers, attached, module, writerVars>>

-----------------------------------------------------------------------------
(* Records at module scope.                                                *)

\* A record of a value at module scope, before the first body.
GlobalRecord ==
  /\ reading = "module" /\ ~ seen_first_function_body /\ Len(written) < MaxGlobals
  /\ values' = Append(values, Value(NoValue, Len(values)))
  /\ written' = Append(written, Value(NoValue, Len(written)))

\* parse_function_record.
ParseFunctionRecord ==
  /\ GlobalRecord
  /\ \E is_proto \in BOOLEAN :
       /\ functions_with_bodies' = IF is_proto THEN functions_with_bodies
                                   ELSE Append(functions_with_bodies, Len(values))
       /\ declared' = IF is_proto THEN declared ELSE Append(declared, Len(written))
  /\ UNCHANGED <<reading, use_relative_id, global_values, seen_first_function_body, function, records,
                 pending_forward_references, blocks_left, instructions, constants,
                 global_initializations, initializers, attached, module>>

\* parse_global_variable_record.
ParseGlobalVariable ==
  /\ GlobalRecord
  /\ \E id \in 0 .. MaxGlobals - 1 :
       global_initializations' = Append(global_initializations, id)
  /\ UNCHANGED <<reading, readerVars, declared, records, pending_forward_references, blocks_left, instructions,
                 constants, initializers, attached, module>>

\* A record of parse_constants_block: its operands are numbers.
ParseGlobalConstant ==
  /\ GlobalRecord
  /\ \E id \in 0 .. MaxGlobals - 1 :
     \E operand \in {Operand("absolute", TRUE, Encode("absolute", id))} :
       /\ constants' = Append(constants, [scope |-> NoValue, want |-> id, got |-> operand])
       /\ pending_forward_references' = References(operand)
  /\ UNCHANGED <<reading, readerVars, declared, records, blocks_left, instructions, global_initializations,
                 initializers, attached, module>>

-----------------------------------------------------------------------------
(* Function bodies.                                                        *)

\* std::reverse: bodies are then taken from the end of the list.
FirstLast(fs) == Reverse(fs)

\* parse_function_body up to its records.
BeginBody ==
  /\ reading = "module" /\ Len(module) < Len(declared)
  /\ \E fs \in {IF seen_first_function_body THEN functions_with_bodies
                ELSE FirstLast(functions_with_bodies)}, args \in 0 .. MaxArgs :
       IF fs = << >> THEN FailModule
       ELSE /\ reading' = "body"
            /\ global_values' = values
            /\ seen_first_function_body' = TRUE
            /\ function' = Last(fs)
            /\ functions_with_bodies' = Front(fs)
            /\ values' = values \o [i \in 1 .. args |-> Value(Last(fs), Len(values) + i)]
            /\ written' = written \o [i \in 1 .. args |-> Value(Writing, Len(written) + i)]
            /\ records' = [records EXCEPT !.here = 0]
            /\ UNCHANGED <<use_relative_id, declared, pending_forward_references, blocks_left,
                           instructions, constants, global_initializations, initializers, attached, module>>

\* DECLAREBLOCKS.
DeclareBlocks ==
  /\ reading = "body" /\ blocks_left = NoValue
  /\ blocks_left' \in 1 .. MaxBlocks
  /\ UNCHANGED <<reading, readerVars, values, pending_forward_references, instructions, constants,
                 global_initializations, initializers, attached, module, writerVars>>

\* A record of a block of constants in a body.
ParseConstant ==
  /\ reading = "body" /\ records.all < MaxRecords
  /\ instructions = << >>
  /\ \E id \in 0 .. Len(written) + 1 :
     \E operand \in {Operand("absolute", TRUE, Encode("absolute", id))} :
       /\ constants' = Append(constants, [scope |-> function, want |-> id, got |-> operand])
       /\ pending_forward_references' = References(operand)
  /\ values' = Append(values, Value(function, Len(values) + 1))
  /\ written' = Append(written, Value(Writing, Len(written) + 1))
  /\ records' = [records EXCEPT !.all = @ + 1]
  /\ UNCHANGED <<reading, readerVars, declared, blocks_left, instructions, global_initializations,
                 initializers, attached, module>>

\* The records of a body by how they look operands up and what they add.  "value"
\* stands for operators, calls and whatever else has a result, "void" for stores
\* and calls without one.
ValueRecords == {"value", "phi"}
Terminators == {"br", "switch", "case", "ret"}
MemoryRecords == {"load", "alloca", "void"}
Kinds == ValueRecords \cup Terminators \cup MemoryRecords

\* Incoming values of a phi are signed, cases and sizes are not relative.
Reference(kind) == CASE kind = "phi" -> "phi"
                     [] kind \in {"case", "alloca"} -> "absolute"
                     [] OTHER -> "relative"

\* The operand of a return is looked up without a type, others carry one.
HasType(kind) == kind \notin {"ret", "switch", "alloca"}

InBlock == blocks_left \notin {NoValue, 0}

\* add_value.
IsNumbered(kind) == kind \notin Terminators \cup {"void"}

\* parse_record for an instruction, with add_instruction and add_value.  The
\* operand of a return may be missing, and a load that is in no block is left
\* out without an error.
ParseInstruction ==
  /\ reading = "body" /\ records.all < MaxRecords
  /\ \E kind \in Kinds, id \in 0 .. Len(written) + 1 :
     \E operand \in {Operand(Reference(kind), HasType(kind), Encode(Reference(kind), id))} :
       IF (operand = NoValue /\ kind # "ret") \/ (~ InBlock /\ kind # "load") THEN FailModule
       ELSE /\ instructions' = Append(instructions, [kind |-> kind, scope |-> function, n |-> records.here + 1,
                                                     in |-> InBlock, want |-> id, got |-> operand])
            /\ pending_forward_references' = References(operand)
            /\ blocks_left' = IF kind \in Terminators THEN blocks_left - 1 ELSE blocks_left
            /\ values' = IF IsNumbered(kind) /\ InBlock
                           THEN Append(values, Value(function, Len(values) + 1)) ELSE values
            /\ written' = IF kind \in Terminators \cup {"void"} THEN written
                          ELSE Append(written, Value(Writing, Len(written) + 1))
            /\ records' = [all |-> records.all + 1, here |-> records.here + 1]
            /\ UNCHANGED <<reading, readerVars, declared, constants, global_initializations, initializers,
                           attached, module>>

\* parse_metadata_attachment_record, for the last instruction.
ParseAttachment ==
  /\ reading = "body" /\ records.here > 0 /\ attached = << >>
  /\ attached' = <<[at |-> records.here, inst |-> instructions[records.here]]>>
  /\ UNCHANGED <<reading, readerVars, values, pending_forward_references, blocks_left, instructions,
                 constants, global_initializations, initializers, module, writerVars>>

\* resolve_proxy_values.
Resolve(operand) ==
  IF operand # NoValue /\ operand.scope = Forward THEN values[operand.n + 1] ELSE operand

ResolveAll(list) == [i \in DOMAIN list |-> [list[i] EXCEPT !.got = Resolve(@)]]

\* instructions.clear().
ClearedInstructions == << >>

\* The table that the next body starts from.
RestoredValues == global_values

\* What the writer numbered at module scope.
ModuleNumbers == {i \in DOMAIN written : written[i].scope = NoValue}

\* The end of parse_function_body: resolve_forward_references,
\* resolve_global_initializations, and the function is done.
EndBody ==
  /\ reading = "body"
  /\ IF \/ \E id \in pending_forward_references : id >= Len(values)
        \/ \E i \in DOMAIN global_initializations : global_initializations[i] >= Len(values)
       THEN FailModule
       ELSE /\ reading' = "module"
            /\ module' = Append(module, [function |-> function, table |-> written,
                                         body |-> ResolveAll(instructions)])
            /\ constants' = ResolveAll(constants)
            /\ initializers' = initializers \o
                 [i \in DOMAIN global_initializations |->
                    [want |-> global_initializations[i], got |-> values[global_initializations[i] + 1]]]
            /\ values' = RestoredValues
            /\ written' = [i \in ModuleNumbers |-> written[i]]
            /\ pending_forward_references' = {}
            /\ global_initializations' = << >>
            /\ instructions' = ClearedInstructions
            /\ blocks_left' = NoValue
            /\ attached' = << >>
            /\ UNCHANGED <<readerVars, declared, records>>

-----------------------------------------------------------------------------

BMInit ==
  /\ reading = "module"
  /\ use_relative_id \in BOOLEAN
  /\ values = << >> /\ global_values = << >>
  /\ pending_forward_references = {}
  /\ functions_with_bodies = << >> /\ seen_first_function_body = FALSE /\ function = NoValue
  /\ blocks_left = NoValue
  /\ instructions = << >> /\ constants = << >> /\ attached = << >>
  /\ global_initializations = << >> /\ initializers = << >>
  /\ module = << >>
  /\ written = << >> /\ declared = << >>
  /\ records = [all |-> 0, here |-> 0]

BMNext ==
  \/ ParseFunctionRecord \/ ParseGlobalVariable \/ ParseGlobalConstant
  \/ BeginBody \/ DeclareBlocks \/ ParseConstant \/ ParseInstruction \/ ParseAttachment \/ EndBody

BMSpec == BMInit /\ [][BMNext]_bmVars

-----------------------------------------------------------------------------

\* The reader left a load out, which was written outside of the blocks.
LeftOut(body) == \E i \in DOMAIN body : ~ body[i].in

\* Reader and writer number the values alike, in every body and after it.
TablesAgree == reading # "failed" => values = written \/ LeftOut(instructions)

\* Every operand of a finished function is the value that the writer named, of
\* the function or of the module, wherever its record came.  A return whose
\* value comes later in the file has lost it.
OperandsAsWritten ==
  \A f \in DOMAIN module : \A i \in DOMAIN module[f].body :
    LET inst == module[f].body[i]
    IN  \/ inst.kind = "ret" /\ inst.got = NoValue
        \/ LeftOut(module[f].body)
        \/ inst.want < Len(module[f].table) /\ inst.got = module[f].table[inst.want + 1]

\* Each body goes to the function that was declared for it.
BodiesAsDeclared ==
  /\ \A f \in DOMAIN module : module[f].function = declared[f]
  /\ reading = "body" => function = Writing

\* Constants and initializers of the module are values of the module once there
\* is a body, though values of that body were in the table when they were
\* looked up.
GlobalsAsWritten ==
  module # << >> =>
    /\ \A i \in DOMAIN constants :
         constants[i].scope = NoValue /\ constants[i].want < Len(global_values) =>
           constants[i].got = global_values[constants[i].want + 1]
    /\ \A i \in DOMAIN initializers :
         initializers[i].want < Len(global_values) =>
           initializers[i].got = global_values[initializers[i].want + 1]

\* Metadata is attached to the instruction of this body that it names.
AttachedInBody ==
  \A i \in DOMAIN attached :
    attached[i].inst.scope = Writing /\ attached[i].inst.n = attached[i].at

\* The bitcode reader numbers values as the writer did, in every body and after
\* it; bodies go to their functions and metadata to the instructions it names,
\* and the operands of instructions, constants and initializers are the values
\* that were named, wherever their records came.
ModuleAsWritten ==
  TablesAgree /\ BodiesAsDeclared /\ AttachedInBody /\ OperandsAsWritten /\ GlobalsAsWritten

=============================================================================
