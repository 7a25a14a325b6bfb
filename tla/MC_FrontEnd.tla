---------------------------- MODULE MC_FrontEnd -----------------------------
(***************************************************************************)
(* The front end, side by side: a behaviour parses a container, reads a    *)
(* module of bitcode, or allocates and frees the memory of both.           *)
(***************************************************************************)
EXTENDS ThreadAllocator, ContainerParser, BitcodeModule

VARIABLE running

-----------------------------------------------------------------------------
(* Containers of two parts, and of one part of runtime data, with every    *)
(* count, offset and size right and wrong.                                 *)

\* The words of a sequence at the addresses from 0 on.
AsBlob(words) == [a \in 0 .. Len(words) - 1 |-> words[a + 1]]

Dxil(cc) == {<<cc, size, DxilCC, from, len, 9>> : size \in {3, 4}, from \in {2, 3, 4}, len \in {1, 2}}
              \cup {<<cc, 4, 9, 3, 1, 9>>, <<cc, 4, DxilCC, 3, 15, 9>>}

Signature(cc) == {<<cc, size, count, 0, name, 9, 0>> : size \in {4, 5}, count \in {1, 2}, name \in {3, 5}}

Others == {<<ShexCC, 0>>, <<9, 3, 0>>}

TwoParts ==
  LET Pair(one, two, second, claimed) ==
        <<ContainerCC, claimed, 2, 5, second>> \o one \o two
  IN  UNION {{AsBlob(Pair(one, two, 5 + Len(one), 5)),
              AsBlob(Pair(one, two, 5, 5 + Len(one) + Len(two))),
              AsBlob(Pair(one, two, 15, 15)),
              AsBlob(Pair(one, two, 5 + Len(one), 15))} :
               one \in Dxil(DxilCC) \cup Signature(OutputCC) \cup Others,
               two \in Dxil(StatisticsCC) \cup Signature(InputCC) \cup Others}

\* A string buffer with one name, raw bytes or index arrays, and a table with
\* records of a kind; offsets are relative to the part.
RuntimeData ==
  LET Image(first, second, third, len, middle, count, stride, record) ==
        <<ContainerCC, 0, 1, 4, RuntimeDataCC, 15, RdatVersion, 3, first, second, third>>
          \o <<StringBuffer, len, 8, 0>> \o <<middle, 2, 1, 0>>
          \o <<SubobjectTable, 2, count, stride>> \o record
      subobjects == {<<1, 0, 3>>, <<7, 1, 0, 2>>, <<7, 0, 1, 2>>, <<6, 0, 1, 0>>, <<6, 1, 0, 1>>,
                  <<5, 0, 9, 0, 1, 1>>, <<2, 0, 1>>, <<2, 2, 1, 1>>, <<4, 0, 1, 1>>, <<9, 0, 0>>, <<3, 1, 1, 3, 1, 1>>}
  IN  {AsBlob(Image(f[1], f[2], f[3], len, middle, count, stride, record)) :
         f \in {<<5, 9, 13>>, <<5, 13, 9>>, <<13, 5, 9>>, <<9, 5, 13>>, <<5, 9, 15>>, <<5, 5, 13>>},
         len \in {1, 2, 3}, middle \in {IndexArrays, RawBytes}, count \in {1, 2},
         stride \in {0, 3, 4, 6}, record \in subobjects}

MCBlobs == TwoParts \cup RuntimeData

-----------------------------------------------------------------------------

CPIdle == data = << >> /\ reflection = << >> /\ pc = "done" /\ part = << >> /\ left = << >>
            /\ rdat = << >> /\ touched = {} /\ stream = << >> /\ parts = << >> /\ number = << >>
            /\ dxbc_binary = << >> /\ dxil_blob = NoData /\ elements = << >> /\ rdat_subobjects = << >>
BMIdle == reading = "idle" /\ use_relative_id = << >> /\ global_values = << >>
            /\ functions_with_bodies = << >> /\ seen_first_function_body = << >> /\ function = << >>
            /\ values = << >> /\ pending_forward_references = << >> /\ blocks_left = << >>
            /\ instructions = << >> /\ constants = << >> /\ global_initializations = << >>
            /\ initializers = << >> /\ attached = << >> /\ module = << >> /\ written = << >>
            /\ declared = << >> /\ records = << >>

FrontEndInit ==
  /\ TAInit
  /\ \/ running = "memory"    /\ CPIdle /\ BMIdle
     \/ running = "container" /\ CPInit /\ BMIdle
     \/ running = "bitcode"   /\ CPIdle /\ BMInit

MemoryStep    == running = "memory" /\ TANext /\ UNCHANGED <<running, cpVars, bmVars>>
ContainerStep == running = "container" /\ CPNext /\ UNCHANGED <<running, taVars, bmVars>>
BitcodeStep   == running = "bitcode" /\ BMNext /\ UNCHANGED <<running, taVars, cpVars>>

frontEndVars == <<running, taVars, cpVars, bmVars>>

\* The parser is sequential code that waits for nobody.
FrontEndSpec ==
  /\ FrontEndInit /\ [][MemoryStep \/ ContainerStep \/ BitcodeStep]_frontEndVars
  /\ WF_frontEndVars(ContainerStep)

-----------------------------------------------------------------------------
\* The parser ends, whatever the counts and offsets of the blob.
ParserEnds == <>(running = "container" => pc \in {"done", "failed"})

=============================================================================
