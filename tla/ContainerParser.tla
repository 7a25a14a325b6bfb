-------------------------- MODULE ContainerParser ---------------------------
(***************************************************************************)
(* DXILContainerParser::parse_container: the parts of a DXBC container are *)
(* read from a blob, of which nothing is known but its size.  Each action  *)
(* reads one header, one table of offsets, one part or one record.         *)
(*                                                                         *)
(* Every field is one word, and so is every character of a string.  Of the *)
(* program header and of a signature element the fields remain that decide *)
(* what is read next.                                                      *)
(***************************************************************************)
EXTENDS MemoryStream, Sequences, FiniteSets

CONSTANTS
  Blobs,      \* the contents the blob may have: functions on 0 .. n - 1
  NoData      \* an empty vector, or a null pointer

\* Codes and fields are 32-bit words.
ASSUME CPBlobs ==
  /\ UintRange > 7
  /\ \A b \in Blobs :
       /\ Cardinality(DOMAIN b) \in Nat
       /\ b \in [0 .. Cardinality(DOMAIN b) - 1 -> 0 .. UintRange - 1]

VARIABLES
  data,             \* the blob
  reflection,       \* the STAT part is wanted instead of the DXIL part
  pc,               \* what is read next
  stream,           \* the container
  part,             \* the part that is being read
  parts,            \* the offsets of the parts of the container
  number,           \* the part of the container, from 1
  dxbc_binary,
  dxil_blob,        \* the addresses of the bitcode
  elements,         \* per signature: the addresses of the semantic names
  left,             \* elements or records left to read
  rdat,             \* the parse of a RuntimeData part
  rdat_subobjects,
  touched           \* every address read or mapped so far

inputVars == <<data, reflection>>
partVars == <<stream, parts, number, dxbc_binary>>
resultVars == <<dxil_blob, elements, rdat_subobjects>>
cpVars == <<inputVars, pc, part, left, rdat, touched, partVars, resultVars>>

-----------------------------------------------------------------------------
(* The codes of parts, runtime data parts and subobjects.                  *)

ContainerCC == 1
DxilCC == 2
StatisticsCC == 3
ShexCC == 4          \* SHDR or SHEX
InputCC == 5
OutputCC == 6
RuntimeDataCC == 7

StringBuffer == 1
IndexArrays == 2
RawBytes == 3
SubobjectTable == 4

\* The fields of a subobject of each kind after the kind, in the order in which
\* they are read: offsets of strings, plain words, an offset into the index
\* arrays, a range of the raw bytes.
Layout(kind) ==
  CASE kind = 1 -> <<"string", "word">>                                     \* StateObjectConfig
    [] kind = 2 -> <<"string", "word", "word">>                             \* RaytracingShaderConfig
    [] kind = 3 -> <<"string", "word">>                                     \* RaytracingPipelineConfig
    [] kind = 4 -> <<"string", "word", "word">>                             \* RaytracingPipelineConfig1
    [] kind = 5 -> <<"string", "word", "string", "string", "string">>       \* HitGroup
    [] kind = 6 -> <<"string", "string", "index">>                          \* SubobjectToExportsAssociation
    [] kind = 7 -> <<"string", "offset", "size">>                           \* GlobalRootSignature, Local...
    [] OTHER -> << >>

RdatVersion == 1

\* sizeof(ProgramHeader) - offsetof(dxil_magic), and sizeof(ProgramHeader).
DxilMagicPad == 3

-----------------------------------------------------------------------------
(* Reading.                                                                *)

\* Outside of the blob there is some other value.
Word(address) == IF address \in DOMAIN data THEN data[address] ELSE 0

\* The next n words.
Words(s, n) == [i \in 1 .. n |-> Word(s.blob + s.offset + i - 1)]

\* Where the characters of the string at the cursor end, the null included.
StringEnds(s) == {k \in s.offset .. s.size - 1 : Word(s.blob + k) = 0}

\* map_string_iterate.
HasString(s) == StringEnds(s) # {}

StringSpan(s) ==
  {s.blob + k : k \in {k \in s.offset .. s.size - 1 : \A end \in StringEnds(s) : k <= end}}

Touch(span) == touched' = touched \cup span

Fail ==
  /\ pc' = "failed"
  /\ UNCHANGED <<part, left, rdat, touched, partVars, resultVars>>

-----------------------------------------------------------------------------
(* The container.                                                          *)

ReadContainerHeader ==
  /\ pc = "header"
  /\ \E w \in {Words(stream, 3)} :
       IF CanRead(stream, 3) /\ w[1] = ContainerCC /\ w[2] <= stream.size
         THEN /\ pc' = "offsets"
              /\ left' = w[3]
              /\ stream' = Advance(stream, 3)
              /\ Touch(Span(stream, 3))
              /\ UNCHANGED <<part, rdat, parts, number, dxbc_binary, resultVars>>
         ELSE Fail

ReadPartOffsets ==
  /\ pc = "offsets"
  /\ IF CanRead(stream, left)
       THEN /\ parts' = Words(stream, left)
            /\ Touch(Span(stream, left))
            /\ pc' = "scan"
            /\ UNCHANGED <<part, left, rdat, stream, number, dxbc_binary, resultVars>>
       ELSE Fail

\* The cursor behind the header of the part that is looked at.
AtPart == Seek(stream, parts[number])

HasPartHeader == CanSeek(stream, parts[number]) /\ CanRead(AtPart, 2)

\* The first loop over the parts looks for DXBC shader code only.
ScanPart ==
  /\ pc = "scan"
  /\ IF number > Len(parts)
       THEN /\ pc' = "part"
            /\ number' = 1
            /\ UNCHANGED <<part, left, rdat, touched, stream, parts, dxbc_binary, resultVars>>
     ELSE IF HasPartHeader
       THEN /\ number' = number + 1
            /\ dxbc_binary' = (dxbc_binary \/ Word(parts[number]) = ShexCC)
            /\ Touch(Span(AtPart, 2))
            /\ UNCHANGED <<pc, part, left, rdat, stream, parts, resultVars>>
       ELSE Fail

\* The part that bitcode is taken from.
ExpectedCC == IF reflection THEN StatisticsCC ELSE DxilCC

\* parse_dxil.  Bitcode that is not inside of the part leaves the blob empty.
ParseDxil(s) ==
  LET w  == Words(s, DxilMagicPad)
      bc == SubstreamBitcodeSize(s, SizeAdd(DxilMagicPad, w[2] - DxilMagicPad), w[3])
  IN  IF CanRead(s, DxilMagicPad) /\ w[1] = DxilCC /\ w[2] >= DxilMagicPad
        THEN /\ dxil_blob' = IF bc.size = 0 THEN NoData ELSE Extent(bc)
             /\ Touch(Span(s, DxilMagicPad) \cup Extent(bc))
             /\ number' = number + 1
             /\ UNCHANGED <<pc, part, left, rdat, stream, parts, dxbc_binary, elements, rdat_subobjects>>
        ELSE Fail

\* parse_iosg1 up to the loop.
StartSignature(s) ==
  IF CanRead(s, 1) /\ CanSeek(s, 2)
    THEN /\ pc' = "element"
         /\ left' = Word(s.blob)
         /\ part' = Seek(s, 2)
         /\ elements' = [elements EXCEPT ![Word(parts[number])] = << >>]
         /\ Touch(Span(s, 1))
         /\ UNCHANGED <<rdat, partVars, dxil_blob, rdat_subobjects>>
    ELSE Fail

\* parse_rdat up to the loop.
StartRdat(s) ==
  LET w == Words(s, 2)
  IN  IF CanRead(s, 2) /\ w[1] = RdatVersion /\ CanRead(s, 2 + w[2])
        THEN /\ pc' = "rdat"
             /\ part' = s
             /\ rdat' = [offsets |-> Words(Advance(s, 2), w[2]), next |-> 1,
                         strings |-> NullStream, indices |-> NullStream, raw |-> NullStream,
                         table |-> NullStream, stride |-> 0, record |-> 0]
             /\ Touch(Span(s, 2 + w[2]))
             /\ UNCHANGED <<left, partVars, resultVars>>
        ELSE Fail

SkipPart ==
  /\ number' = number + 1
  /\ UNCHANGED <<pc, part, left, rdat, touched, stream, parts, dxbc_binary, resultVars>>

\* The second loop over the parts.
ReadPart ==
  /\ pc = "part"
  /\ IF number > Len(parts)
       THEN /\ pc' = "done"
            /\ UNCHANGED <<part, left, rdat, touched, partVars, resultVars>>
     ELSE IF ~ HasPartHeader THEN Fail
     ELSE \E w \in {Words(AtPart, 2)} :
          \E s \in {Substream(AtPart, parts[number] + 2, w[2])} :
            CASE w[1] \in {DxilCC, StatisticsCC} ->
                   IF w[1] = ExpectedCC /\ ~ dxbc_binary THEN ParseDxil(s) ELSE SkipPart
              [] w[1] \in {InputCC, OutputCC} -> StartSignature(s)
              [] w[1] = RuntimeDataCC -> StartRdat(s)
              [] OTHER -> SkipPart

\* Mutant: the same part again.
SamePart ==
  /\ pc' = "part"
  /\ number' = number

NextPart ==
  /\ pc' = "part"
  /\ number' = number + 1

\* One iteration of parse_iosg1: the name is elsewhere in the part.
ReadElement ==
  /\ pc = "element"
  /\ IF left = 0
       THEN /\ NextPart
            /\ UNCHANGED <<part, left, rdat, touched, stream, parts, dxbc_binary, resultVars>>
     ELSE \E to \in {Words(part, 1)[1]} :
          IF CanRead(part, 1) /\ CanSeek(part, to) /\ HasString(Seek(part, to))
            THEN /\ elements' = [elements EXCEPT ![Word(parts[number])] = Append(@, part.blob + to)]
                 /\ Touch(Span(part, 1) \cup StringSpan(Seek(part, to)))
                 /\ part' = Advance(part, 1)
                 /\ left' = left - 1
                 /\ UNCHANGED <<pc, rdat, partVars, dxil_blob, rdat_subobjects>>
            ELSE Fail

-----------------------------------------------------------------------------
(* Runtime data.                                                           *)

\* part_size, of which the difference of two offsets is an uint32_t.
PartSize ==
  IF rdat.next < Len(rdat.offsets)
    THEN (rdat.offsets[rdat.next + 1] - rdat.offsets[rdat.next]) % UintRange
    ELSE part.size - rdat.offsets[rdat.next]

\* One iteration over the parts of the runtime data.
ReadRdatPart ==
  /\ pc = "rdat"
  /\ IF rdat.next > Len(rdat.offsets)
       THEN /\ NextPart
            /\ UNCHANGED <<part, left, rdat, touched, stream, parts, dxbc_binary, resultVars>>
     ELSE IF rdat.offsets[rdat.next] + 2 > part.size THEN Fail
     ELSE \E s \in {Substream(part, rdat.offsets[rdat.next], PartSize)} :
          \E w \in {Words(s, 4)} :
          \E payload \in {Substream(s, 2, w[2])} :
            IF ~ CanRead(s, 2) \/ w[2] + 2 > s.size \/ (w[1] = SubobjectTable /\ ~ CanRead(s, 4))
              THEN Fail
              ELSE /\ Touch(Span(s, IF w[1] = SubobjectTable THEN 4 ELSE 2))
                   /\ pc' = IF w[1] = SubobjectTable THEN "record" ELSE pc
                   /\ left' = IF w[1] = SubobjectTable THEN w[3] ELSE left
                   /\ rdat' = [rdat EXCEPT !.next = @ + 1,
                                 !.strings = IF w[1] = StringBuffer THEN payload ELSE @,
                                 !.indices = IF w[1] = IndexArrays THEN payload ELSE @,
                                 !.raw = IF w[1] = RawBytes THEN payload ELSE @,
                                 !.table = IF w[1] = SubobjectTable THEN Advance(s, 4) ELSE @,
                                 !.stride = IF w[1] = SubobjectTable THEN w[4] ELSE @,
                                 !.record = 0]
                   /\ UNCHANGED <<part, partVars, resultVars>>

\* The stream of record number n of the table.
RecordStream(n) ==
  Substream(rdat.table, SizeAdd(rdat.table.offset, (n * rdat.stride) % UintRange), rdat.stride)

Field(layout, w, name) == {w[i] : i \in {i \in DOMAIN layout : layout[i] = name}}

\* The list of an association in the index arrays: a count and as many offsets.
IndexList(at) == SubstreamFrom(rdat.indices, at)

\* One record of the subobject table.
ReadRecord ==
  /\ pc = "record"
  /\ IF left = 0
       THEN /\ pc' = "rdat"
            /\ UNCHANGED <<part, left, rdat, touched, partVars, resultVars>>
     ELSE LET s      == RecordStream(rdat.record)
              kind   == Words(s, 1)[1]
              layout == Layout(kind)
              w      == Words(Advance(s, 1), Len(layout))
              lists  == {IndexList(at) : at \in Field(layout, w, "index")}
              bytes  == IF kind = 7 THEN Substream(rdat.raw, w[2], w[3]) ELSE NullStream
              names  == Field(layout, w, "string")
                          \cup UNION {{Words(Advance(l, 1), Words(l, 1)[1])[i] :
                                         i \in 1 .. Words(l, 1)[1]} : l \in lists}
          IN  IF /\ CanRead(s, 1 + Len(layout))
                 /\ \A l \in lists : CanRead(l, 1) /\ CanRead(l, 1 + Words(l, 1)[1])
                 /\ \A n \in names : HasString(SubstreamFrom(rdat.strings, n))
                THEN /\ left' = left - 1
                     /\ rdat' = [rdat EXCEPT !.record = @ + 1]
                     /\ Touch(Span(s, 1 + Len(layout))
                                \cup (UNION {Span(l, 1 + Words(l, 1)[1]) : l \in lists})
                                \cup Extent(bytes)
                                \cup UNION {StringSpan(SubstreamFrom(rdat.strings, n)) : n \in names})
                     /\ rdat_subobjects' =
                          IF layout = << >> THEN rdat_subobjects
                          ELSE Append(rdat_subobjects,
                                 [strings |-> {rdat.strings.blob + n : n \in names},
                                  payload |-> IF bytes.size = 0 THEN NoData ELSE Extent(bytes)])
                     /\ UNCHANGED <<pc, part, partVars, dxil_blob, elements>>
                ELSE Fail

-----------------------------------------------------------------------------

CPInit ==
  /\ data \in Blobs
  /\ reflection \in BOOLEAN
  /\ pc = "header"
  /\ stream = Stream(0, Cardinality(DOMAIN data))
  /\ part = NullStream
  /\ parts = << >>
  /\ number = 1
  /\ dxbc_binary = FALSE
  /\ dxil_blob = NoData
  /\ elements = [cc \in {InputCC, OutputCC} |-> << >>]
  /\ left = 0
  /\ rdat = [offsets |-> << >>, next |-> 1, strings |-> NullStream, indices |-> NullStream,
             raw |-> NullStream, table |-> NullStream, stride |-> 0, record |-> 0]
  /\ rdat_subobjects = << >>
  /\ touched = {}

CPNext ==
  /\ \/ ReadContainerHeader \/ ReadPartOffsets \/ ScanPart \/ ReadPart
     \/ ReadElement \/ ReadRdatPart \/ ReadRecord
  /\ UNCHANGED inputVars

CPSpec == CPInit /\ [][CPNext]_cpVars /\ WF_cpVars(CPNext)

-----------------------------------------------------------------------------

\* What the parser reads, maps or hands out is inside of the blob.
ReadsInsideBlob == touched \subseteq DOMAIN data

\* From the address on there is a string in the blob, read to its end.
NameEnds(a) == \E b \in DOMAIN data : b >= a /\ data[b] = 0 /\ a .. b \subseteq touched

\* Every name handed out is a string whose end was looked for and found: the
\* names stay in the blob and are not copied.
NamesEnd ==
  /\ \A cc \in DOMAIN elements : \A i \in DOMAIN elements[cc] : NameEnds(elements[cc][i])
  /\ \A i \in DOMAIN rdat_subobjects : \A a \in rdat_subobjects[i].strings : NameEnds(a)

\* Whether a container is DXBC does not depend on the order of its parts: with
\* SHDR or SHEX anywhere, no bitcode is taken.  And bitcode is taken from a part
\* of the kind that was asked for.
DxbcTakesNoBitcode ==
  pc = "done" /\ dxil_blob # NoData =>
    /\ \A p \in DOMAIN parts : Word(parts[p]) # ShexCC
    /\ \E p \in DOMAIN parts :
         /\ Word(parts[p]) = ExpectedCC
         /\ dxil_blob \subseteq parts[p] + 2 .. parts[p] + 1 + Word(parts[p] + 1)

\* The parts of accepted runtime data follow one another: the size of a part is
\* a difference of two offsets, which wraps when they do not rise.
RdatPartsDisjoint ==
  pc \in {"rdat", "record"} =>
    \A i \in 1 .. rdat.next - 1 : i + 1 \in DOMAIN rdat.offsets =>
      rdat.offsets[i] < rdat.offsets[i + 1]

\* What DXILContainerParser reads, maps or hands out is inside of the blob, names
\* end, DXBC is recognised wherever it is, and the parts of runtime data follow
\* one another.
ContainerReadsSound == ReadsInsideBlob /\ NamesEnd /\ DxbcTakesNoBitcode /\ RdatPartsDisjoint

\* The parser ends, whatever the counts and offsets of the blob.
ParseEnds == <>(pc \in {"done", "failed"})

=============================================================================
