--------------------------- MODULE FrontEnd_proofs ---------------------------
(***************************************************************************)
(* Proofs about the two components that MC_FrontEnd checks together.       *)
(*                                                                         *)
(* ContainerParser: in a build whose size_t is wider than the fields of a  *)
(* container, the parser stays inside of the blob, whatever the blob       *)
(* contains.  A stream is a part of the blob (Inside), and so is every     *)
(* stream that is made from it and whatever it lets through; no sum of an  *)
(* offset and a field wraps (WideOffsets).  ScanInv says what the first    *)
(* loop over the parts has found out about DXBC code.                      *)
(*                                                                         *)
(* BitcodeModule: for any number of globals, bodies, constants and         *)
(* instructions, the reader's module is the one that was written.  Reader  *)
(* and writer agree on the next number as long as their tables are equal   *)
(* (TableInv), so that an operand decodes to the number that was encoded.  *)
(* What was found for it is the value, or a proxy whose number is pending  *)
(* (OperandInv, ConstantInv), so that the end of the body resolves it or   *)
(* fails.  The values of the module stay in front of the table, which is   *)
(* why a table that is cut back to them is right for the next body.        *)
(***************************************************************************)
EXTENDS ContainerParser, BitcodeModule, FiniteSetTheorems, WellFoundedInduction, TLAPS

-----------------------------------------------------------------------------
(* ContainerParser.                                                        *)

\* The hypothesis: size_t holds the size of the blob and a few 32-bit fields.
WideOffsets == \A b \in Blobs : Cardinality(DOMAIN b) + 4 * UintRange <= SizeRange

BlobSize == Cardinality(DOMAIN data)
Uint == 0 .. UintRange - 1

StreamType == [blob : Nat, size : Nat, offset : Nat]

\* A stream is a part of the blob, and its cursor is not behind its end.
Inside(s) == s \in StreamType /\ s.offset <= s.size /\ s.blob + s.size <= BlobSize

RdatType ==
  [offsets : Seq(Uint), next : Nat \ {0}, strings : StreamType, indices : StreamType,
   raw : StreamType, table : StreamType, stride : Uint, record : Nat]

CPTypeOK ==
  /\ data \in Blobs /\ reflection \in BOOLEAN
  /\ pc \in {"header", "offsets", "scan", "part", "element", "rdat", "record", "done", "failed"}
  /\ parts \in Seq(Uint) /\ number \in Nat \ {0} /\ left \in Uint
  /\ dxbc_binary \in BOOLEAN
  /\ rdat \in RdatType
  /\ elements \in [{InputCC, OutputCC} -> Seq(Nat)]
  /\ rdat_subobjects \in Seq([strings : SUBSET Nat, payload : {NoData} \cup SUBSET Nat])
  /\ touched \subseteq DOMAIN data

StreamsInv ==
  /\ Inside(stream) /\ stream.blob = 0
  /\ Inside(part) /\ part.size \in Uint
  /\ Inside(rdat.strings) /\ Inside(rdat.indices) /\ Inside(rdat.raw) /\ Inside(rdat.table)

\* The part that is read.
PartInv ==
  /\ pc \in {"element", "rdat", "record"} => number \in DOMAIN parts
  /\ pc = "element" => Word(parts[number]) \in {InputCC, OutputCC}

BitcodeOfPart ==
  \E p \in DOMAIN parts :
    /\ Word(parts[p]) = ExpectedCC
    /\ dxil_blob \subseteq parts[p] + 2 .. parts[p] + 1 + Word(parts[p] + 1)

ScanInv ==
  /\ pc \in {"header", "offsets", "scan"} => dxil_blob = NoData
  /\ pc \in {"header", "offsets"} => ~ dxbc_binary /\ number = 1
  /\ pc = "scan" => (dxbc_binary <=> \E p \in DOMAIN parts : p < number /\ Word(parts[p]) = ShexCC)
  /\ pc \in {"part", "element", "rdat", "record", "done"} =>
       /\ dxbc_binary <=> \E p \in DOMAIN parts : Word(parts[p]) = ShexCC
       /\ dxil_blob # NoData => ~ dxbc_binary /\ BitcodeOfPart

CPInv ==
  /\ CPTypeOK /\ StreamsInv /\ PartInv /\ ScanInv /\ NamesEnd
  /\ RdatPartsDisjoint

-----------------------------------------------------------------------------
(* The blob.                                                               *)

LEMMA BlobFacts ==
  ASSUME data \in Blobs
  PROVE  /\ BlobSize \in Nat /\ DOMAIN data = 0 .. BlobSize - 1
         /\ UintRange \in Nat \ {0} /\ UintRange > 7 /\ SizeRange \in Nat \ {0}
         /\ \A a : Word(a) \in Uint
         /\ WideOffsets => BlobSize + 4 * UintRange <= SizeRange
<1>1. UintRange \in Nat \ {0} /\ UintRange > 7 /\ SizeRange \in Nat \ {0}
  BY RangeAssumption, CPBlobs DEF RangeAssumption, CPBlobs
<1>2. BlobSize \in Nat /\ data \in [0 .. BlobSize - 1 -> Uint]
  BY CPBlobs DEF CPBlobs, BlobSize, Uint
<1>3. \A a : Word(a) \in Uint
  BY <1>1, <1>2 DEF Word, Uint
<1>4. WideOffsets => BlobSize + 4 * UintRange <= SizeRange
  BY DEF WideOffsets, BlobSize
<1> QED BY <1>1, <1>2, <1>3, <1>4

\* The next words of a stream are 32-bit words.
LEMMA WordsType ==
  ASSUME data \in Blobs, NEW s, NEW n \in Nat
  PROVE  /\ Words(s, n) \in Seq(Uint) /\ Len(Words(s, n)) = n
         /\ \A i \in 1 .. n : /\ Words(s, n)[i] \in Uint
                              /\ Words(s, n)[i] = Word(s.blob + s.offset + i - 1)
<1>1. \A i \in 1 .. n : Word(s.blob + s.offset + i - 1) \in Uint
  BY BlobFacts
<1> QED BY <1>1 DEF Words

-----------------------------------------------------------------------------
(* MemoryStream.                                                           *)

\* Sums of an offset and two fields do not wrap.
LEMMA SumIsExact ==
  ASSUME data \in Blobs, WideOffsets, NEW a \in Nat, NEW b \in Nat,
         a + b < BlobSize + 4 * UintRange
  PROVE  SizeAdd(a, b) = a + b
<1>1. a + b \in 0 .. SizeRange - 1 /\ SizeRange \in Nat \ {0}
  BY BlobFacts
<1>2. (a + b) % SizeRange = a + b
  BY <1>1
<1> QED BY <1>2 DEF SizeAdd

LEMMA NullInside ==
  ASSUME data \in Blobs
  PROVE  Inside(NullStream) /\ NullStream.size = 0 /\ NullStream.offset = 0
BY BlobFacts DEF NullStream, Stream, Inside, StreamType

LEMMA StreamFields ==
  ASSUME NEW first \in Nat, NEW size \in Nat
  PROVE  /\ Stream(first, size) \in StreamType /\ Stream(first, size).blob = first
         /\ Stream(first, size).size = size /\ Stream(first, size).offset = 0
BY DEF Stream, StreamType

\* Moving the cursor.
LEMMA SeekInside ==
  ASSUME NEW s, Inside(s), NEW to \in Nat, to <= s.size
  PROVE  /\ Inside(Seek(s, to)) /\ Seek(s, to).offset = to
         /\ Seek(s, to).blob = s.blob /\ Seek(s, to).size = s.size
BY DEF Inside, StreamType, Seek

\* What is before the end of a part is before the end of the whole.
LEMMA Within ==
  ASSUME NEW base \in Nat, NEW from \in Nat, NEW n \in Nat, NEW size \in Nat, NEW end \in Nat,
         from + n <= size, base + size <= end
  PROVE  \A i \in 0 .. n - 1 : base + from + i \in 0 .. end - 1
OBVIOUS

\* A read or a map that is let through stays inside.
LEMMA ReadInside ==
  ASSUME data \in Blobs, WideOffsets, NEW s, Inside(s), NEW n \in Nat, n < 2 * UintRange,
         CanRead(s, n)
  PROVE  /\ s.offset + n <= s.size
         /\ Span(s, n) \subseteq DOMAIN data
         /\ Inside(Advance(s, n)) /\ Advance(s, n).offset = s.offset + n
         /\ Advance(s, n).blob = s.blob /\ Advance(s, n).size = s.size
<1>1. s \in StreamType /\ s.offset <= s.size /\ s.blob + s.size <= BlobSize
  BY DEF Inside
<1>2. /\ s.offset \in Nat /\ s.size \in Nat /\ s.blob \in Nat
      /\ s.offset + n < BlobSize + 4 * UintRange
      /\ BlobSize \in Nat /\ DOMAIN data = 0 .. BlobSize - 1
  <2>1. s.offset \in Nat /\ s.size \in Nat /\ s.blob \in Nat
    BY <1>1 DEF StreamType
  <2>2. /\ BlobSize \in Nat /\ DOMAIN data = 0 .. BlobSize - 1
        /\ UintRange \in Nat /\ UintRange > 7
    BY BlobFacts
  <2> QED BY <1>1, <2>1, <2>2
<1>3. SizeAdd(s.offset, n) = s.offset + n
  BY <1>2, SumIsExact
<1>4. s.offset + n <= s.size
  BY <1>3 DEF CanRead
<1>5. Span(s, n) \subseteq DOMAIN data
  <2>1. \A i \in 0 .. n - 1 : s.blob + s.offset + i \in 0 .. BlobSize - 1
    BY <1>1, <1>2, <1>4, Within, Zenon
  <2> QED BY <1>2, <2>1, Zenon DEF Span
<1>6. Advance(s, n) = [s EXCEPT !.offset = s.offset + n]
  BY <1>3 DEF Advance
<1>7. /\ Advance(s, n) \in StreamType /\ Advance(s, n).offset = s.offset + n
      /\ Advance(s, n).blob = s.blob /\ Advance(s, n).size = s.size
  BY <1>1, <1>2, <1>6 DEF StreamType
<1> QED BY <1>1, <1>4, <1>5, <1>7 DEF Inside

\* A part of a stream is inside; if anything can be read from it, it is the part
\* that was asked for.
LEMMA SubstreamInside ==
  ASSUME data \in Blobs, WideOffsets, NEW s, Inside(s), NEW from \in Nat, NEW size \in Nat,
         from + size < BlobSize + 4 * UintRange
  PROVE  /\ Inside(Substream(s, from, size)) /\ Substream(s, from, size).offset = 0
         /\ \/ Substream(s, from, size).size = 0
            \/ /\ from + size <= s.size
               /\ Substream(s, from, size).blob = s.blob + from
               /\ Substream(s, from, size).size = size
<1>1. s \in StreamType /\ s.offset <= s.size /\ s.blob + s.size <= BlobSize /\ BlobSize \in Nat
  BY BlobFacts DEF Inside
<1>2. s.size \in Nat /\ s.blob \in Nat
  BY <1>1 DEF StreamType
<1>3. SizeAdd(from, size) = from + size
  BY SumIsExact
<1>4. CASE from >= s.size \/ from + size > s.size
  BY <1>3, <1>4, NullInside DEF Substream
<1>5. CASE from < s.size /\ from + size <= s.size
  <2>1. Substream(s, from, size) = Stream(s.blob + from, size)
    BY <1>2, <1>3, <1>5 DEF Substream
  <2>2. /\ Stream(s.blob + from, size) \in StreamType
        /\ Stream(s.blob + from, size).blob = s.blob + from
        /\ Stream(s.blob + from, size).size = size /\ Stream(s.blob + from, size).offset = 0
    BY <1>2, StreamFields
  <2> QED BY <1>1, <1>2, <1>5, <2>1, <2>2 DEF Inside
<1> QED BY <1>2, <1>4, <1>5

LEMMA SubstreamFromInside ==
  ASSUME data \in Blobs, NEW s, Inside(s), NEW from \in Nat
  PROVE  /\ Inside(SubstreamFrom(s, from)) /\ SubstreamFrom(s, from).offset = 0
         /\ \/ SubstreamFrom(s, from).size = 0
            \/ SubstreamFrom(s, from).blob = s.blob + from
<1>1. s \in StreamType /\ s.offset <= s.size /\ s.blob + s.size <= BlobSize /\ BlobSize \in Nat
  BY BlobFacts DEF Inside
<1>2. s.size \in Nat /\ s.blob \in Nat
  BY <1>1 DEF StreamType
<1>3. CASE from >= s.size
  BY <1>3, NullInside DEF SubstreamFrom
<1>4. CASE from < s.size
  <2>1. SubstreamFrom(s, from) = Stream(s.blob + from, s.size - from) /\ s.size - from \in Nat
    BY <1>2, <1>4 DEF SubstreamFrom
  <2>2. /\ Stream(s.blob + from, s.size - from) \in StreamType
        /\ Stream(s.blob + from, s.size - from).blob = s.blob + from
        /\ Stream(s.blob + from, s.size - from).size = s.size - from
        /\ Stream(s.blob + from, s.size - from).offset = 0
    BY <1>2, <2>1, StreamFields
  <2> QED BY <1>1, <1>2, <1>4, <2>1, <2>2 DEF Inside
<1> QED BY <1>2, <1>3, <1>4

\* The bitcode of a program is inside of its part.
LEMMA BitcodeInside ==
  ASSUME data \in Blobs, WideOffsets, NEW s, Inside(s), NEW from \in Nat, NEW size \in Nat,
         from + size < BlobSize + 4 * UintRange
  PROVE  /\ Inside(SubstreamBitcodeSize(s, from, size))
         /\ \/ SubstreamBitcodeSize(s, from, size).size = 0
            \/ Extent(SubstreamBitcodeSize(s, from, size)) \subseteq Extent(s)
<1>1. s \in StreamType /\ s.offset <= s.size /\ s.blob + s.size <= BlobSize /\ BlobSize \in Nat
  BY BlobFacts DEF Inside
<1>2. s.size \in Nat /\ s.blob \in Nat
  BY <1>1 DEF StreamType
<1>3. SizeAdd(from, size) = from + size
  BY SumIsExact
<1>4. CASE from + size > s.size
  BY <1>3, <1>4, NullInside DEF SubstreamBitcodeSize
<1>5. CASE from + size <= s.size
  <2>1. SubstreamBitcodeSize(s, from, size) = Stream(s.blob + from, size)
    BY <1>2, <1>3, <1>5 DEF SubstreamBitcodeSize
  <2>2. /\ Stream(s.blob + from, size) \in StreamType
        /\ Stream(s.blob + from, size).blob = s.blob + from
        /\ Stream(s.blob + from, size).size = size /\ Stream(s.blob + from, size).offset = 0
    BY <1>2, StreamFields
  <2>3. Extent(Stream(s.blob + from, size)) \subseteq Extent(s)
    BY <1>2, <1>5, <2>2 DEF Extent
  <2> QED BY <1>1, <1>2, <1>5, <2>1, <2>2, <2>3 DEF Inside
<1> QED BY <1>2, <1>4, <1>5

LEMMA ExtentInside ==
  ASSUME data \in Blobs, NEW s, Inside(s)
  PROVE  Extent(s) \subseteq DOMAIN data /\ Extent(s) \subseteq Nat
<1>1. s.blob \in Nat /\ s.size \in Nat /\ s.blob + s.size <= BlobSize /\ BlobSize \in Nat
      /\ DOMAIN data = 0 .. BlobSize - 1
  BY BlobFacts DEF Inside, StreamType
<1> QED BY <1>1 DEF Extent

LEMMA Least ==
  ASSUME NEW T, T \subseteq Nat, T # {}
  PROVE  \E x \in T : \A y \in T : x <= y
<1>1. PICK x \in T : \A y \in T : ~ (<<y, x>> \in OpToRel(<, Nat))
  BY NatLessThanWellFounded, WFMin, Zenon
<1>2. ASSUME NEW y \in T, y < x PROVE FALSE
  <2>1. <<y, x>> \in Nat \X Nat /\ <<y, x>>[1] < <<y, x>>[2]
    BY <1>2
  <2>2. <<y, x>> \in OpToRel(<, Nat)
    BY <2>1, Zenon DEF OpToRel
  <2> QED BY <1>1, <2>2, Zenon
<1> QED BY <1>2

\* The distance of an address between a cursor and an end from the beginning.
LEMMA Distance ==
  ASSUME NEW base \in Nat, NEW from \in Nat, NEW to \in Nat, NEW size \in Nat, NEW a \in Nat,
         to <= size - 1, base + from <= a, a <= base + to
  PROVE  /\ a - base \in from .. size - 1 /\ a = base + (a - base)
         /\ a - base <= to /\ a - base \in Int
OBVIOUS

\* A string whose end was found is inside, and ends.
LEMMA StringInside ==
  ASSUME data \in Blobs, NEW s, Inside(s), HasString(s)
  PROVE  /\ StringSpan(s) \subseteq DOMAIN data
         /\ s.blob + s.offset \in Nat
         /\ \E b \in DOMAIN data :
              /\ b >= s.blob + s.offset /\ data[b] = 0
              /\ s.blob + s.offset .. b \subseteq StringSpan(s)
<1>1. /\ s.blob \in Nat /\ s.size \in Nat /\ s.offset \in Nat /\ s.offset <= s.size
      /\ s.blob + s.size <= BlobSize /\ BlobSize \in Nat /\ DOMAIN data = 0 .. BlobSize - 1
  BY BlobFacts DEF Inside, StreamType
<1>2. StringSpan(s) \subseteq DOMAIN data
  BY <1>1 DEF StringSpan
<1>3. StringEnds(s) \subseteq Nat /\ StringEnds(s) # {}
  BY <1>1 DEF StringEnds, HasString
<1>4. PICK k \in StringEnds(s) : \A e \in StringEnds(s) : k <= e
  BY <1>3, Least
<1>5. k \in s.offset .. s.size - 1 /\ Word(s.blob + k) = 0
  BY DEF StringEnds
<1>a. k \in Nat /\ s.offset <= k /\ k <= s.size - 1
  BY <1>1, <1>5
<1>6. s.blob + k \in DOMAIN data /\ data[s.blob + k] = 0
  <2>1. s.blob + k \in 0 .. BlobSize - 1
    BY <1>1, <1>a
  <2> QED BY <1>1, <1>5, <2>1, Zenon DEF Word
<1>7. ASSUME NEW a \in s.blob + s.offset .. s.blob + k PROVE a \in StringSpan(s)
  <2>1. a \in Nat /\ s.blob + s.offset <= a /\ a <= s.blob + k
    BY <1>1, <1>a
  <2>2. /\ a - s.blob \in s.offset .. s.size - 1 /\ a = s.blob + (a - s.blob)
        /\ a - s.blob <= k /\ a - s.blob \in Int
    BY <1>1, <1>a, <2>1, Distance, Zenon
  <2>3. ASSUME NEW e \in StringEnds(s) PROVE a - s.blob <= e
    <3>1. e \in Nat /\ k <= e
      BY <1>3, <1>4
    <3> QED BY <1>a, <2>2, <3>1
  <2> QED BY <2>2, <2>3 DEF StringSpan
<1>8. s.blob + s.offset \in Nat /\ s.blob + k >= s.blob + s.offset
  BY <1>1, <1>a
<1> QED BY <1>2, <1>6, <1>7, <1>8

-----------------------------------------------------------------------------
(* The invariant holds at first, and is kept by every step.                *)

LEMMA InitInv == CPInit => CPInv
<1> SUFFICES ASSUME CPInit PROVE CPInv
  OBVIOUS
<1> USE DEF CPInit
<1>1. data \in Blobs
  OBVIOUS
<1>2. /\ BlobSize \in Nat /\ UintRange \in Nat \ {0} /\ 0 \in Uint
      /\ Inside(NullStream) /\ NullStream.size = 0
  BY <1>1, BlobFacts, NullInside DEF Uint
<1>3. Inside(stream) /\ stream.blob = 0
  BY <1>2 DEF Inside, StreamType, Stream, BlobSize
<1>4. rdat \in RdatType
  BY <1>2 DEF RdatType, Inside
<1>5. CPTypeOK
  <2>1. << >> \in Seq(Uint) /\ << >> \in Seq(Nat) /\ reflection \in BOOLEAN
    OBVIOUS
  <2>2. rdat_subobjects \in Seq([strings : SUBSET Nat, payload : {NoData} \cup SUBSET Nat])
    OBVIOUS
  <2>3. elements \in [{InputCC, OutputCC} -> Seq(Nat)]
    BY <2>1
  <2>4. /\ pc \in {"header", "offsets", "scan", "part", "element", "rdat", "record", "done", "failed"}
        /\ number \in Nat \ {0} /\ parts \in Seq(Uint) /\ left \in Uint
        /\ touched \subseteq DOMAIN data
    BY <1>2, <2>1
  <2>5. dxbc_binary \in BOOLEAN
    OBVIOUS
  <2> HIDE DEF CPInit
  <2> QED BY <1>1, <1>4, <2>1, <2>2, <2>3, <2>4, <2>5 DEF CPTypeOK
<1>6. StreamsInv
  BY <1>2, <1>3 DEF StreamsInv
<1>7. PartInv /\ ScanInv /\ NamesEnd /\ RdatPartsDisjoint
  BY DEF PartInv, ScanInv, NamesEnd, RdatPartsDisjoint
<1> QED BY <1>5, <1>6, <1>7 DEF CPInv

\* The names that were handed out stay what they are.
LEMMA NamesKept ==
  ASSUME NamesEnd, data' = data, elements' = elements, rdat_subobjects' = rdat_subobjects,
         touched \subseteq touched'
  PROVE  NamesEnd'
<1>1. \A a : NameEnds(a) => NameEnds(a)'
  BY DEF NameEnds
<1> QED BY <1>1 DEF NamesEnd

\* The streams are kept.
LEMMA StreamsKept ==
  ASSUME StreamsInv, data' = data, stream' = stream, part' = part, rdat' = rdat
  PROVE  StreamsInv'
BY DEF StreamsInv, Inside, BlobSize

\* What is known of the parts is kept while one of them is read.
LEMMA ScanKept ==
  ASSUME ScanInv, UNCHANGED <<inputVars, parts, dxbc_binary, dxil_blob>>,
         pc \in {"part", "element", "rdat", "record"},
         pc' \in {"part", "element", "rdat", "record", "done", "failed"}
  PROVE  ScanInv'
BY DEF ScanInv, BitcodeOfPart, Word, ExpectedCC, inputVars

LEMMA FailStep ==
  ASSUME CPInv, Fail, UNCHANGED inputVars
  PROVE  CPInv'
<1> USE DEF CPInv, Fail, inputVars, partVars, resultVars
<1>1. CPTypeOK'
  BY DEF CPTypeOK
<1>2. StreamsInv' /\ NamesEnd'
  BY StreamsKept, NamesKept
<1>3. PartInv' /\ ScanInv' /\ RdatPartsDisjoint'
  BY DEF PartInv, ScanInv, RdatPartsDisjoint
<1> QED BY <1>1, <1>2, <1>3

LEMMA HeaderStep ==
  ASSUME WideOffsets, CPInv, ReadContainerHeader, UNCHANGED inputVars
  PROVE  CPInv'
<1> USE DEF CPInv, inputVars, partVars, resultVars
<1>1. CASE Fail
  BY <1>1, FailStep
<1>2. CASE ~ Fail
  <2>1. /\ pc = "header" /\ CanRead(stream, 3) /\ pc' = "offsets" /\ left' = Words(stream, 3)[3]
        /\ stream' = Advance(stream, 3) /\ touched' = touched \cup Span(stream, 3)
        /\ UNCHANGED <<part, rdat, parts, number, dxbc_binary, dxil_blob, elements, rdat_subobjects>>
    BY <1>2 DEF ReadContainerHeader, Touch
  <2>2. data \in Blobs /\ Inside(stream) /\ stream.blob = 0
    BY DEF CPTypeOK, StreamsInv
  <2>3. /\ Words(stream, 3)[3] \in Uint
        /\ Span(stream, 3) \subseteq DOMAIN data
        /\ Inside(Advance(stream, 3)) /\ Advance(stream, 3).blob = 0
    BY <2>1, <2>2, BlobFacts, WordsType, ReadInside
  <2>4. CPTypeOK'
    BY <2>1, <2>3 DEF CPTypeOK
  <2>5. StreamsInv'
    BY <2>1, <2>3 DEF StreamsInv, Inside, BlobSize
  <2>6. NamesEnd'
    BY <2>1, NamesKept
  <2>7. PartInv' /\ ScanInv' /\ RdatPartsDisjoint'
    BY <2>1 DEF PartInv, ScanInv, RdatPartsDisjoint
  <2> QED BY <2>4, <2>5, <2>6, <2>7
<1> QED BY <1>1, <1>2

LEMMA OffsetsStep ==
  ASSUME WideOffsets, CPInv, ReadPartOffsets, UNCHANGED inputVars
  PROVE  CPInv'
<1> USE DEF CPInv, inputVars, partVars, resultVars
<1>1. CASE Fail
  BY <1>1, FailStep
<1>2. CASE ~ Fail
  <2>1. /\ pc = "offsets" /\ CanRead(stream, left) /\ pc' = "scan"
        /\ parts' = Words(stream, left) /\ touched' = touched \cup Span(stream, left)
        /\ UNCHANGED <<part, left, rdat, stream, number, dxbc_binary, dxil_blob, elements,
                       rdat_subobjects>>
    BY <1>2 DEF ReadPartOffsets, Touch
  <2>2. data \in Blobs /\ Inside(stream) /\ left \in Uint
    BY DEF CPTypeOK, StreamsInv
  <2>3. left \in Nat /\ left < 2 * UintRange
    BY <2>2, BlobFacts DEF Uint
  <2>4. /\ Words(stream, left) \in Seq(Uint)
        /\ Span(stream, left) \subseteq DOMAIN data
    BY <2>1, <2>2, <2>3, WordsType, ReadInside
  <2>5. CPTypeOK'
    BY <2>1, <2>4 DEF CPTypeOK
  <2>6. StreamsInv' /\ NamesEnd'
    BY <2>1, NamesKept, StreamsKept
  <2>7. PartInv' /\ RdatPartsDisjoint'
    BY <2>1 DEF PartInv, RdatPartsDisjoint
  <2>8. ~ dxbc_binary' /\ number' = 1 /\ dxil_blob' = NoData /\ pc' = "scan"
    BY <2>1 DEF ScanInv
  <2>9. \A p \in DOMAIN parts' : p \in Nat /\ ~ p < number'
    BY <2>1, <2>4, <2>8
  <2>10. ScanInv'
    BY <2>8, <2>9 DEF ScanInv
  <2> QED BY <2>5, <2>6, <2>7, <2>10
<1> QED BY <1>1, <1>2

\* The header of a part is read.
LEMMA PartHeader ==
  ASSUME WideOffsets, CPInv, number \in DOMAIN parts, HasPartHeader
  PROVE  /\ Span(AtPart, 2) \subseteq DOMAIN data
         /\ parts[number] \in Uint /\ parts[number] + 2 <= stream.size
         /\ AtPart.blob = 0 /\ AtPart.offset = parts[number] /\ AtPart.size = stream.size
         /\ Inside(AtPart)
         /\ Words(AtPart, 2)[1] = Word(parts[number]) /\ Words(AtPart, 2)[1] \in Uint
         /\ Words(AtPart, 2)[2] = Word(parts[number] + 1) /\ Words(AtPart, 2)[2] \in Uint
<1>1. /\ data \in Blobs /\ Inside(stream) /\ stream.blob = 0
      /\ parts[number] \in Uint
  BY DEF CPInv, CPTypeOK, StreamsInv
<1>2. parts[number] \in Nat /\ 2 < 2 * UintRange
  BY <1>1, BlobFacts DEF Uint
<1>3. parts[number] <= stream.size /\ CanRead(AtPart, 2)
  BY DEF HasPartHeader, CanSeek
<1>4. /\ Inside(AtPart) /\ AtPart.offset = parts[number] /\ AtPart.blob = 0
      /\ AtPart.size = stream.size
  BY <1>1, <1>2, <1>3, SeekInside DEF AtPart
<1>5. Span(AtPart, 2) \subseteq DOMAIN data /\ parts[number] + 2 <= stream.size
  BY <1>1, <1>2, <1>3, <1>4, ReadInside
<1>6. \A i \in 1 .. 2 : /\ Words(AtPart, 2)[i] \in Uint
                        /\ Words(AtPart, 2)[i] = Word(parts[number] + i - 1)
  <2>1. \A i \in 1 .. 2 : /\ Words(AtPart, 2)[i] \in Uint
                          /\ Words(AtPart, 2)[i] = Word(AtPart.blob + AtPart.offset + i - 1)
    BY <1>1, WordsType
  <2>2. \A i \in 1 .. 2 : AtPart.blob + AtPart.offset + i - 1 = parts[number] + i - 1
    BY <1>2, <1>4
  <2> QED BY <2>1, <2>2
<1>7. parts[number] + 1 - 1 = parts[number] /\ parts[number] + 2 - 1 = parts[number] + 1
  BY <1>2
<1> QED BY <1>1, <1>4, <1>5, <1>6, <1>7

LEMMA ScanStep ==
  ASSUME WideOffsets, CPInv, ScanPart, UNCHANGED inputVars
  PROVE  CPInv'
<1> USE DEF CPInv, inputVars, partVars, resultVars
<1>1. CASE Fail
  BY <1>1, FailStep
<1>2. /\ pc = "scan" /\ number \in Nat \ {0} /\ DOMAIN parts = 1 .. Len(parts)
      /\ Len(parts) \in Nat /\ dxbc_binary \in BOOLEAN /\ data' = data
      /\ dxbc_binary <=> \E p \in DOMAIN parts : p < number /\ Word(parts[p]) = ShexCC
  BY DEF ScanPart, CPTypeOK, ScanInv
<1>3. CASE number > Len(parts)
  <2>1. /\ pc' = "part" /\ number' = 1
        /\ UNCHANGED <<part, left, rdat, touched, stream, parts, dxbc_binary, dxil_blob, elements,
                       rdat_subobjects>>
    BY <1>3 DEF ScanPart
  <2>2. dxbc_binary <=> \E p \in DOMAIN parts : Word(parts[p]) = ShexCC
    BY <1>2, <1>3
  <2>3. dxil_blob = NoData
    BY <1>2 DEF ScanInv
  <2>4. CPTypeOK'
    BY <2>1 DEF CPTypeOK
  <2>5. StreamsInv' /\ NamesEnd'
    BY <2>1, NamesKept, StreamsKept
  <2>6. PartInv' /\ RdatPartsDisjoint'
    BY <2>1 DEF PartInv, RdatPartsDisjoint
  <2>7. ScanInv'
    BY <1>2, <2>1, <2>2, <2>3 DEF ScanInv, Word
  <2> QED BY <2>4, <2>5, <2>6, <2>7
<1>4. CASE number <= Len(parts) /\ ~ Fail
  <2>1. /\ HasPartHeader /\ number' = number + 1
        /\ dxbc_binary' = (dxbc_binary \/ Word(parts[number]) = ShexCC)
        /\ touched' = touched \cup Span(AtPart, 2)
        /\ UNCHANGED <<pc, part, left, rdat, stream, parts, dxil_blob, elements, rdat_subobjects>>
    BY <1>2, <1>4 DEF ScanPart, Touch
  <2>2. Span(AtPart, 2) \subseteq DOMAIN data
    BY <1>2, <1>4, <2>1, PartHeader
  <2>3. dxbc_binary' <=> \E p \in DOMAIN parts : p < number' /\ Word(parts[p]) = ShexCC
    <3>1. (\E p \in DOMAIN parts : p < number' /\ Word(parts[p]) = ShexCC)
            <=> \/ \E p \in DOMAIN parts : p < number /\ Word(parts[p]) = ShexCC
                \/ Word(parts[number]) = ShexCC
      BY <1>2, <1>4, <2>1
    <3> QED BY <1>2, <2>1, <3>1, Zenon
  <2>4. CPTypeOK'
    <3>1. dxbc_binary' \in BOOLEAN
      BY <2>1
    <3> QED BY <1>2, <2>1, <2>2, <3>1 DEF CPTypeOK
  <2>5. StreamsInv' /\ NamesEnd'
    BY <2>1, NamesKept, StreamsKept
  <2>6. PartInv' /\ RdatPartsDisjoint'
    BY <1>2, <2>1 DEF PartInv, RdatPartsDisjoint
  <2>7. ScanInv'
    BY <1>2, <2>1, <2>3 DEF ScanInv, Word
  <2> QED BY <2>4, <2>5, <2>6, <2>7
<1> QED BY <1>1, <1>2, <1>3, <1>4

-----------------------------------------------------------------------------
(* The second loop over the parts.                                         *)

\* The part that is looked at, and what is known when its header was read.
ThisPart == Substream(AtPart, parts[number] + 2, Word(parts[number] + 1))

AtHeader == pc = "part" /\ number \in DOMAIN parts /\ HasPartHeader

LEMMA ThisPartInside ==
  ASSUME WideOffsets, CPInv, AtHeader
  PROVE  /\ Inside(ThisPart) /\ ThisPart.offset = 0 /\ ThisPart.size \in Uint
         /\ \/ ThisPart.size = 0
            \/ /\ ThisPart.blob = parts[number] + 2
               /\ ThisPart.size = Word(parts[number] + 1)
<1> DEFINE from == parts[number] + 2
           size == Word(parts[number] + 1)
<1>1. data \in Blobs
  BY DEF CPInv, CPTypeOK
<1>2. /\ Inside(AtPart) /\ AtPart.blob = 0 /\ parts[number] \in Uint
      /\ parts[number] + 2 <= AtPart.size
  BY PartHeader DEF AtHeader
<1>a. UintRange \in Nat /\ UintRange > 7 /\ BlobSize \in Nat /\ size \in Uint
  BY <1>1, BlobFacts
<1> HIDE DEF size
<1>b. size \in Nat /\ size < UintRange /\ 0 \in Uint /\ from \in Nat /\ from < UintRange + 2
  BY <1>2, <1>a DEF Uint
<1>3. /\ from \in Nat /\ size \in Nat /\ size \in Uint /\ 0 \in Uint
      /\ from + size < BlobSize + 4 * UintRange
  <2> HIDE DEF from
  <2> QED BY <1>a, <1>b
<1> HIDE DEF from
<1>4. /\ Inside(Substream(AtPart, from, size)) /\ Substream(AtPart, from, size).offset = 0
      /\ \/ Substream(AtPart, from, size).size = 0
         \/ /\ Substream(AtPart, from, size).blob = AtPart.blob + from
            /\ Substream(AtPart, from, size).size = size
  BY <1>1, <1>2, <1>3, SubstreamInside
<1>5. AtPart.blob + from = from
  BY <1>2, <1>3
<1> QED BY <1>3, <1>4, <1>5 DEF ThisPart, from, size

LEMMA SkipStep ==
  ASSUME CPInv, SkipPart, pc = "part", UNCHANGED inputVars
  PROVE  CPInv'
<1> USE DEF CPInv, SkipPart, inputVars, resultVars
<1>1. CPTypeOK'
  BY DEF CPTypeOK
<1>2. StreamsInv' /\ NamesEnd' /\ ScanInv'
  BY StreamsKept, NamesKept, ScanKept
<1>3. PartInv' /\ RdatPartsDisjoint'
  BY DEF PartInv, RdatPartsDisjoint
<1> QED BY <1>1, <1>2, <1>3

LEMMA DxilStep ==
  ASSUME WideOffsets, CPInv, AtHeader, Word(parts[number]) = ExpectedCC, ~ dxbc_binary,
         ParseDxil(ThisPart), UNCHANGED inputVars
  PROVE  CPInv'
<1> USE DEF CPInv, inputVars, partVars, resultVars
<1> DEFINE s == ThisPart
           w == Words(s, DxilMagicPad)
           from == SizeAdd(DxilMagicPad, w[2] - DxilMagicPad)
           bc == SubstreamBitcodeSize(s, from, w[3])
<1>1. CASE Fail
  BY <1>1, FailStep
<1>2. CASE ~ Fail
  <2>1. /\ CanRead(s, DxilMagicPad) /\ w[2] >= DxilMagicPad
        /\ dxil_blob' = IF bc.size = 0 THEN NoData ELSE Extent(bc)
        /\ touched' = touched \cup (Span(s, DxilMagicPad) \cup Extent(bc))
        /\ number' = number + 1
        /\ UNCHANGED <<pc, part, left, rdat, stream, parts, dxbc_binary, elements, rdat_subobjects>>
    BY <1>2, Zenon DEF ParseDxil, Touch
  <2>2. /\ data \in Blobs /\ Inside(s) /\ s.offset = 0
        /\ \/ s.size = 0
           \/ s.blob = parts[number] + 2 /\ s.size = Word(parts[number] + 1)
    BY ThisPartInside DEF CPTypeOK
  <2>3. /\ w[2] \in Uint /\ w[3] \in Uint
        /\ 3 < 2 * UintRange /\ \A u \in Uint : u \in Nat /\ u < UintRange
        /\ BlobSize \in Nat /\ UintRange \in Nat
    BY <2>2, WordsType, BlobFacts DEF DxilMagicPad, Uint
  <2>4. Span(s, 3) \subseteq DOMAIN data /\ 3 <= s.size
    BY <2>1, <2>2, <2>3, ReadInside DEF DxilMagicPad
  <2>5. from = w[2]
    <3> HIDE DEF w
    <3>1. w[2] - DxilMagicPad \in Nat /\ DxilMagicPad + (w[2] - DxilMagicPad) = w[2]
      BY <2>1, <2>3 DEF DxilMagicPad
    <3> QED BY <2>2, <2>3, <3>1, SumIsExact DEF DxilMagicPad
  <2>6. /\ Inside(bc)
        /\ bc.size = 0 \/ Extent(bc) \subseteq Extent(s)
    <3> HIDE DEF w, s
    <3>1. from \in Nat /\ w[3] \in Nat /\ from + w[3] < BlobSize + 4 * UintRange
      BY <2>3, <2>5
    <3> HIDE DEF from
    <3> QED BY <2>2, <3>1, BitcodeInside
  <2>7. Extent(bc) \subseteq DOMAIN data
    BY <2>2, <2>6, ExtentInside
  <2> HIDE DEF s, w, from, bc
  <2>8. CPTypeOK'
    BY <2>1, <2>4, <2>7 DEF CPTypeOK, DxilMagicPad
  <2>9. StreamsInv' /\ NamesEnd'
    BY <2>1, NamesKept, StreamsKept
  <2>10. PartInv' /\ RdatPartsDisjoint'
    BY <2>1 DEF PartInv, RdatPartsDisjoint, AtHeader
  <2>11. dxil_blob' # NoData => BitcodeOfPart'
    <3> SUFFICES ASSUME dxil_blob' # NoData PROVE BitcodeOfPart'
      OBVIOUS
    <3>1. dxil_blob' \subseteq Extent(s)
      BY <2>1, <2>6
    <3>2. /\ s.blob = parts[number] + 2 /\ s.size = Word(parts[number] + 1)
          /\ parts[number] \in Nat /\ s.size \in Nat
      BY <2>2, <2>4, PartHeader DEF AtHeader, Inside, StreamType, Uint
    <3>3. Extent(s) = parts[number] + 2 .. parts[number] + 1 + Word(parts[number] + 1)
      BY <3>2 DEF Extent
    <3> QED BY <2>1, <3>1, <3>3 DEF BitcodeOfPart, AtHeader, Word, ExpectedCC
  <2>12. ScanInv'
    <3>1. dxbc_binary <=> \E p \in DOMAIN parts : Word(parts[p]) = ShexCC
      BY DEF ScanInv, AtHeader
    <3>2. pc' = "part" /\ UNCHANGED <<data, parts, dxbc_binary>>
      BY <2>1 DEF AtHeader
    <3>3. dxbc_binary' <=> (\E p \in DOMAIN parts : Word(parts[p]) = ShexCC)'
      BY <3>1, <3>2 DEF Word
    <3> QED BY <2>11, <3>2, <3>3 DEF ScanInv
  <2> QED BY <2>8, <2>9, <2>10, <2>12
<1> QED BY <1>1, <1>2

LEMMA SignatureStep ==
  ASSUME WideOffsets, CPInv, AtHeader, Word(parts[number]) \in {InputCC, OutputCC},
         StartSignature(ThisPart), UNCHANGED inputVars
  PROVE  CPInv'
<1> USE DEF CPInv, inputVars, partVars, resultVars
<1> DEFINE s == ThisPart
           cc == Word(parts[number])
<1>1. CASE Fail
  BY <1>1, FailStep
<1>2. CASE ~ Fail
  <2>1. /\ CanRead(s, 1) /\ CanSeek(s, 2)
        /\ pc' = "element" /\ left' = Word(s.blob) /\ part' = Seek(s, 2)
        /\ elements' = [elements EXCEPT ![cc] = << >>]
        /\ touched' = touched \cup Span(s, 1)
        /\ UNCHANGED <<rdat, stream, parts, number, dxbc_binary, dxil_blob, rdat_subobjects>>
    BY <1>2 DEF StartSignature, Touch
  <2>2. data \in Blobs /\ Inside(s) /\ s.size \in Uint
    BY ThisPartInside DEF CPTypeOK
  <2>3. Span(s, 1) \subseteq DOMAIN data /\ Word(s.blob) \in Uint
    BY <2>1, <2>2, BlobFacts, ReadInside
  <2>4. Inside(part') /\ part'.size \in Uint
    BY <2>1, <2>2, SeekInside DEF CanSeek
  <2>5. /\ elements' \in [{InputCC, OutputCC} -> Seq(Nat)]
        /\ \A c \in DOMAIN elements' : elements'[c] \in {<< >>, elements[c]}
    BY <2>1 DEF CPTypeOK
  <2> HIDE DEF s, cc
  <2>6. CPTypeOK'
    BY <2>1, <2>3, <2>5 DEF CPTypeOK
  <2>7. StreamsInv'
    BY <2>1, <2>4 DEF StreamsInv, Inside, BlobSize, Uint
  <2>8. NamesEnd'
    <3>1. \A a : NameEnds(a) => NameEnds(a)'
      BY <2>1 DEF NameEnds
    <3>2. DOMAIN elements' = DOMAIN elements
      BY <2>1
    <3>3. \A c \in DOMAIN elements' : \A i \in DOMAIN elements'[c] : NameEnds(elements'[c][i])
      BY <2>5, <3>2 DEF NamesEnd
    <3> QED BY <2>1, <3>1, <3>3 DEF NamesEnd
  <2>9. PartInv' /\ RdatPartsDisjoint'
    BY <2>1 DEF PartInv, RdatPartsDisjoint, AtHeader, Word, cc
  <2>10. ScanInv'
    BY <2>1, ScanKept DEF AtHeader
  <2> QED BY <2>6, <2>7, <2>8, <2>9, <2>10
<1> QED BY <1>1, <1>2

LEMMA RdatStep ==
  ASSUME WideOffsets, CPInv, AtHeader, StartRdat(ThisPart), UNCHANGED inputVars
  PROVE  CPInv'
<1> USE DEF CPInv, inputVars, partVars, resultVars
<1> DEFINE s == ThisPart
           n == Words(s, 2)[2]
           offsets == Words(Advance(s, 2), n)
<1>1. CASE Fail
  BY <1>1, FailStep
<1>2. CASE ~ Fail
  <2>1. /\ CanRead(s, 2) /\ CanRead(s, 2 + n)
        /\ pc' = "rdat" /\ part' = s
        /\ rdat' = [offsets |-> offsets, next |-> 1,
                    strings |-> NullStream, indices |-> NullStream, raw |-> NullStream,
                    table |-> NullStream, stride |-> 0, record |-> 0]
        /\ touched' = touched \cup Span(s, 2 + n)
        /\ UNCHANGED <<left, stream, parts, number, dxbc_binary, dxil_blob, elements,
                       rdat_subobjects>>
    BY <1>2 DEF StartRdat, Touch
  <2>2. data \in Blobs /\ Inside(s) /\ s.size \in Uint
    BY ThisPartInside DEF CPTypeOK
  <2>3. n \in Nat /\ 2 + n \in Nat /\ 2 + n < 2 * UintRange /\ 0 \in Uint
    <3>1. n \in Uint
      BY <2>2, WordsType
    <3> HIDE DEF n
    <3> QED BY <2>2, <3>1, BlobFacts DEF Uint
  <2>4. offsets \in Seq(Uint)
    BY <2>2, <2>3, WordsType
  <2>5. Span(s, 2 + n) \subseteq DOMAIN data
    BY <2>1, <2>2, <2>3, ReadInside
  <2>6. Inside(NullStream) /\ NullStream \in StreamType
    BY <2>2, NullInside DEF Inside
  <2> HIDE DEF s, n, offsets
  <2>7. /\ rdat' \in RdatType /\ rdat'.next = 1
        /\ rdat'.strings = NullStream /\ rdat'.indices = NullStream /\ rdat'.raw = NullStream
        /\ rdat'.table = NullStream
    BY <2>1, <2>3, <2>4, <2>6 DEF RdatType
  <2>8. CPTypeOK'
    BY <2>1, <2>5, <2>7 DEF CPTypeOK, RdatType, Uint
  <2>9. StreamsInv'
    BY <2>1, <2>2, <2>6, <2>7 DEF StreamsInv, Inside, BlobSize, Uint
  <2>10. NamesEnd' /\ ScanInv'
    BY <2>1, NamesKept, ScanKept DEF AtHeader
  <2>11. PartInv' /\ RdatPartsDisjoint'
    BY <2>1, <2>7 DEF PartInv, RdatPartsDisjoint, AtHeader
  <2> QED BY <2>8, <2>9, <2>10, <2>11
<1> QED BY <1>1, <1>2

LEMMA PartStep ==
  ASSUME WideOffsets, CPInv, ReadPart, UNCHANGED inputVars
  PROVE  CPInv'
<1>1. /\ pc = "part" /\ number \in Nat \ {0} /\ dxbc_binary \in BOOLEAN
      /\ Len(parts) \in Nat /\ DOMAIN parts = 1 .. Len(parts)
  BY DEF ReadPart, CPInv, CPTypeOK
<1>2. CASE number > Len(parts)
  <2>1. /\ pc' = "done"
        /\ UNCHANGED <<part, left, rdat, touched, partVars, resultVars>>
    BY <1>2 DEF ReadPart
  <2> USE DEF CPInv, inputVars, partVars, resultVars
  <2>2. CPTypeOK'
    BY <2>1 DEF CPTypeOK
  <2>3. StreamsInv' /\ NamesEnd' /\ ScanInv'
    BY <1>1, <2>1, StreamsKept, NamesKept, ScanKept
  <2>4. PartInv' /\ RdatPartsDisjoint'
    BY <2>1 DEF PartInv, RdatPartsDisjoint
  <2> QED BY <2>2, <2>3, <2>4
<1>3. CASE number <= Len(parts) /\ HasPartHeader
  <2>1. AtHeader
    BY <1>1, <1>3 DEF AtHeader
  <2>2. Words(AtPart, 2)[1] = Word(parts[number]) /\ Words(AtPart, 2)[2] = Word(parts[number] + 1)
    BY <2>1, PartHeader DEF AtHeader
  <2> DEFINE cc == Word(parts[number])
  <2>3. CASE cc \in {DxilCC, StatisticsCC}
    <3>1. CASE cc = ExpectedCC /\ ~ dxbc_binary
      <4>1. ParseDxil(ThisPart)
        BY <1>1, <1>3, <2>2, <2>3, <3>1 DEF ReadPart, ThisPart, DxilCC, StatisticsCC, InputCC,
           OutputCC, RuntimeDataCC
      <4> QED BY <2>1, <3>1, <4>1, DxilStep
    <3>2. CASE ~ (cc = ExpectedCC /\ ~ dxbc_binary)
      <4>1. SkipPart
        BY <1>1, <1>3, <2>2, <2>3, <3>2 DEF ReadPart, ThisPart, DxilCC, StatisticsCC, InputCC,
           OutputCC, RuntimeDataCC
      <4> QED BY <1>1, <4>1, SkipStep
    <3> QED BY <3>1, <3>2
  <2>4. CASE cc \in {InputCC, OutputCC}
    <3>1. StartSignature(ThisPart)
      BY <1>1, <1>3, <2>2, <2>4 DEF ReadPart, ThisPart, DxilCC, StatisticsCC, InputCC, OutputCC,
         RuntimeDataCC
    <3> QED BY <2>1, <2>4, <3>1, SignatureStep
  <2>5. CASE cc = RuntimeDataCC
    <3>1. StartRdat(ThisPart)
      BY <1>1, <1>3, <2>2, <2>5 DEF ReadPart, ThisPart, DxilCC, StatisticsCC, InputCC, OutputCC,
         RuntimeDataCC
    <3> QED BY <2>1, <3>1, RdatStep
  <2>6. CASE cc \notin {DxilCC, StatisticsCC, InputCC, OutputCC, RuntimeDataCC}
    <3>1. SkipPart
      BY <1>1, <1>3, <2>2, <2>6 DEF ReadPart
    <3> QED BY <1>1, <3>1, SkipStep
  <2> QED BY <2>3, <2>4, <2>5, <2>6
<1>4. CASE number <= Len(parts) /\ ~ HasPartHeader
  BY <1>1, <1>4, FailStep DEF ReadPart
<1> QED BY <1>1, <1>2, <1>3, <1>4

-----------------------------------------------------------------------------
(* Signatures.                                                             *)

LEMMA NextPartStep ==
  ASSUME CPInv, pc \in {"element", "rdat"}, NextPart,
         UNCHANGED <<part, left, rdat, touched, stream, parts, dxbc_binary, resultVars>>,
         UNCHANGED inputVars
  PROVE  CPInv'
<1> USE DEF CPInv, NextPart, inputVars, resultVars
<1>1. CPTypeOK'
  BY DEF CPTypeOK
<1>2. StreamsInv' /\ NamesEnd' /\ ScanInv'
  BY StreamsKept, NamesKept, ScanKept
<1>3. PartInv' /\ RdatPartsDisjoint'
  BY DEF PartInv, RdatPartsDisjoint
<1> QED BY <1>1, <1>2, <1>3

LEMMA ElementStep ==
  ASSUME WideOffsets, CPInv, ReadElement, UNCHANGED inputVars
  PROVE  CPInv'
<1> USE DEF CPInv, inputVars, partVars, resultVars
<1> DEFINE to == Words(part, 1)[1]
           cc == Word(parts[number])
           name == part.blob + to
<1>1. CASE Fail
  BY <1>1, FailStep
<1>2. pc = "element" /\ number \in DOMAIN parts /\ cc \in {InputCC, OutputCC}
  BY DEF ReadElement, PartInv
<1>3. CASE left = 0
  BY <1>2, <1>3, NextPartStep DEF ReadElement
<1>4. CASE left # 0 /\ ~ Fail
  <2>1. /\ CanRead(part, 1) /\ CanSeek(part, to) /\ HasString(Seek(part, to))
        /\ elements' = [elements EXCEPT ![cc] = Append(@, name)]
        /\ touched' = touched \cup (Span(part, 1) \cup StringSpan(Seek(part, to)))
        /\ part' = Advance(part, 1) /\ left' = left - 1
        /\ UNCHANGED <<pc, rdat, stream, parts, number, dxbc_binary, dxil_blob, rdat_subobjects>>
    BY <1>4 DEF ReadElement, Touch
  <2>2. data \in Blobs /\ Inside(part) /\ part.size \in Uint /\ left \in Uint
    BY DEF CPTypeOK, StreamsInv
  <2>3. to \in Uint /\ to \in Nat /\ 1 < 2 * UintRange
    BY <2>2, WordsType, BlobFacts DEF Uint
  <2>4. Span(part, 1) \subseteq DOMAIN data /\ Inside(part') /\ part'.size \in Uint
    BY <2>1, <2>2, <2>3, ReadInside
  <2> HIDE DEF to
  <2>5. /\ Inside(Seek(part, to)) /\ Seek(part, to).blob = part.blob
        /\ Seek(part, to).offset = to
    BY <2>1, <2>2, <2>3, SeekInside DEF CanSeek
  <2>6. /\ StringSpan(Seek(part, to)) \subseteq DOMAIN data /\ name \in Nat
        /\ \E b \in DOMAIN data :
             b >= name /\ data[b] = 0 /\ name .. b \subseteq StringSpan(Seek(part, to))
    BY <2>1, <2>2, <2>5, StringInside
  <2> HIDE DEF cc, name
  <2>7. /\ elements' \in [{InputCC, OutputCC} -> Seq(Nat)]
        /\ \A c \in DOMAIN elements' : elements'[c] \in {elements[c], Append(elements[c], name)}
    BY <1>2, <2>1, <2>6 DEF CPTypeOK
  <2>8. CPTypeOK'
    <3>1. left' \in Uint
      BY <1>4, <2>1, <2>2, BlobFacts DEF Uint
    <3> QED BY <2>1, <2>4, <2>6, <2>7, <3>1 DEF CPTypeOK
  <2>9. StreamsInv'
    BY <2>1, <2>4 DEF StreamsInv, Inside, BlobSize, Uint
  <2>10. NamesEnd'
    <3> DEFINE Ends(a) == \E b \in DOMAIN data' : b >= a /\ data'[b] = 0 /\ a .. b \subseteq touched'
    <3>1. \A a : NameEnds(a) => Ends(a)
      BY <2>1 DEF NameEnds
    <3>2. Ends(name)
      BY <2>1, <2>6
    <3> HIDE DEF Ends
    <3>3. ASSUME NEW c \in DOMAIN elements', NEW i \in DOMAIN elements'[c]
          PROVE  Ends(elements'[c][i])
      <4>1. elements[c] \in Seq(Nat) /\ c \in DOMAIN elements
        BY <2>7 DEF CPTypeOK
      <4>2. CASE elements'[c] = elements[c]
        BY <3>1, <4>1, <4>2 DEF NamesEnd
      <4>3. CASE elements'[c] = Append(elements[c], name)
        <5>1. elements'[c][i] = name \/ (i \in DOMAIN elements[c] /\ elements'[c][i] = elements[c][i])
          BY <2>6, <4>1, <4>3
        <5> QED BY <3>1, <3>2, <4>1, <5>1 DEF NamesEnd
      <4> QED BY <2>7, <4>2, <4>3
    <3>4. \A i \in DOMAIN rdat_subobjects' : \A a \in rdat_subobjects'[i].strings : Ends(a)
      BY <2>1, <3>1 DEF NamesEnd
    <3> QED BY <3>3, <3>4 DEF NamesEnd, NameEnds, Ends
  <2>11. PartInv' /\ RdatPartsDisjoint'
    BY <1>2, <2>1 DEF PartInv, RdatPartsDisjoint, Word, cc
  <2>12. ScanInv'
    BY <1>2, <2>1, ScanKept
  <2> QED BY <2>8, <2>9, <2>10, <2>11, <2>12
<1> QED BY <1>1, <1>3, <1>4

-----------------------------------------------------------------------------
(* Runtime data.                                                           *)

\* A difference of two fields, in 32 bits.
LEMMA Difference ==
  ASSUME NEW N \in Nat \ {0}, NEW a \in 0 .. N - 1, NEW b \in 0 .. N - 1
  PROVE  (b - a) % N = IF a <= b THEN b - a ELSE b - a + N
<1>1. CASE a <= b
  BY <1>1
<1>2. CASE a > b
  BY <1>2
<1> QED BY <1>1, <1>2

\* The part of the runtime data that is looked at.
RdatPart == Substream(part, rdat.offsets[rdat.next], PartSize)

AtRdatPart ==
  /\ pc = "rdat" /\ rdat.next <= Len(rdat.offsets)
  /\ rdat.offsets[rdat.next] + 2 <= part.size

\* It is inside of the part, and if anything can be read from it, it is followed
\* by the next one.
LEMMA RdatPartInside ==
  ASSUME WideOffsets, CPInv, AtRdatPart
  PROVE  /\ Inside(RdatPart) /\ RdatPart.offset = 0
         /\ RdatPart.size > 0 /\ rdat.next + 1 \in DOMAIN rdat.offsets =>
              rdat.offsets[rdat.next] < rdat.offsets[rdat.next + 1]
<1> DEFINE i == rdat.next
           from == rdat.offsets[i]
           to == rdat.offsets[i + 1]
<1>1. /\ data \in Blobs /\ Inside(part) /\ part.size \in Uint /\ BlobSize \in Nat
      /\ rdat.offsets \in Seq(Uint) /\ i \in Nat \ {0}
      /\ UintRange \in Nat \ {0} /\ UintRange > 7
  BY BlobFacts DEF CPInv, CPTypeOK, StreamsInv, RdatType
<1>2. i \in 1 .. Len(rdat.offsets) /\ from \in Uint /\ from + 2 <= part.size
  BY <1>1 DEF AtRdatPart
<1>3. from \in Nat /\ part.size \in Nat /\ part.size < UintRange /\ from < UintRange
      /\ part.size <= BlobSize
  <2>1. part.size <= BlobSize
    BY <1>1 DEF Inside, StreamType
  <2> HIDE DEF from
  <2> QED BY <1>1, <1>2, <2>1 DEF Uint
<1>4. CASE i < Len(rdat.offsets)
  <2>1. to \in Uint /\ to \in Nat /\ to < UintRange
    <3>1. i + 1 \in 1 .. Len(rdat.offsets)
      BY <1>1, <1>4
    <3>2. to \in Uint
      BY <1>1, <3>1
    <3> HIDE DEF to
    <3> QED BY <1>1, <3>2 DEF Uint
  <2>2. PartSize = IF from <= to THEN to - from ELSE to - from + UintRange
    <3>1. PartSize = (to - from) % UintRange
      BY <1>4 DEF PartSize
    <3> HIDE DEF from, to
    <3> QED BY <1>1, <1>2, <2>1, <3>1, Difference DEF Uint
  <2> HIDE DEF from, to
  <2>3. PartSize \in Nat /\ from + PartSize < BlobSize + 4 * UintRange
    BY <1>1, <1>3, <2>1, <2>2
  <2>4. /\ Inside(Substream(part, from, PartSize)) /\ Substream(part, from, PartSize).offset = 0
        /\ \/ Substream(part, from, PartSize).size = 0
           \/ /\ from + PartSize <= part.size
              /\ Substream(part, from, PartSize).size = PartSize
    BY <1>1, <1>3, <2>3, SubstreamInside
  <2>5. Substream(part, from, PartSize).size > 0 => from < to
    <3> SUFFICES ASSUME Substream(part, from, PartSize).size > 0, ~ (from < to) PROVE FALSE
      OBVIOUS
    <3>1. from + PartSize <= part.size /\ PartSize > 0
      BY <2>4
    <3> QED BY <1>1, <1>3, <2>1, <2>2, <2>3, <3>1
  <2> QED BY <2>4, <2>5 DEF RdatPart, from, to
<1>5. CASE i = Len(rdat.offsets)
  <2>1. PartSize = part.size - from
    BY <1>5 DEF PartSize
  <2> HIDE DEF from, to
  <2>2. PartSize \in Nat /\ from + PartSize < BlobSize + 4 * UintRange
    BY <1>1, <1>2, <1>3, <2>1
  <2>3. Inside(Substream(part, from, PartSize)) /\ Substream(part, from, PartSize).offset = 0
    BY <1>1, <1>3, <2>2, SubstreamInside
  <2>4. ~ (i + 1 \in DOMAIN rdat.offsets)
    BY <1>1, <1>5
  <2> QED BY <2>3, <2>4 DEF RdatPart, from
<1> QED BY <1>1, <1>2, <1>4, <1>5

LEMMA RdatPartStep ==
  ASSUME WideOffsets, CPInv, ReadRdatPart, UNCHANGED inputVars
  PROVE  CPInv'
<1> USE DEF CPInv, inputVars, partVars, resultVars
<1> DEFINE s == RdatPart
           w == Words(s, 4)
           payload == Substream(s, 2, w[2])
           isTable == w[1] = SubobjectTable
<1>1. pc = "rdat"
  BY DEF ReadRdatPart
<1>2. rdat.next \in Nat \ {0} /\ Len(rdat.offsets) \in Nat
  BY DEF CPTypeOK, RdatType
<1>3. CASE Fail
  BY <1>3, FailStep
<1>4. CASE rdat.next > Len(rdat.offsets)
  BY <1>1, <1>4, NextPartStep DEF ReadRdatPart
<1>5. CASE rdat.next <= Len(rdat.offsets) /\ ~ Fail
  <2>1. /\ AtRdatPart
        /\ CanRead(s, 2) /\ (isTable => CanRead(s, 4))
        /\ touched' = touched \cup Span(s, IF isTable THEN 4 ELSE 2)
        /\ pc' = IF isTable THEN "record" ELSE pc
        /\ left' = IF isTable THEN w[3] ELSE left
        /\ rdat' = [rdat EXCEPT !.next = @ + 1,
                      !.strings = IF w[1] = StringBuffer THEN payload ELSE @,
                      !.indices = IF w[1] = IndexArrays THEN payload ELSE @,
                      !.raw = IF w[1] = RawBytes THEN payload ELSE @,
                      !.table = IF isTable THEN Advance(s, 4) ELSE @,
                      !.stride = IF isTable THEN w[4] ELSE @,
                      !.record = 0]
        /\ UNCHANGED <<part, stream, parts, number, dxbc_binary, dxil_blob, elements,
                       rdat_subobjects>>
    <3>1. rdat.offsets[rdat.next] \in Nat /\ part.size \in Nat
      <4>1. rdat.offsets \in Seq(Uint) /\ part.size \in Uint /\ rdat.next \in 1 .. Len(rdat.offsets)
        BY <1>2, <1>5 DEF CPTypeOK, RdatType, StreamsInv
      <4>2. rdat.offsets[rdat.next] \in Uint
        BY <4>1
      <4> QED BY <4>1, <4>2, BlobFacts DEF CPTypeOK, Uint
    <3>2. AtRdatPart
      BY <1>1, <1>2, <1>5, <3>1 DEF ReadRdatPart, AtRdatPart
    <3> QED BY <1>1, <1>2, <1>5, <3>1, <3>2 DEF ReadRdatPart, AtRdatPart, RdatPart, Touch
  <2>2. /\ data \in Blobs /\ Inside(s) /\ s.offset = 0 /\ rdat \in RdatType
        /\ 2 < 2 * UintRange /\ 4 < 2 * UintRange /\ UintRange \in Nat
    BY <2>1, RdatPartInside, BlobFacts, SMTT(30) DEF CPTypeOK
  <2>3. w[2] \in Uint /\ w[3] \in Uint /\ w[4] \in Uint
    BY <2>2, WordsType
  <2>4. Inside(payload)
    <3> HIDE DEF w, s
    <3>1. w[2] \in Nat /\ 2 + w[2] < BlobSize + 4 * UintRange
      BY <2>2, <2>3, BlobFacts DEF Uint
    <3> QED BY <2>2, <3>1, SubstreamInside
  <2>5. Span(s, IF isTable THEN 4 ELSE 2) \subseteq DOMAIN data
    BY <2>1, <2>2, ReadInside
  <2>6. isTable => Inside(Advance(s, 4))
    BY <2>1, <2>2, ReadInside
  <2>7. 2 <= s.size
    BY <2>1, <2>2, ReadInside
  <2> HIDE DEF s, w, payload, isTable
  <2>8. /\ rdat'.offsets = rdat.offsets /\ rdat'.next = rdat.next + 1
        /\ rdat'.strings \in {rdat.strings, payload} /\ rdat'.indices \in {rdat.indices, payload}
        /\ rdat'.raw \in {rdat.raw, payload}
        /\ rdat'.table = IF isTable THEN Advance(s, 4) ELSE rdat.table
        /\ rdat'.stride = IF isTable THEN w[4] ELSE rdat.stride
        /\ rdat'.record = 0
    BY <2>1, <2>2 DEF RdatType
  <2>9. rdat' \in RdatType
    <3>1. rdat'.strings \in StreamType /\ rdat'.indices \in StreamType /\ rdat'.raw \in StreamType
      BY <2>2, <2>4, <2>8 DEF RdatType, Inside
    <3>2. rdat'.table \in StreamType /\ rdat'.stride \in Uint
      BY <2>2, <2>3, <2>6, <2>8 DEF RdatType, Inside
    <3>3. rdat'.next \in Nat \ {0} /\ rdat'.offsets \in Seq(Uint) /\ rdat'.record \in Nat
      BY <2>2, <2>8 DEF RdatType
    <3>4. rdat' = [offsets |-> rdat'.offsets, next |-> rdat'.next, strings |-> rdat'.strings,
                   indices |-> rdat'.indices, raw |-> rdat'.raw, table |-> rdat'.table,
                   stride |-> rdat'.stride, record |-> rdat'.record]
      BY <2>1, <2>2 DEF RdatType
    <3> QED BY <3>1, <3>2, <3>3, <3>4 DEF RdatType
  <2>10. CPTypeOK'
    BY <1>1, <2>1, <2>3, <2>5, <2>9 DEF CPTypeOK, RdatType, Uint
  <2>11. StreamsInv'
    <3>1. Inside(part') /\ Inside(rdat'.strings) /\ Inside(rdat'.indices) /\ Inside(rdat'.raw)
          /\ Inside(rdat'.table) /\ Inside(stream')
      BY <2>1, <2>4, <2>6, <2>8 DEF StreamsInv
    <3> QED BY <2>1, <3>1 DEF StreamsInv, Inside, BlobSize, Uint
  <2>12. NamesEnd' /\ ScanInv'
    BY <1>1, <2>1, NamesKept, ScanKept
  <2>13. PartInv'
    BY <1>1, <2>1 DEF PartInv
  <2>14. RdatPartsDisjoint'
    <3>1. rdat.next \in Nat \ {0}
      BY <2>2 DEF RdatType
    <3>2. rdat.next + 1 \in DOMAIN rdat.offsets =>
            rdat.offsets[rdat.next] < rdat.offsets[rdat.next + 1]
      <4>1. s.size \in Nat
        BY <2>2 DEF Inside, StreamType
      <4> QED BY <2>1, <2>7, <4>1, RdatPartInside DEF s
    <3>3. ASSUME NEW i \in 1 .. rdat'.next - 1, i + 1 \in DOMAIN rdat.offsets
          PROVE  rdat.offsets[i] < rdat.offsets[i + 1]
      BY <1>1, <2>8, <3>1, <3>2, <3>3 DEF RdatPartsDisjoint
    <3> QED BY <2>8, <3>3 DEF RdatPartsDisjoint
  <2> QED BY <2>10, <2>11, <2>12, <2>13, <2>14
<1> QED BY <1>2, <1>3, <1>4, <1>5

-----------------------------------------------------------------------------
(* Subobjects.                                                             *)

LEMMA LayoutFacts ==
  ASSUME NEW kind \in Nat
  PROVE  /\ Len(Layout(kind)) \in 0 .. 5 /\ DOMAIN Layout(kind) = 1 .. Len(Layout(kind))
         /\ kind = 7 => Len(Layout(kind)) = 3
<1>1. CASE kind = 7
  <2>1. Layout(kind) = <<"string", "offset", "size">>
    BY <1>1 DEF Layout
  <2> QED BY <2>1
<1>2. CASE kind # 7
  <2>1. Layout(kind) \in
          {<< >>, <<"string", "word">>, <<"string", "word", "word">>,
           <<"string", "string", "index">>, <<"string", "word", "string", "string", "string">>}
    BY <1>2 DEF Layout
  <2> QED BY <1>2, <2>1
<1> QED BY <1>1, <1>2

LEMMA RecordInside ==
  ASSUME WideOffsets, CPInv
  PROVE  Inside(RecordStream(rdat.record))
<1> DEFINE step == (rdat.record * rdat.stride) % UintRange
           from == SizeAdd(rdat.table.offset, step)
<1>1. /\ data \in Blobs /\ Inside(rdat.table) /\ rdat \in RdatType
      /\ BlobSize \in Nat /\ UintRange \in Nat \ {0}
  BY BlobFacts DEF CPInv, CPTypeOK, StreamsInv
<1>2. /\ rdat.table.offset \in Nat /\ rdat.table.offset <= BlobSize
      /\ rdat.stride \in Nat /\ rdat.stride < UintRange /\ rdat.record \in Nat
  <2>1. rdat.stride \in Uint /\ rdat.record \in Nat
    BY <1>1 DEF RdatType
  <2>2. /\ rdat.table.offset \in Nat /\ rdat.table.size \in Nat /\ rdat.table.blob \in Nat
        /\ rdat.table.offset <= rdat.table.size
        /\ rdat.table.blob + rdat.table.size <= BlobSize
    BY <1>1 DEF Inside, StreamType
  <2> QED BY <1>1, <2>1, <2>2 DEF Uint
<1>3. step \in Nat /\ step < UintRange
  <2>1. rdat.record * rdat.stride \in Nat
    BY <1>2
  <2> QED BY <1>1, <2>1
<1> HIDE DEF step
<1>4. from = rdat.table.offset + step
  BY <1>1, <1>2, <1>3, SumIsExact
<1>5. from \in Nat /\ from + rdat.stride < BlobSize + 4 * UintRange
  BY <1>1, <1>2, <1>3, <1>4
<1> HIDE DEF from
<1>6. Inside(Substream(rdat.table, from, rdat.stride))
  BY <1>1, <1>2, <1>5, SubstreamInside
<1> QED BY <1>6 DEF RecordStream, from, step

\* A name in the string buffer.
LEMMA NameInside ==
  ASSUME data \in Blobs, NEW st, Inside(st), NEW n \in Nat, HasString(SubstreamFrom(st, n))
  PROVE  /\ StringSpan(SubstreamFrom(st, n)) \subseteq DOMAIN data
         /\ st.blob + n \in Nat
         /\ \E b \in DOMAIN data :
              /\ b >= st.blob + n /\ data[b] = 0
              /\ st.blob + n .. b \subseteq StringSpan(SubstreamFrom(st, n))
<1> DEFINE s == SubstreamFrom(st, n)
<1>1. /\ Inside(s) /\ s.offset = 0
      /\ s.size = 0 \/ s.blob = st.blob + n
  BY SubstreamFromInside
<1> HIDE DEF s
<1>2. s.size # 0
  BY <1>1 DEF HasString, StringEnds, s
<1>3. s.blob \in Nat /\ s.blob = st.blob + n /\ s.blob + s.offset = st.blob + n
  BY <1>1, <1>2 DEF Inside, StreamType
<1> QED BY <1>1, <1>3, StringInside DEF s

LEMMA RecordStep ==
  ASSUME WideOffsets, CPInv, ReadRecord, UNCHANGED inputVars
  PROVE  CPInv'
<1> USE DEF CPInv, inputVars, partVars, resultVars
<1> DEFINE s == RecordStream(rdat.record)
           kind == Words(s, 1)[1]
           layout == Layout(kind)
           w == Words(Advance(s, 1), Len(layout))
           lists == {IndexList(at) : at \in Field(layout, w, "index")}
           bytes == IF kind = 7 THEN Substream(rdat.raw, w[2], w[3]) ELSE NullStream
           listed == UNION {{Words(Advance(l, 1), Words(l, 1)[1])[i] :
                               i \in 1 .. Words(l, 1)[1]} : l \in lists}
           names == Field(layout, w, "string") \cup listed
           record == [strings |-> {rdat.strings.blob + n : n \in names},
                      payload |-> IF bytes.size = 0 THEN NoData ELSE Extent(bytes)]
           fields == Span(s, 1 + Len(layout))
           indices == UNION {Span(l, 1 + Words(l, 1)[1]) : l \in lists}
           strings == UNION {StringSpan(SubstreamFrom(rdat.strings, n)) : n \in names}
<1>1. pc = "record"
  BY DEF ReadRecord
<1>2. CASE Fail
  BY <1>2, FailStep
<1>3. CASE left = 0
  <2>1. /\ pc' = "rdat"
        /\ UNCHANGED <<part, left, rdat, touched, partVars, resultVars>>
    BY <1>3 DEF ReadRecord
  <2>2. CPTypeOK'
    BY <2>1 DEF CPTypeOK
  <2>3. StreamsInv' /\ NamesEnd' /\ ScanInv'
    BY <1>1, <2>1, StreamsKept, NamesKept, ScanKept
  <2>4. PartInv' /\ RdatPartsDisjoint'
    BY <1>1, <2>1 DEF PartInv, RdatPartsDisjoint
  <2> QED BY <2>2, <2>3, <2>4
<1>4. CASE left # 0 /\ ~ Fail
  <2>1. /\ CanRead(s, 1 + Len(layout))
        /\ \A l \in lists : CanRead(l, 1 + Words(l, 1)[1])
        /\ \A n \in names : HasString(SubstreamFrom(rdat.strings, n))
        /\ left' = left - 1
        /\ rdat' = [rdat EXCEPT !.record = @ + 1]
        /\ touched' = touched \cup (fields \cup indices \cup Extent(bytes) \cup strings)
        /\ rdat_subobjects' =
             IF layout = << >> THEN rdat_subobjects ELSE Append(rdat_subobjects, record)
        /\ UNCHANGED <<pc, part, stream, parts, number, dxbc_binary, dxil_blob, elements>>
    <3> DEFINE ok == /\ CanRead(s, 1 + Len(layout))
                     /\ \A l \in lists : CanRead(l, 1) /\ CanRead(l, 1 + Words(l, 1)[1])
                     /\ \A n \in names : HasString(SubstreamFrom(rdat.strings, n))
    <3>1. ok
      BY <1>4, Zenon DEF ReadRecord
    <3>2. left' = left - 1 /\ rdat' = [rdat EXCEPT !.record = @ + 1]
      BY <1>4, <3>1, Zenon DEF ReadRecord
    <3>3. touched' = touched \cup (fields \cup indices \cup Extent(bytes) \cup strings)
      BY <1>4, <3>1, Zenon DEF ReadRecord, Touch
    <3>4. rdat_subobjects' =
             IF layout = << >> THEN rdat_subobjects ELSE Append(rdat_subobjects, record)
      BY <1>4, <3>1, Zenon DEF ReadRecord
    <3>5. UNCHANGED <<pc, part, stream, parts, number, dxbc_binary, dxil_blob, elements>>
      BY <1>4, <3>1, Zenon DEF ReadRecord
    <3> QED BY <3>1, <3>2, <3>3, <3>4, <3>5
  <2>2. /\ data \in Blobs /\ rdat \in RdatType /\ left \in Uint
        /\ Inside(s) /\ Inside(rdat.strings) /\ Inside(rdat.indices) /\ Inside(rdat.raw)
    BY RecordInside DEF CPTypeOK, StreamsInv
  <2>3. /\ \A u \in Uint : u \in Nat /\ u < UintRange
        /\ UintRange \in Nat /\ UintRange > 7 /\ BlobSize \in Nat
    BY <2>2, BlobFacts DEF Uint
  <2>4. kind \in Uint
    BY <2>2, WordsType
  <2>5. /\ Len(layout) \in 0 .. 5 /\ DOMAIN layout = 1 .. Len(layout)
        /\ kind = 7 => Len(layout) = 3
    BY <2>3, <2>4, LayoutFacts
  <2>6. \A i \in DOMAIN layout : w[i] \in Uint
    <3> HIDE DEF layout
    <3> QED BY <2>2, <2>5, WordsType
  <2> HIDE DEF s, kind, layout, w
  <2>7. \A name : Field(layout, w, name) \subseteq Uint
    BY <2>6 DEF Field
  <2>8. \A l \in lists : Inside(l) /\ Words(l, 1)[1] \in Uint
    <3> SUFFICES ASSUME NEW at \in Field(layout, w, "index")
                 PROVE  Inside(IndexList(at)) /\ Words(IndexList(at), 1)[1] \in Uint
      OBVIOUS
    <3>1. at \in Nat
      BY <2>3, <2>7
    <3>2. Inside(IndexList(at))
      BY <2>2, <3>1, SubstreamFromInside DEF IndexList
    <3> QED BY <2>2, <3>2, WordsType
  <2>9. ASSUME NEW l \in lists
        PROVE  Span(l, 1 + Words(l, 1)[1]) \subseteq DOMAIN data
    <3> DEFINE n == 1 + Words(l, 1)[1]
    <3>1. n \in Nat /\ n < 2 * UintRange
      <4> DEFINE u == Words(l, 1)[1]
      <4>1. u \in Uint
        BY <2>8
      <4> HIDE DEF u
      <4>2. 1 + u \in Nat /\ 1 + u < 2 * UintRange
        BY <2>3, <4>1
      <4> QED BY <4>2 DEF u
    <3>2. CanRead(l, n)
      BY <2>1
    <3> HIDE DEF n
    <3>3. Span(l, n) \subseteq DOMAIN data
      BY <2>2, <2>8, <3>1, <3>2, ReadInside
    <3> QED BY <3>3 DEF n
  <2>10. listed \subseteq Uint
    <3>1. ASSUME NEW l \in lists, NEW i \in 1 .. Words(l, 1)[1]
          PROVE  Words(Advance(l, 1), Words(l, 1)[1])[i] \in Uint
      <4>1. Words(l, 1)[1] \in Nat
        BY <2>3, <2>8
      <4> QED BY <2>2, <4>1, WordsType
    <3> QED BY <3>1
  <2>11. names \subseteq Nat
    BY <2>3, <2>7, <2>10
  <2>12. Inside(bytes)
    <3>1. CASE kind = 7
      <4>1. w[2] \in Uint /\ w[3] \in Uint
        BY <2>5, <2>6, <3>1
      <4>2. w[2] \in Nat /\ w[3] \in Nat /\ w[2] + w[3] < BlobSize + 4 * UintRange
        BY <2>3, <4>1
      <4> QED BY <2>2, <3>1, <4>2, SubstreamInside
    <3>2. CASE kind # 7
      BY <2>2, <3>2, NullInside
    <3> QED BY <3>1, <3>2
  <2>13. fields \subseteq DOMAIN data
    <3>1. 1 + Len(layout) \in Nat /\ 1 + Len(layout) < 2 * UintRange
      <4> DEFINE n == Len(layout)
      <4>1. n \in 0 .. 5
        BY <2>5
      <4> HIDE DEF n
      <4>2. 1 + n \in Nat /\ 1 + n < 2 * UintRange
        BY <2>3, <4>1
      <4> QED BY <4>2 DEF n
    <3> QED BY <2>1, <2>2, <3>1, ReadInside
  <2>14. indices \subseteq DOMAIN data
    BY <2>9
  <2>15. Extent(bytes) \subseteq DOMAIN data /\ Extent(bytes) \subseteq Nat
    BY <2>2, <2>12, ExtentInside
  <2> HIDE DEF lists, listed, bytes, names, fields, indices
  <2>16. ASSUME NEW n \in names
         PROVE  /\ StringSpan(SubstreamFrom(rdat.strings, n)) \subseteq DOMAIN data
                /\ rdat.strings.blob + n \in Nat
                /\ \E b \in DOMAIN data :
                     /\ b >= rdat.strings.blob + n /\ data[b] = 0
                     /\ rdat.strings.blob + n .. b \subseteq StringSpan(SubstreamFrom(rdat.strings, n))
    BY <2>1, <2>2, <2>11, NameInside
  <2>17. strings \subseteq DOMAIN data
    BY <2>16
  <2>18. /\ record \in [strings : SUBSET Nat, payload : {NoData} \cup SUBSET Nat]
         /\ record.strings = {rdat.strings.blob + n : n \in names}
    BY <2>15, <2>16
  <2>19. \A n \in names : StringSpan(SubstreamFrom(rdat.strings, n)) \subseteq touched'
    BY <2>1
  <2> HIDE DEF record, strings
  <2>20. /\ rdat' \in RdatType /\ UNCHANGED <<rdat.offsets, rdat.next>>
         /\ rdat'.strings = rdat.strings /\ rdat'.indices = rdat.indices
         /\ rdat'.raw = rdat.raw /\ rdat'.table = rdat.table
    BY <2>1, <2>2 DEF RdatType
  <2>21. rdat_subobjects' \in Seq([strings : SUBSET Nat, payload : {NoData} \cup SUBSET Nat])
    <3> DEFINE Records == [strings : SUBSET Nat, payload : {NoData} \cup SUBSET Nat]
    <3>1. rdat_subobjects \in Seq(Records) /\ record \in Records
      BY <2>18 DEF CPTypeOK
    <3> HIDE DEF Records
    <3>2. rdat_subobjects' \in Seq(Records)
      BY <2>1, <3>1
    <3> QED BY <3>2 DEF Records
  <2>22. CPTypeOK'
    <3>1. left' \in Uint
      BY <1>4, <2>1, <2>2, <2>3 DEF Uint
    <3>2. touched' \subseteq DOMAIN data'
      BY <2>1, <2>13, <2>14, <2>15, <2>17 DEF CPTypeOK
    <3> QED BY <2>1, <2>20, <2>21, <3>1, <3>2 DEF CPTypeOK, RdatType, Uint
  <2>23. StreamsInv'
    BY <2>1, <2>20 DEF StreamsInv, Inside, BlobSize, Uint
  <2>24. NamesEnd'
    <3> DEFINE Ends(a) == \E b \in DOMAIN data' : b >= a /\ data'[b] = 0 /\ a .. b \subseteq touched'
    <3>1. \A a : NameEnds(a) => Ends(a)
      BY <2>1 DEF NameEnds
    <3>2. \A a \in record.strings : Ends(a)
      <4> SUFFICES ASSUME NEW n \in names PROVE Ends(rdat.strings.blob + n)
        BY <2>18
      <4>1. PICK b \in DOMAIN data :
              /\ b >= rdat.strings.blob + n /\ data[b] = 0
              /\ rdat.strings.blob + n .. b \subseteq StringSpan(SubstreamFrom(rdat.strings, n))
        BY <2>16
      <4> QED BY <2>19, <4>1
    <3> HIDE DEF Ends
    <3>3. \A c \in DOMAIN elements' : \A i \in DOMAIN elements'[c] : Ends(elements'[c][i])
      BY <2>1, <3>1 DEF NamesEnd
    <3>4. ASSUME NEW i \in DOMAIN rdat_subobjects'
          PROVE  \A a \in rdat_subobjects'[i].strings : Ends(a)
      <4>1. \/ i \in DOMAIN rdat_subobjects /\ rdat_subobjects'[i] = rdat_subobjects[i]
            \/ rdat_subobjects'[i] = record
        BY <2>1, <2>18 DEF CPTypeOK
      <4> QED BY <3>1, <3>2, <4>1 DEF NamesEnd
    <3> QED BY <3>3, <3>4 DEF NamesEnd, NameEnds, Ends
  <2>25. PartInv' /\ RdatPartsDisjoint'
    BY <1>1, <2>1, <2>20 DEF PartInv, RdatPartsDisjoint
  <2>26. ScanInv'
    BY <1>1, <2>1, ScanKept
  <2> QED BY <2>22, <2>23, <2>24, <2>25, <2>26
<1> QED BY <1>2, <1>3, <1>4

-----------------------------------------------------------------------------

LEMMA StutterStep ==
  ASSUME CPInv, UNCHANGED cpVars
  PROVE  CPInv'
<1> USE DEF CPInv, cpVars, inputVars, partVars, resultVars
<1>1. CPTypeOK'
  BY DEF CPTypeOK
<1>2. StreamsInv' /\ NamesEnd'
  BY StreamsKept, NamesKept
<1>3. PartInv' /\ RdatPartsDisjoint'
  BY DEF PartInv, RdatPartsDisjoint, Word
<1>4. ScanInv'
  BY DEF ScanInv, BitcodeOfPart, ExpectedCC, Word
<1> QED BY <1>1, <1>2, <1>3, <1>4

LEMMA InvMeansSound == CPInv => ContainerReadsSound
BY DEF CPInv, CPTypeOK, ContainerReadsSound, ReadsInsideBlob, DxbcTakesNoBitcode, ScanInv,
   BitcodeOfPart

\* Whatever a container holds, DXILContainerParser reads, maps and hands out
\* nothing but words of the blob, the names it hands out end inside of it, DXBC
\* code is recognised in whatever part it is, and the parts of runtime data that
\* it accepts follow one another.
THEOREM CPContainerReadsSound ==
  ASSUME WideOffsets
  PROVE  CPSpec => []ContainerReadsSound
<1>1. CPInit => CPInv
  BY InitInv
<1>2. CPInv /\ [CPNext]_cpVars => CPInv'
  <2> SUFFICES ASSUME CPInv, [CPNext]_cpVars PROVE CPInv'
    OBVIOUS
  <2>1. CASE UNCHANGED cpVars
    BY <2>1, StutterStep
  <2>2. CASE CPNext
    BY <2>2, HeaderStep, OffsetsStep, ScanStep, PartStep, ElementStep, RdatPartStep, RecordStep
       DEF CPNext
  <2> QED BY <2>1, <2>2
<1>3. CPInv => ContainerReadsSound
  BY InvMeansSound
<1> QED BY <1>1, <1>2, <1>3, PTL DEF CPSpec

-----------------------------------------------------------------------------
(* BitcodeModule.                                                          *)

Scopes == Nat \cup {NoValue}
Values == [scope : Scopes, n : Nat]
Proxies == [scope : {Forward}, n : Nat]
Operands == Values \cup Proxies \cup {NoValue}
Found == Values \cup Proxies

Instructions ==
  [kind : Kinds, scope : Nat, n : Nat, in : BOOLEAN, want : Nat, got : Operands]
Constants == [scope : Scopes, want : Nat, got : Found]
Finished == [function : Nat, table : Seq(Values), body : Seq(Instructions)]

BMTypeOK ==
  /\ reading \in {"module", "body", "failed"}
  /\ use_relative_id \in BOOLEAN /\ seen_first_function_body \in BOOLEAN
  /\ values \in Seq(Values) /\ global_values \in Seq(Values) /\ written \in Seq(Values)
  /\ pending_forward_references \subseteq Nat
  /\ functions_with_bodies \in Seq(Nat) /\ declared \in Seq(Nat)
  /\ function \in Scopes /\ blocks_left \in Scopes
  /\ instructions \in Seq(Instructions) /\ constants \in Seq(Constants)
  /\ global_initializations \in Seq(Nat)
  /\ initializers \in Seq([want : Nat, got : Values])
  /\ attached \in Seq([at : Nat, inst : Instructions])
  /\ module \in Seq(Finished)
  /\ records \in [all : Nat, here : Nat]

\* The module's part of a table.
Globals == IF seen_first_function_body THEN global_values ELSE written

StartsWithGlobals(table) ==
  /\ Len(Globals) <= Len(table)
  /\ \A i \in 1 .. Len(Globals) : table[i] = Globals[i]

\* The tables agree, and begin with the values of the module.
TableInv ==
  /\ TablesAgree
  /\ Len(Globals) <= MaxGlobals
  /\ Len(written) <= MaxGlobals + MaxArgs + records.all /\ records.all <= MaxRecords
  /\ \A i \in DOMAIN Globals : Globals[i].scope = NoValue
  /\ \A i \in DOMAIN written : i > Len(Globals) => written[i].scope \in Nat
  /\ StartsWithGlobals(values) /\ StartsWithGlobals(written)
  /\ reading = "body" => seen_first_function_body
  /\ reading = "module" => /\ instructions = << >> /\ attached = << >>
                           /\ values = Globals /\ written = Globals

\* Bodies are taken from the reader's list in the order of their declaration.
BodyInv ==
  /\ \A f \in DOMAIN module : f <= Len(declared) /\ module[f].function = declared[f]
  /\ ~ seen_first_function_body =>
       module = << >> /\ (reading # "failed" => functions_with_bodies = declared)
  /\ reading # "failed" /\ seen_first_function_body =>
       /\ Len(functions_with_bodies) =
            Len(declared) - Len(module) - (IF reading = "body" THEN 1 ELSE 0)
       /\ \A j \in 1 .. Len(functions_with_bodies) :
            functions_with_bodies[j] = declared[Len(declared) + 1 - j]
  /\ reading = "body" => Len(module) < Len(declared) /\ function = Writing

\* The instructions of the body that is read.
InstructionInv ==
  /\ \A i \in DOMAIN instructions :
       LET inst == instructions[i]
       IN  /\ inst.n = i /\ inst.scope = Writing
           /\ inst.got \in Proxies => inst.got.n \in pending_forward_references
  /\ reading = "body" => records.here = Len(instructions)
  /\ AttachedInBody

\* What the operands of this body are, if the tables agree.
OperandInv ==
  reading # "failed" /\ ~ LeftOut(instructions) =>
    \A i \in DOMAIN instructions :
      LET inst == instructions[i]
      IN  \/ inst.kind = "ret" /\ inst.got = NoValue
          \/ inst.got = Proxy(inst.want)
          \/ inst.want < Len(written) /\ inst.got = written[inst.want + 1]

\* Constants of the module are values of the module, or wait for the end of the
\* first body.
ConstantInv ==
  \A i \in DOMAIN constants :
    LET c == constants[i]
    IN  /\ c.got \in Proxies => c.got.n \in pending_forward_references
        /\ c.scope = NoValue =>
             \/ c.want < Len(Globals) /\ c.got = Globals[c.want + 1]
             \/ module = << >> /\ c.got = Proxy(c.want)
             \/ module # << >> /\ c.want >= Len(Globals)

InitializerInv ==
  initializers # << >> =>
    /\ seen_first_function_body
    /\ \A i \in DOMAIN initializers :
         initializers[i].want < Len(Globals) => initializers[i].got = Globals[initializers[i].want + 1]

BMInv ==
  /\ BMTypeOK /\ TableInv /\ BodyInv /\ InstructionInv /\ OperandInv /\ ConstantInv
  /\ InitializerInv /\ OperandsAsWritten

-----------------------------------------------------------------------------
(* Values and operands.                                                    *)

LEMMA Bounds ==
  /\ MaxGlobals \in Nat /\ MaxArgs \in Nat /\ MaxRecords \in Nat /\ MaxBlocks \in Nat
  /\ IdRange \in Nat \ {0} /\ SignBit \in Nat
  /\ MaxGlobals + MaxArgs + MaxRecords + 1 < IdRange /\ IdRange <= SignBit
BY BMBounds DEF BMBounds

LEMMA Kind ==
  /\ NoValue \notin Nat /\ Forward \notin Nat /\ NoValue # Forward
  /\ NoValue \notin Values /\ NoValue \notin Proxies
  /\ \A v \in Values : v \notin Proxies /\ v.scope # Forward
  /\ \A v \in Proxies : v.scope = Forward
<1>1. NoValue \notin [scope : Nat \cup {NoValue, Forward}, n : Nat]
  BY BMConstants DEF BMConstants
<1>2. NoValue \notin Values /\ NoValue \notin Proxies
  BY <1>1 DEF Values, Scopes, Proxies
<1> QED BY <1>2, BMConstants DEF BMConstants, Values, Scopes, Proxies

\* A function of the numbers up to n is a sequence.
LEMMA FunctionSeq ==
  ASSUME NEW S, NEW n \in Nat, NEW f \in [1 .. n -> S]
  PROVE  f \in Seq(S) /\ Len(f) = n /\ DOMAIN f = 1 .. n
OBVIOUS

LEMMA AppendSeq ==
  ASSUME NEW S, NEW s \in Seq(S), NEW e \in S
  PROVE  /\ Append(s, e) \in Seq(S) /\ Len(s) \in Nat
         /\ Len(Append(s, e)) = Len(s) + 1 /\ DOMAIN Append(s, e) = 1 .. Len(s) + 1
         /\ DOMAIN s = 1 .. Len(s)
         /\ \A i \in 1 .. Len(s) : Append(s, e)[i] = s[i]
         /\ Append(s, e)[Len(s) + 1] = e /\ Append(s, e) # << >>
OBVIOUS

\* What is decoded is a number.
LEMMA DecodeType ==
  ASSUME BMTypeOK, NEW kind, NEW op \in Nat
  PROVE  Decode(kind, op) \in Nat
<1>1. Len(values) \in Nat /\ use_relative_id \in BOOLEAN
  BY DEF BMTypeOK
<1>2. (Len(values) - op) % IdRange \in Nat
  BY <1>1, Bounds
<1>3. (Len(values) - DecodeSigned(op)) % (2 * SignBit) \in Nat
  <2>1. DecodeSigned(op) \in Int
    BY Bounds DEF DecodeSigned
  <2>2. Len(values) - DecodeSigned(op) \in Int /\ 2 * SignBit \in Nat \ {0}
    BY <1>1, <2>1, Bounds
  <2> QED BY <2>2
<1>4. CASE kind = "absolute" \/ use_relative_id = FALSE
  BY <1>4 DEF Decode
<1>5. CASE kind # "absolute" /\ use_relative_id = TRUE /\ kind = "phi"
  BY <1>3, <1>5 DEF Decode
<1>6. CASE kind # "absolute" /\ use_relative_id = TRUE /\ kind # "phi"
  BY <1>2, <1>6 DEF Decode
<1> QED BY <1>1, <1>4, <1>5, <1>6

\* And it is what was encoded if the next number is the same.
LEMMA DecodeEncode ==
  ASSUME BMTypeOK, NEW kind \in {"phi", "absolute", "relative"}, NEW id \in Nat,
         Len(values) = Len(written), id < IdRange, Len(written) < IdRange
  PROVE  Decode(kind, Encode(kind, id)) = id
<1> DEFINE next == Len(written)
<1>1. next \in Nat /\ Len(values) = next /\ use_relative_id \in BOOLEAN
  BY DEF BMTypeOK
<1> HIDE DEF next
<1>2. CASE kind = "absolute" \/ use_relative_id = FALSE
  BY <1>2 DEF Decode, Encode
<1>3. CASE kind = "relative" /\ use_relative_id = TRUE
  <2>1. Encode(kind, id) = (next - id) % IdRange
    BY <1>3 DEF Encode, next
  <2>2. (next - id) % IdRange = IF id <= next THEN next - id ELSE next - id + IdRange
    <3>1. CASE id <= next
      BY <1>1, <3>1, Bounds DEF next
    <3>2. CASE id > next
      <4>1. next - id + IdRange \in 0 .. IdRange - 1
        BY <1>1, <3>2, Bounds
      <4> QED BY <1>1, <3>2, <4>1, Bounds
    <3> QED BY <1>1, <3>1, <3>2
  <2>3. Decode(kind, Encode(kind, id)) = (next - Encode(kind, id)) % IdRange
    BY <1>1, <1>3 DEF Decode
  <2>4. CASE id <= next
    <3>1. next - Encode(kind, id) = id
      BY <1>1, <2>1, <2>2, <2>4
    <3> QED BY <2>3, <3>1, Bounds
  <2>5. CASE id > next
    <3>1. next - Encode(kind, id) = id - IdRange
      BY <1>1, <2>1, <2>2, <2>5, Bounds
    <3>2. (id - IdRange) % IdRange = id
      BY Bounds
    <3> QED BY <2>3, <3>1, <3>2
  <2> QED BY <1>1, <2>4, <2>5
<1>4. CASE kind = "phi" /\ use_relative_id = TRUE
  <2>1. Decode(kind, Encode(kind, id)) = (next - DecodeSigned(Encode(kind, id))) % (2 * SignBit)
    BY <1>1, <1>4 DEF Decode
  <2>2. CASE id <= next
    <3>1. Encode(kind, id) = 2 * (next - id)
      BY <1>1, <1>4, <2>2 DEF Encode, next
    <3>2. DecodeSigned(Encode(kind, id)) = next - id
      <4>1. (2 * (next - id)) % 2 = 0 /\ (2 * (next - id)) \div 2 = next - id
        BY <1>1, <2>2
      <4> QED BY <3>1, <4>1 DEF DecodeSigned
    <3>3. next - (next - id) = id /\ id \in 0 .. 2 * SignBit - 1
      BY <1>1, Bounds
    <3>4. id % (2 * SignBit) = id
      BY <3>3, Bounds
    <3> QED BY <2>1, <3>2, <3>3, <3>4
  <2>3. CASE id > next
    <3>1. Encode(kind, id) = 2 * (id - next) + 1
      BY <1>1, <1>4, <2>3 DEF Encode, next
    <3>2. DecodeSigned(Encode(kind, id)) = - (id - next)
      <4>1. /\ (2 * (id - next) + 1) % 2 = 1 /\ (2 * (id - next) + 1) \div 2 = id - next
            /\ 2 * (id - next) + 1 # 1
        BY <1>1, <2>3
      <4> QED BY <3>1, <4>1 DEF DecodeSigned
    <3>3. next - (- (id - next)) = id /\ id \in 0 .. 2 * SignBit - 1
      BY <1>1, Bounds
    <3>4. id % (2 * SignBit) = id
      BY <3>3, Bounds
    <3> QED BY <2>1, <3>2, <3>3, <3>4
  <2> QED BY <1>1, <2>2, <2>3
<1> QED BY <1>1, <1>2, <1>3, <1>4

\* A looked up operand.
LEMMA OperandType ==
  ASSUME BMTypeOK, NEW kind, NEW typed \in BOOLEAN, NEW op \in Nat
  PROVE  /\ Operand(kind, typed, op) \in Operands
         /\ typed => Operand(kind, typed, op) \in Found
         /\ References(Operand(kind, typed, op)) \subseteq Nat
         /\ pending_forward_references \subseteq References(Operand(kind, typed, op))
         /\ Operand(kind, typed, op) \in Proxies =>
              Operand(kind, typed, op).n \in References(Operand(kind, typed, op))
<1> DEFINE id == Decode(kind, op)
           operand == Operand(kind, typed, op)
<1>1. id \in Nat /\ values \in Seq(Values) /\ Len(values) \in Nat
      /\ pending_forward_references \subseteq Nat
  BY DecodeType, SMTT(30) DEF BMTypeOK
<1> HIDE DEF id
<1>2. CASE id < Len(values)
  <2>1. operand = values[id + 1] /\ values[id + 1] \in Values
    BY <1>1, <1>2 DEF Operand, id
  <2> QED BY <1>1, <2>1, Kind DEF Operands, Found, References
<1>3. CASE id >= Len(values) /\ typed
  <2>1. operand = Proxy(id)
    BY <1>1, <1>3 DEF Operand, id
  <2>2. Proxy(id) \in Proxies /\ Proxy(id).n = id /\ Proxy(id).scope = Forward
    BY <1>1 DEF Proxy, Value, Proxies
  <2> QED BY <1>1, <2>1, <2>2, Kind DEF Operands, Found, References
<1>4. CASE id >= Len(values) /\ ~ typed
  <2>1. operand = NoValue
    BY <1>1, <1>4 DEF Operand, id
  <2> QED BY <1>1, <1>4, <2>1, Kind DEF Operands, References
<1> QED BY <1>1, <1>2, <1>3, <1>4

\* If the tables agree it is the value that was meant, a proxy for it, or lost.
LEMMA OperandFound ==
  ASSUME BMTypeOK, NEW kind \in {"phi", "absolute", "relative"}, NEW typed \in BOOLEAN,
         NEW id \in Nat, values = written, id < IdRange, Len(written) < IdRange
  PROVE  \/ id < Len(written) /\ Operand(kind, typed, Encode(kind, id)) = written[id + 1]
         \/ id >= Len(written) /\ typed /\ Operand(kind, typed, Encode(kind, id)) = Proxy(id)
         \/ id >= Len(written) /\ ~ typed /\ Operand(kind, typed, Encode(kind, id)) = NoValue
<1>1. Decode(kind, Encode(kind, id)) = id /\ Len(values) \in Nat
  BY DecodeEncode DEF BMTypeOK
<1> QED BY <1>1 DEF Operand

-----------------------------------------------------------------------------
(* The invariant holds at first and when the reader gives up.              *)

LEMMA ReaderInitInv == BMInit => BMInv
<1> SUFFICES ASSUME BMInit PROVE BMInv
  OBVIOUS
<1> USE DEF BMInit
<1>1. BMTypeOK
  <2>1. << >> \in Seq([want : Nat, got : Values]) /\ << >> \in Seq([at : Nat, inst : Instructions])
    OBVIOUS
  <2>2. << >> \in Seq(Finished)
    OBVIOUS
  <2>3. << >> \in Seq(Values) /\ << >> \in Seq(Nat) /\ << >> \in Seq(Instructions)
        /\ << >> \in Seq(Constants)
    OBVIOUS
  <2>4. seen_first_function_body \in BOOLEAN /\ use_relative_id \in BOOLEAN
    OBVIOUS
  <2>5. records \in [all : Nat, here : Nat] /\ function \in Scopes /\ blocks_left \in Scopes
    BY DEF Scopes
  <2> QED BY <2>1, <2>2, <2>3, <2>4, <2>5 DEF BMTypeOK
<1>2. Globals = << >> /\ LeftOut(instructions) = FALSE
  BY DEF Globals, LeftOut
<1>3. TableInv
  BY <1>2, Bounds DEF TableInv, TablesAgree, StartsWithGlobals
<1>4. BodyInv /\ InstructionInv
  BY DEF BodyInv, InstructionInv, AttachedInBody
<1>5. OperandInv /\ ConstantInv /\ InitializerInv /\ OperandsAsWritten
  BY DEF OperandInv, ConstantInv, InitializerInv, OperandsAsWritten
<1> QED BY <1>1, <1>3, <1>4, <1>5 DEF BMInv

LEMMA ReaderFailStep ==
  ASSUME BMInv, FailModule
  PROVE  BMInv'
<1> USE DEF BMInv, FailModule, readerVars, writerVars
<1>1. BMTypeOK'
  BY DEF BMTypeOK
<1>2. TableInv'
  BY DEF TableInv, TablesAgree, StartsWithGlobals, Globals
<1>3. BodyInv'
  BY DEF BodyInv
<1>4. InstructionInv'
  BY DEF InstructionInv, AttachedInBody, Writing
<1>5. OperandInv' /\ ConstantInv' /\ InitializerInv' /\ OperandsAsWritten'
  BY DEF OperandInv, ConstantInv, InitializerInv, OperandsAsWritten, Globals, LeftOut
<1> QED BY <1>1, <1>2, <1>3, <1>4, <1>5

-----------------------------------------------------------------------------
(* Records at module scope.                                                *)

\* The tables after a record, whatever else it does.
LEMMA GlobalTables ==
  ASSUME BMInv, GlobalRecord,
         UNCHANGED <<reading, seen_first_function_body, instructions, attached, records>>
  PROVE  /\ values' \in Seq(Values) /\ written' \in Seq(Values) /\ written' = values'
         /\ Len(written') = Len(written) + 1
         /\ \A i \in 1 .. Len(written) : written'[i] = written[i]
         /\ Globals = written /\ Globals' = written'
         /\ TableInv'
<1> USE DEF BMInv
<1>1. /\ reading = "module" /\ seen_first_function_body = FALSE /\ Len(written) < MaxGlobals
      /\ values \in Seq(Values) /\ written \in Seq(Values) /\ values = written
      /\ instructions = << >> /\ attached = << >>
  BY DEF GlobalRecord, BMTypeOK, TableInv, Globals
<1>2. Globals = written /\ Globals' = written'
  BY <1>1 DEF Globals
<1> DEFINE v == Value(NoValue, Len(written))
<1>3. v \in Values /\ v.scope = NoValue
  BY <1>1 DEF Value, Values, Scopes
<1>4. values' = Append(written, v) /\ written' = Append(written, v)
  BY <1>1 DEF GlobalRecord
<1> HIDE DEF v
<1>5. /\ values' \in Seq(Values) /\ written' \in Seq(Values) /\ written' = values'
      /\ Len(written') = Len(written) + 1
      /\ \A i \in 1 .. Len(written) : written'[i] = written[i]
      /\ written'[Len(written) + 1] = v
  BY <1>1, <1>3, <1>4
<1>6. /\ Len(written) <= MaxGlobals + MaxArgs + records.all /\ records.all <= MaxRecords
      /\ records.all \in Nat
      /\ \A i \in DOMAIN written : written[i].scope = NoValue
  BY <1>2 DEF TableInv, BMTypeOK
<1>7. Len(written') <= MaxGlobals /\ Len(written') <= MaxGlobals + MaxArgs + records.all
  BY <1>1, <1>5, <1>6, Bounds
<1>8. \A i \in DOMAIN written' : written'[i].scope = NoValue
  BY <1>1, <1>3, <1>5, <1>6
<1>9. StartsWithGlobals(values)' /\ StartsWithGlobals(written)'
  BY <1>2, <1>5 DEF StartsWithGlobals
<1>10. \A i \in DOMAIN written' : ~ i > Len(written')
  BY <1>5
<1>11. TableInv'
  BY <1>1, <1>2, <1>5, <1>6, <1>7, <1>8, <1>9, <1>10 DEF TableInv, TablesAgree
<1> QED BY <1>2, <1>5, <1>11

\* What does not speak of the tables.
LEMMA GlobalRest ==
  ASSUME BMInv, GlobalRecord,
         UNCHANGED <<reading, seen_first_function_body, instructions, attached, records,
                     initializers, module>>
  PROVE  /\ InstructionInv' /\ OperandInv' /\ InitializerInv' /\ OperandsAsWritten'
         /\ module = << >> /\ reading = "module" /\ seen_first_function_body = FALSE
         /\ functions_with_bodies = declared
<1>1. /\ seen_first_function_body = FALSE /\ initializers = << >> /\ module = << >>
      /\ reading = "module" /\ instructions = << >> /\ attached = << >>
      /\ functions_with_bodies = declared
  BY DEF BMInv, GlobalRecord, BMTypeOK, TableInv, BodyInv, InitializerInv
<1>2. InstructionInv'
  BY <1>1 DEF InstructionInv, AttachedInBody
<1>3. OperandInv' /\ InitializerInv' /\ OperandsAsWritten'
  BY <1>1 DEF OperandInv, InitializerInv, OperandsAsWritten
<1> QED BY <1>1, <1>2, <1>3

\* The constants that were there.
LEMMA GlobalConstants ==
  ASSUME BMInv, GlobalRecord, module = << >>,
         UNCHANGED <<reading, seen_first_function_body, instructions, attached, records, module>>,
         pending_forward_references \subseteq pending_forward_references',
         NEW i \in DOMAIN constants
  PROVE  LET c == constants[i]
         IN  /\ c.got \in Proxies => c.got.n \in pending_forward_references'
             /\ c.scope = NoValue =>
                  \/ c.want < Len(Globals') /\ c.got = Globals'[c.want + 1]
                  \/ module' = << >> /\ c.got = Proxy(c.want)
<1> DEFINE c == constants[i]
<1>1. c \in Constants /\ Len(Globals) \in Nat
  BY GlobalTables DEF BMInv, BMTypeOK
<1>2. c.want \in Nat
  BY <1>1 DEF Constants
<1>3. /\ c.got \in Proxies => c.got.n \in pending_forward_references
      /\ c.scope = NoValue =>
           \/ c.want < Len(Globals) /\ c.got = Globals[c.want + 1]
           \/ c.got = Proxy(c.want)
  BY DEF BMInv, ConstantInv
<1> HIDE DEF c
<1>4. c.want < Len(Globals) => c.want < Len(Globals') /\ Globals'[c.want + 1] = Globals[c.want + 1]
  BY <1>1, <1>2, GlobalTables
<1> QED BY <1>3, <1>4 DEF c

LEMMA FunctionStep ==
  ASSUME BMInv, ParseFunctionRecord
  PROVE  BMInv'
<1> USE DEF BMInv
<1>1. /\ GlobalRecord
      /\ UNCHANGED <<reading, use_relative_id, global_values, seen_first_function_body, function,
                     records, pending_forward_references, blocks_left, instructions, constants,
                     global_initializations, initializers, attached, module>>
      /\ \/ UNCHANGED <<functions_with_bodies, declared>>
         \/ /\ functions_with_bodies' = Append(functions_with_bodies, Len(values))
            /\ declared' = Append(declared, Len(written))
  BY DEF ParseFunctionRecord
<1>2. /\ values' \in Seq(Values) /\ written' \in Seq(Values) /\ TableInv'
      /\ InstructionInv' /\ OperandInv' /\ InitializerInv' /\ OperandsAsWritten'
      /\ module = << >> /\ reading = "module" /\ seen_first_function_body = FALSE
      /\ functions_with_bodies = declared
  BY <1>1, GlobalTables, GlobalRest
<1>3. values = written /\ written \in Seq(Values)
  BY <1>2 DEF TableInv, BMTypeOK
<1>4. functions_with_bodies' = declared' /\ declared' \in Seq(Nat)
  <2>1. Len(written) \in Nat /\ declared \in Seq(Nat)
    BY <1>3 DEF BMTypeOK
  <2>2. CASE UNCHANGED <<functions_with_bodies, declared>>
    BY <1>2, <2>1, <2>2
  <2>3. CASE /\ functions_with_bodies' = Append(functions_with_bodies, Len(values))
             /\ declared' = Append(declared, Len(written))
    BY <1>2, <1>3, <2>1, <2>3
  <2> QED BY <1>1, <2>2, <2>3
<1>5. BMTypeOK'
  BY <1>1, <1>2, <1>4 DEF BMTypeOK
<1>6. BodyInv'
  BY <1>1, <1>2, <1>4 DEF BodyInv
<1>7. ConstantInv'
  BY <1>1, <1>2, GlobalConstants DEF ConstantInv
<1> QED BY <1>2, <1>5, <1>6, <1>7

LEMMA VariableStep ==
  ASSUME BMInv, ParseGlobalVariable
  PROVE  BMInv'
<1> USE DEF BMInv, readerVars
<1>1. PICK id \in 0 .. MaxGlobals - 1 :
        /\ GlobalRecord
        /\ global_initializations' = Append(global_initializations, id)
        /\ UNCHANGED <<reading, use_relative_id, global_values, functions_with_bodies,
                       seen_first_function_body, function, declared, records,
                       pending_forward_references, blocks_left, instructions, constants,
                       initializers, attached, module>>
  BY DEF ParseGlobalVariable
<1>2. /\ values' \in Seq(Values) /\ written' \in Seq(Values) /\ TableInv'
      /\ InstructionInv' /\ OperandInv' /\ InitializerInv' /\ OperandsAsWritten'
      /\ module = << >> /\ reading = "module" /\ seen_first_function_body = FALSE
      /\ functions_with_bodies = declared
  BY <1>1, GlobalTables, GlobalRest
<1>3. global_initializations' \in Seq(Nat)
  BY <1>1, Bounds DEF BMTypeOK
<1>4. BMTypeOK'
  BY <1>1, <1>2, <1>3 DEF BMTypeOK
<1>5. BodyInv'
  BY <1>1, <1>2 DEF BodyInv
<1>6. ConstantInv'
  BY <1>1, <1>2, GlobalConstants DEF ConstantInv
<1> QED BY <1>2, <1>4, <1>5, <1>6

LEMMA GlobalConstantStep ==
  ASSUME BMInv, ParseGlobalConstant
  PROVE  BMInv'
<1> USE DEF BMInv, readerVars
<1>1. PICK id \in 0 .. MaxGlobals - 1 :
        /\ GlobalRecord
        /\ LET operand == Operand("absolute", TRUE, Encode("absolute", id))
           IN  /\ constants' = Append(constants, [scope |-> NoValue, want |-> id, got |-> operand])
               /\ pending_forward_references' = References(operand)
        /\ UNCHANGED <<reading, use_relative_id, global_values, functions_with_bodies,
                       seen_first_function_body, function, declared, records, blocks_left,
                       instructions, global_initializations, attached, module, initializers>>
  BY DEF ParseGlobalConstant
<1> DEFINE operand == Operand("absolute", TRUE, Encode("absolute", id))
           c == [scope |-> NoValue, want |-> id, got |-> operand]
<1>2. /\ values' \in Seq(Values) /\ written' \in Seq(Values) /\ TableInv'
      /\ InstructionInv' /\ OperandInv' /\ InitializerInv' /\ OperandsAsWritten'
      /\ module = << >> /\ reading = "module" /\ seen_first_function_body = FALSE
      /\ functions_with_bodies = declared
  BY <1>1, GlobalTables, GlobalRest
<1>3. values = written /\ Globals = written /\ Len(written) \in Nat /\ Len(written) < MaxGlobals
  BY <1>1, <1>2 DEF TableInv, BMTypeOK, GlobalRecord, Globals
<1>4. id \in Nat /\ id < IdRange /\ Len(written) < IdRange /\ Encode("absolute", id) = id
  BY <1>1, <1>3, Bounds DEF Encode
<1>5. /\ operand \in Found
      /\ References(operand) \subseteq Nat
      /\ pending_forward_references \subseteq References(operand)
      /\ operand \in Proxies => operand.n \in References(operand)
  BY <1>4, OperandType
<1>6. \/ id < Len(written) /\ operand = written[id + 1]
      \/ operand = Proxy(id)
  BY <1>3, <1>4, OperandFound
<1> HIDE DEF operand
<1>7. c \in Constants
  BY <1>4, <1>5 DEF Constants, Scopes
<1>8. /\ c.got = operand /\ c.want = id /\ c.scope = NoValue
  OBVIOUS
<1>9. constants' = Append(constants, c) /\ pending_forward_references' = References(operand)
  BY <1>1 DEF operand
<1> HIDE DEF c
<1>10. constants \in Seq(Constants)
  BY DEF BMTypeOK
<1>11. /\ constants' \in Seq(Constants) /\ DOMAIN constants' = 1 .. Len(constants) + 1
       /\ \A i \in DOMAIN constants : constants'[i] = constants[i]
       /\ constants'[Len(constants) + 1] = c
  BY <1>7, <1>9, <1>10
<1>12. BMTypeOK'
  BY <1>1, <1>2, <1>5, <1>9, <1>11 DEF BMTypeOK
<1>13. BodyInv'
  BY <1>1, <1>2 DEF BodyInv
<1>14. ConstantInv'
  <2> SUFFICES ASSUME NEW i \in DOMAIN constants'
               PROVE  LET d == constants'[i]
                      IN  /\ d.got \in Proxies => d.got.n \in pending_forward_references'
                          /\ d.scope = NoValue =>
                               \/ d.want < Len(Globals') /\ d.got = Globals'[d.want + 1]
                               \/ module' = << >> /\ d.got = Proxy(d.want)
    BY DEF ConstantInv
  <2>1. CASE i \in DOMAIN constants
    <3>1. constants'[i] = constants[i] /\ pending_forward_references \subseteq pending_forward_references'
      BY <1>5, <1>9, <1>11, <2>1
    <3> QED BY <1>1, <1>2, <2>1, <3>1, GlobalConstants
  <2>2. CASE i = Len(constants) + 1
    <3>1. id < Len(written) => id < Len(Globals') /\ Globals'[id + 1] = written[id + 1]
      BY <1>1, <1>3, <1>4, GlobalTables
    <3>2. constants'[i] = c /\ module' = << >>
      BY <1>1, <1>2, <1>11, <2>2
    <3> QED BY <1>5, <1>6, <1>8, <1>9, <3>1, <3>2
  <2> QED BY <1>10, <1>11, <2>1, <2>2
<1> QED BY <1>2, <1>12, <1>13, <1>14

-----------------------------------------------------------------------------
(* The records of a body.                                                  *)

LEMMA DeclareStep ==
  ASSUME BMInv, DeclareBlocks
  PROVE  BMInv'
<1> USE DEF BMInv, DeclareBlocks, readerVars, writerVars
<1>1. blocks_left' \in Scopes
  BY Bounds DEF Scopes
<1>2. BMTypeOK'
  BY <1>1 DEF BMTypeOK
<1>3. TableInv'
  BY DEF TableInv, TablesAgree, StartsWithGlobals, Globals
<1>4. BodyInv'
  BY DEF BodyInv, Writing
<1>5. InstructionInv'
  BY DEF InstructionInv, AttachedInBody, Writing
<1>6. OperandInv' /\ ConstantInv' /\ InitializerInv' /\ OperandsAsWritten'
  BY DEF OperandInv, ConstantInv, InitializerInv, OperandsAsWritten, Globals, LeftOut
<1> QED BY <1>2, <1>3, <1>4, <1>5, <1>6

LEMMA AttachmentStep ==
  ASSUME BMInv, ParseAttachment
  PROVE  BMInv'
<1> USE DEF BMInv, ParseAttachment, readerVars, writerVars
<1> DEFINE n == records.here
<1>1. /\ n = Len(instructions) /\ n > 0 /\ n \in Nat
      /\ instructions \in Seq(Instructions)
      /\ attached' = <<[at |-> n, inst |-> instructions[n]]>>
  BY DEF InstructionInv, BMTypeOK
<1>2. n \in DOMAIN instructions /\ instructions[n] \in Instructions
      /\ instructions[n].n = n /\ instructions[n].scope = Writing
  BY <1>1 DEF InstructionInv
<1> HIDE DEF n
<1>3. attached' \in Seq([at : Nat, inst : Instructions])
  BY <1>1, <1>2
<1>4. BMTypeOK'
  BY <1>3 DEF BMTypeOK
<1>5. TableInv'
  BY DEF TableInv, TablesAgree, StartsWithGlobals, Globals
<1>6. BodyInv'
  BY DEF BodyInv, Writing
<1>7. AttachedInBody'
  BY <1>1, <1>2 DEF AttachedInBody, Writing
<1>8. InstructionInv'
  BY <1>7 DEF InstructionInv, Writing
<1>9. OperandInv' /\ ConstantInv' /\ InitializerInv' /\ OperandsAsWritten'
  BY DEF OperandInv, ConstantInv, InitializerInv, OperandsAsWritten, Globals, LeftOut
<1> QED BY <1>4, <1>5, <1>6, <1>8, <1>9

\* What is written for an operand is a number.
LEMMA EncodeType ==
  ASSUME BMTypeOK, NEW kind, NEW id \in Nat
  PROVE  Encode(kind, id) \in Nat
<1>1. Len(written) \in Nat /\ use_relative_id \in BOOLEAN
  BY DEF BMTypeOK
<1>2. (Len(written) - id) % IdRange \in Nat
  BY <1>1, Bounds
<1>3. CASE kind = "absolute" \/ use_relative_id = FALSE
  BY <1>3 DEF Encode
<1>4. CASE kind # "absolute" /\ use_relative_id = TRUE
  BY <1>1, <1>2, <1>4 DEF Encode
<1> QED BY <1>1, <1>3, <1>4

\* In a body, the next value is one of the function that is written.
LEMMA InBody ==
  ASSUME BMInv, reading = "body"
  PROVE  /\ function = Writing /\ function \in Nat /\ Len(module) < Len(declared)
         /\ seen_first_function_body = TRUE /\ Globals = global_values
         /\ Len(values) \in Nat /\ Len(written) \in Nat /\ Len(Globals) \in Nat
         /\ Len(written) + 1 + (MaxRecords - records.all) < IdRange
         /\ records.all \in Nat /\ records.all <= MaxRecords
<1>1. /\ function = Writing /\ Len(module) < Len(declared) /\ seen_first_function_body = TRUE
      /\ Len(written) <= MaxGlobals + MaxArgs + records.all /\ records.all <= MaxRecords
  BY DEF BMInv, BMTypeOK, BodyInv, TableInv
<1>2. /\ declared \in Seq(Nat) /\ Len(module) \in Nat /\ records.all \in Nat
      /\ Len(values) \in Nat /\ Len(written) \in Nat /\ Len(global_values) \in Nat
  BY DEF BMInv, BMTypeOK
<1>3. Writing \in Nat
  BY <1>1, <1>2 DEF Writing
<1>4. Globals = global_values
  BY <1>1 DEF Globals
<1> QED BY <1>1, <1>2, <1>3, <1>4, Bounds, SMTT(30)

\* A table with one more value of a function, or none.
LEMMA AddedTable ==
  ASSUME NEW table \in Seq(Values), NEW after, NEW scope \in Nat,
         after = table \/ after = Append(table, Value(scope, Len(table) + 1))
  PROVE  /\ after \in Seq(Values)
         /\ Len(after) \in Len(table) .. Len(table) + 1
         /\ \A i \in 1 .. Len(table) : after[i] = table[i]
         /\ \A i \in 1 .. Len(after) : i <= Len(table) \/ after[i].scope = scope
<1> DEFINE v == Value(scope, Len(table) + 1)
<1>1. v \in Values /\ v.scope = scope /\ Len(table) \in Nat
  BY DEF Value, Values, Scopes
<1> HIDE DEF v
<1>2. CASE after = table
  BY <1>1, <1>2
<1>3. CASE after = Append(table, v)
  BY <1>1, <1>3
<1> QED BY <1>2, <1>3 DEF v

\* The tables after a record in a body.
LEMMA BodyTables ==
  ASSUME BMInv, reading = "body", records.all < MaxRecords,
         UNCHANGED <<reading, seen_first_function_body, global_values, function, declared, module>>,
         values' = values \/ values' = Append(values, Value(function, Len(values) + 1)),
         written' = written \/ written' = Append(written, Value(Writing, Len(written) + 1)),
         records'.all = records.all + 1,
         TablesAgree'
  PROVE  /\ values' \in Seq(Values) /\ written' \in Seq(Values)
         /\ Len(written') \in Nat /\ Len(written) <= Len(written')
         /\ \A i \in 1 .. Len(written) : written'[i] = written[i]
         /\ Globals' = Globals /\ TableInv'
<1>1. values \in Seq(Values) /\ written \in Seq(Values)
  BY DEF BMInv, BMTypeOK
<1>2. /\ Globals' = Globals /\ Len(Globals) \in Nat /\ seen_first_function_body = TRUE
      /\ Len(written) \in Nat /\ Len(values) \in Nat
  BY InBody DEF Globals
<1>3. /\ values' \in Seq(Values) /\ Len(values') \in Len(values) .. Len(values) + 1
      /\ \A i \in 1 .. Len(values) : values'[i] = values[i]
  BY <1>1, InBody, AddedTable
<1>4. /\ written' \in Seq(Values) /\ Len(written') \in Len(written) .. Len(written) + 1
      /\ \A i \in 1 .. Len(written) : written'[i] = written[i]
      /\ \A i \in 1 .. Len(written') : i <= Len(written) \/ written'[i].scope = Writing
  BY <1>1, InBody, AddedTable
<1>5. /\ Len(Globals) <= MaxGlobals /\ Len(written) <= MaxGlobals + MaxArgs + records.all
      /\ \A i \in DOMAIN Globals : Globals[i].scope = NoValue
      /\ \A i \in DOMAIN written : i > Len(Globals) => written[i].scope \in Nat
      /\ StartsWithGlobals(values) /\ StartsWithGlobals(written) /\ records.all \in Nat
  BY DEF BMInv, TableInv, BMTypeOK
<1>6. Len(written') <= MaxGlobals + MaxArgs + records'.all /\ records'.all <= MaxRecords
  BY <1>2, <1>4, <1>5, Bounds
<1>7. StartsWithGlobals(values)'
  BY <1>2, <1>3, <1>5 DEF StartsWithGlobals
<1>8. StartsWithGlobals(written)'
  BY <1>2, <1>4, <1>5 DEF StartsWithGlobals
<1>9. \A i \in DOMAIN written' : i > Len(Globals) => written'[i].scope \in Nat
  BY <1>1, <1>2, <1>4, <1>5, InBody, SMTT(30)
<1>10. TableInv'
  BY <1>2, <1>5, <1>6, <1>7, <1>8, <1>9 DEF TableInv
<1> QED BY <1>2, <1>3, <1>4, <1>10

\* What a record in a body leaves alone.
LEMMA BodyRest ==
  ASSUME BMInv, reading = "body", Globals' = Globals, UNCHANGED readerVars,
         UNCHANGED <<reading, declared, global_initializations, initializers, attached, module>>
  PROVE  BodyInv' /\ InitializerInv' /\ OperandsAsWritten' /\ AttachedInBody'
<1> USE DEF BMInv, readerVars
<1>1. BodyInv'
  BY DEF BodyInv, Writing
<1>2. InitializerInv' /\ OperandsAsWritten'
  BY DEF InitializerInv, OperandsAsWritten
<1>3. AttachedInBody'
  BY DEF InstructionInv, AttachedInBody, Writing
<1> QED BY <1>1, <1>2, <1>3

\* The constants that were there.
LEMMA BodyConstants ==
  ASSUME BMInv, Globals' = Globals, UNCHANGED module,
         pending_forward_references \subseteq pending_forward_references',
         NEW i \in DOMAIN constants
  PROVE  LET c == constants[i]
         IN  /\ c.got \in Proxies => c.got.n \in pending_forward_references'
             /\ c.scope = NoValue =>
                  \/ c.want < Len(Globals') /\ c.got = Globals'[c.want + 1]
                  \/ module' = << >> /\ c.got = Proxy(c.want)
                  \/ module' # << >> /\ c.want >= Len(Globals')
BY DEF BMInv, ConstantInv

LEMMA ConstantStep ==
  ASSUME BMInv, ParseConstant
  PROVE  BMInv'
<1> USE DEF BMInv
<1>1. PICK id \in 0 .. Len(written) + 1 :
        LET operand == Operand("absolute", TRUE, Encode("absolute", id))
        IN  /\ constants' = Append(constants, [scope |-> function, want |-> id, got |-> operand])
            /\ pending_forward_references' = References(operand)
  BY DEF ParseConstant
<1>2. /\ reading = "body" /\ records.all < MaxRecords /\ instructions = << >>
      /\ values' = Append(values, Value(function, Len(values) + 1))
      /\ written' = Append(written, Value(Writing, Len(written) + 1))
      /\ records' = [records EXCEPT !.all = @ + 1]
      /\ UNCHANGED readerVars
      /\ UNCHANGED <<reading, declared, blocks_left, instructions, global_initializations,
                     initializers, attached, module>>
  BY DEF ParseConstant
<1> DEFINE operand == Operand("absolute", TRUE, Encode("absolute", id))
           c == [scope |-> function, want |-> id, got |-> operand]
<1>3. function = Writing /\ function \in Nat /\ id \in Nat
  BY <1>2, InBody
<1>4. /\ operand \in Found
      /\ References(operand) \subseteq Nat
      /\ pending_forward_references \subseteq References(operand)
      /\ operand \in Proxies => operand.n \in References(operand)
  BY <1>3, EncodeType, OperandType
<1>5. constants' = Append(constants, c) /\ pending_forward_references' = References(operand)
  BY <1>1
<1> HIDE DEF operand
<1>6. c \in Constants /\ c.got = operand /\ c.scope = function
  BY <1>3, <1>4 DEF Constants, Scopes
<1> HIDE DEF c
<1>7. constants \in Seq(Constants) /\ records \in [all : Nat, here : Nat]
  BY DEF BMTypeOK
<1>8. /\ constants' \in Seq(Constants) /\ DOMAIN constants' = 1 .. Len(constants) + 1
      /\ \A i \in DOMAIN constants : constants'[i] = constants[i]
      /\ constants'[Len(constants) + 1] = c
  BY <1>5, <1>6, <1>7
<1>9. TablesAgree'
  <2>1. LeftOut(instructions) = FALSE
    BY <1>2 DEF LeftOut
  <2>2. values = written
    BY <1>2, <2>1 DEF TableInv, TablesAgree
  <2> QED BY <1>2, <1>3, <2>2 DEF TablesAgree
<1>10. /\ records' \in [all : Nat, here : Nat] /\ records'.all = records.all + 1
       /\ records'.here = records.here
  BY <1>2, <1>7
<1>11. values' \in Seq(Values) /\ written' \in Seq(Values) /\ Globals' = Globals /\ TableInv'
  BY <1>2, <1>9, <1>10, BodyTables DEF readerVars
<1>12. BMTypeOK'
  BY <1>2, <1>4, <1>5, <1>8, <1>10, <1>11 DEF BMTypeOK, readerVars
<1>13. BodyInv' /\ InitializerInv' /\ OperandsAsWritten' /\ AttachedInBody'
  BY <1>2, <1>11, BodyRest
<1>14. InstructionInv' /\ OperandInv'
  BY <1>2, <1>10, <1>13 DEF InstructionInv, OperandInv
<1>15. ConstantInv'
  <2> SUFFICES ASSUME NEW i \in DOMAIN constants'
               PROVE  LET d == constants'[i]
                      IN  /\ d.got \in Proxies => d.got.n \in pending_forward_references'
                          /\ d.scope = NoValue =>
                               \/ d.want < Len(Globals') /\ d.got = Globals'[d.want + 1]
                               \/ module' = << >> /\ d.got = Proxy(d.want)
                               \/ module' # << >> /\ d.want >= Len(Globals')
    BY DEF ConstantInv
  <2>1. CASE i \in DOMAIN constants
    BY <1>2, <1>4, <1>5, <1>8, <1>11, <2>1, BodyConstants
  <2>2. CASE i = Len(constants) + 1
    BY <1>3, <1>4, <1>5, <1>6, <1>8, <2>2, Kind
  <2> QED BY <1>7, <1>8, <2>1, <2>2
<1> QED BY <1>11, <1>12, <1>13, <1>14, <1>15

LEMMA InstructionStep ==
  ASSUME BMInv, ParseInstruction
  PROVE  BMInv'
<1> USE DEF BMInv
<1>1. PICK kind \in Kinds, id \in 0 .. Len(written) + 1 :
        LET operand == Operand(Reference(kind), HasType(kind), Encode(Reference(kind), id))
        IN  IF (operand = NoValue /\ kind # "ret") \/ (~ InBlock /\ kind # "load") THEN FailModule
            ELSE /\ instructions' = Append(instructions, [kind |-> kind, scope |-> function, n |-> records.here + 1,
                                                     in |-> InBlock, want |-> id, got |-> operand])
                 /\ pending_forward_references' = References(operand)
                 /\ blocks_left' = IF kind \in Terminators THEN blocks_left - 1 ELSE blocks_left
                 /\ values' = IF IsNumbered(kind) /\ InBlock
                                THEN Append(values, Value(function, Len(values) + 1)) ELSE values
                 /\ written' = IF kind \in Terminators \cup {"void"} THEN written
                               ELSE Append(written, Value(Writing, Len(written) + 1))
                 /\ records' = [all |-> records.all + 1, here |-> records.here + 1]
                 /\ UNCHANGED <<reading, readerVars, declared, constants, global_initializations, initializers,
                                attached, module>>
  BY DEF ParseInstruction
<1>2. reading = "body" /\ records.all < MaxRecords
  BY DEF ParseInstruction
<1> DEFINE operand == Operand(Reference(kind), HasType(kind), Encode(Reference(kind), id))
           inst == [kind |-> kind, scope |-> function, n |-> records.here + 1,
                    in |-> InBlock, want |-> id, got |-> operand]
<1>3. CASE FailModule
  BY <1>3, ReaderFailStep
<1>4. CASE ~ ((operand = NoValue /\ kind # "ret") \/ (~ InBlock /\ kind # "load"))
  <2>1. /\ instructions' = Append(instructions, inst)
        /\ pending_forward_references' = References(operand)
        /\ blocks_left' = IF kind \in Terminators THEN blocks_left - 1 ELSE blocks_left
        /\ values' = IF IsNumbered(kind) /\ InBlock
                       THEN Append(values, Value(function, Len(values) + 1)) ELSE values
        /\ written' = IF kind \in Terminators \cup {"void"} THEN written
                      ELSE Append(written, Value(Writing, Len(written) + 1))
        /\ records' = [all |-> records.all + 1, here |-> records.here + 1]
        /\ UNCHANGED readerVars
        /\ UNCHANGED <<reading, declared, constants, global_initializations, initializers,
                       attached, module>>
    BY <1>1, <1>4
  <2>2. /\ operand = NoValue => kind = "ret"
        /\ InBlock \/ kind = "load"
    BY <1>4
  <2>3. /\ function = Writing /\ function \in Nat /\ id \in Nat /\ id < IdRange
        /\ Len(written) < IdRange /\ Len(written) \in Nat
    BY <1>2, InBody, Bounds, SMTT(30)
  <2>4. /\ Reference(kind) \in {"phi", "absolute", "relative"} /\ HasType(kind) \in BOOLEAN
        /\ InBlock \in BOOLEAN
    BY DEF Reference, HasType, InBlock
  <2>5. /\ operand \in Operands
        /\ References(operand) \subseteq Nat
        /\ pending_forward_references \subseteq References(operand)
        /\ operand \in Proxies => operand.n \in References(operand)
    BY <2>3, <2>4, EncodeType, OperandType
  <2>6. values = written =>
          \/ id < Len(written) /\ operand = written[id + 1]
          \/ operand = Proxy(id)
          \/ operand = NoValue
    BY <2>3, <2>4, OperandFound
  <2> HIDE DEF operand
  <2>7. /\ inst.kind = kind /\ inst.scope = function /\ inst.n = records.here + 1
        /\ inst.in = InBlock /\ inst.want = id /\ inst.got = operand
    OBVIOUS
  <2>8. /\ instructions \in Seq(Instructions) /\ records \in [all : Nat, here : Nat]
        /\ records.here = Len(instructions) /\ records.all \in Nat /\ records.here \in Nat
    BY <1>2 DEF BMTypeOK, InstructionInv
  <2>9. inst \in Instructions
    BY <2>3, <2>4, <2>5, <2>8 DEF Instructions
  <2> HIDE DEF inst
  <2>10. /\ instructions' \in Seq(Instructions) /\ DOMAIN instructions' = 1 .. Len(instructions) + 1
         /\ Len(instructions') = Len(instructions) + 1
         /\ \A i \in DOMAIN instructions : instructions'[i] = instructions[i]
         /\ DOMAIN instructions = 1 .. Len(instructions)
         /\ instructions'[Len(instructions) + 1] = inst
    BY <2>1, <2>8, <2>9
  <2>11. /\ records' \in [all : Nat, here : Nat] /\ records'.all = records.all + 1
         /\ records'.here = Len(instructions')
    BY <2>1, <2>8, <2>10
  <2>12. LeftOut(instructions') <=> LeftOut(instructions) \/ ~ InBlock
    BY <2>7, <2>8, <2>10 DEF LeftOut
  <2>13. ~ LeftOut(instructions) => values = written
    BY <1>2 DEF TableInv, TablesAgree
  <2>14. TablesAgree'
    <3>1. CASE LeftOut(instructions) \/ ~ InBlock
      BY <2>12, <3>1 DEF TablesAgree
    <3>2. CASE ~ LeftOut(instructions) /\ InBlock
      <4>1. IsNumbered(kind) <=> kind \notin Terminators \cup {"void"}
        BY DEF IsNumbered
      <4>2. values' = written'
        BY <2>1, <2>3, <2>13, <3>2, <4>1
      <4> QED BY <4>2 DEF TablesAgree
    <3> QED BY <3>1, <3>2
  <2>15. /\ values' = values \/ values' = Append(values, Value(function, Len(values) + 1))
         /\ written' = written \/ written' = Append(written, Value(Writing, Len(written) + 1))
    BY <2>1
  <2>16. /\ values' \in Seq(Values) /\ written' \in Seq(Values) /\ Globals' = Globals /\ TableInv'
         /\ Len(written') \in Nat /\ Len(written) <= Len(written')
         /\ \A i \in 1 .. Len(written) : written'[i] = written[i]
    BY <1>2, <2>1, <2>11, <2>14, <2>15, BodyTables DEF readerVars
  <2>17. blocks_left' \in Scopes
    <3>1. blocks_left \in Scopes
      BY DEF BMTypeOK
    <3>2. CASE kind \in Terminators
      <4>1. blocks_left \in Nat /\ blocks_left # 0
        BY <2>2, <3>1, <3>2 DEF InBlock, Scopes, Terminators
      <4>2. blocks_left - 1 \in Nat
        BY <4>1
      <4> QED BY <2>1, <3>2, <4>2 DEF Scopes
    <3>3. CASE kind \notin Terminators
      BY <2>1, <3>1, <3>3
    <3> QED BY <3>2, <3>3
  <2>18. BMTypeOK'
    BY <2>1, <2>5, <2>10, <2>11, <2>16, <2>17 DEF BMTypeOK, readerVars
  <2>19. BodyInv' /\ InitializerInv' /\ OperandsAsWritten' /\ AttachedInBody'
    BY <1>2, <2>1, <2>16, BodyRest
  <2>20. InstructionInv'
    <3>1. Writing' = Writing
      BY <2>1 DEF Writing
    <3>2. ASSUME NEW i \in DOMAIN instructions'
          PROVE  /\ instructions'[i].n = i /\ instructions'[i].scope = Writing
                 /\ instructions'[i].got \in Proxies =>
                      instructions'[i].got.n \in pending_forward_references'
      <4>1. CASE i \in DOMAIN instructions
        BY <2>1, <2>5, <2>10, <4>1 DEF InstructionInv
      <4>2. CASE i = Len(instructions) + 1
        BY <2>1, <2>3, <2>5, <2>7, <2>8, <2>10, <4>2
      <4> QED BY <2>8, <2>10, <4>1, <4>2
    <3> QED BY <2>11, <2>19, <3>1, <3>2 DEF InstructionInv
  <2>21. OperandInv'
    <3> SUFFICES ASSUME ~ LeftOut(instructions'), NEW i \in DOMAIN instructions'
                 PROVE  LET x == instructions'[i]
                        IN  \/ x.kind = "ret" /\ x.got = NoValue
                            \/ x.got = Proxy(x.want)
                            \/ x.want < Len(written') /\ x.got = written'[x.want + 1]
      BY DEF OperandInv
    <3>1. ~ LeftOut(instructions) /\ values = written
      BY <2>12, <2>13
    <3>2. CASE i \in DOMAIN instructions
      <4> DEFINE x == instructions[i]
      <4>0. x \in Instructions
        BY <2>8, <2>10, <3>2
      <4>1. instructions'[i] = x /\ x.want \in Nat
        BY <2>10, <3>2, <4>0 DEF Instructions
      <4>2. \/ x.kind = "ret" /\ x.got = NoValue
            \/ x.got = Proxy(x.want)
            \/ x.want < Len(written) /\ x.got = written[x.want + 1]
        BY <1>2, <3>1, <3>2 DEF OperandInv
      <4> HIDE DEF x
      <4>3. ASSUME x.want < Len(written)
            PROVE  x.want < Len(written') /\ written'[x.want + 1] = written[x.want + 1]
        <5>1. PICK w \in Nat : w = x.want
          BY <4>1
        <5>2. w < Len(written') /\ w + 1 \in 1 .. Len(written)
          BY <2>3, <2>16, <4>3, <5>1
        <5>3. written'[w + 1] = written[w + 1]
          BY <2>16, <5>2
        <5> QED BY <5>1, <5>2, <5>3
      <4> QED BY <4>1, <4>2, <4>3
    <3>3. CASE i = Len(instructions) + 1
      <4>1. instructions'[i] = inst
        BY <2>10, <3>3
      <4>2. id < Len(written) => id < Len(written') /\ written'[id + 1] = written[id + 1]
        BY <2>3, <2>16
      <4> QED BY <2>2, <2>6, <2>7, <3>1, <4>1, <4>2
    <3> QED BY <2>8, <2>10, <3>2, <3>3
  <2>22. ConstantInv'
    <3>1. pending_forward_references \subseteq pending_forward_references'
      BY <2>1, <2>5
    <3> QED BY <2>1, <2>16, <3>1, BodyConstants DEF ConstantInv
  <2> QED BY <2>16, <2>18, <2>19, <2>20, <2>21, <2>22
<1> QED BY <1>1, <1>3, <1>4

-----------------------------------------------------------------------------
(* Where a body begins.                                                    *)

\* A list without its last element.
LEMMA FrontAndLast ==
  ASSUME NEW n \in Nat, n > 0, NEW fs \in [1 .. n -> Nat]
  PROVE  /\ fs \in Seq(Nat) /\ Len(fs) = n /\ fs # << >> /\ Last(fs) = fs[n]
         /\ Front(fs) \in Seq(Nat) /\ Len(Front(fs)) = n - 1
         /\ \A j \in 1 .. n - 1 : Front(fs)[j] = fs[j]
<1>1. fs \in Seq(Nat) /\ Len(fs) = n
  BY FunctionSeq
<1>2. fs # << >> /\ Last(fs) = fs[n] /\ Front(fs) = SubSeq(fs, 1, n - 1)
  BY <1>1 DEF Last, Front
<1>3. /\ SubSeq(fs, 1, n - 1) \in Seq(Nat) /\ Len(SubSeq(fs, 1, n - 1)) = n - 1
      /\ \A j \in 1 .. n - 1 : SubSeq(fs, 1, n - 1)[j] = fs[j]
  OBVIOUS
<1> QED BY <1>1, <1>2, <1>3

\* The next body of the list is the one that was declared first of those left.
LEMMA NextBody ==
  ASSUME BMInv, reading = "module", Len(module) < Len(declared), NEW fs,
         fs = IF seen_first_function_body THEN functions_with_bodies
              ELSE FirstLast(functions_with_bodies)
  PROVE  /\ fs \in Seq(Nat) /\ fs # << >> /\ Last(fs) = Writing /\ Front(fs) \in Seq(Nat)
         /\ Len(Front(fs)) = Len(declared) - Len(module) - 1
         /\ \A j \in 1 .. Len(Front(fs)) : Front(fs)[j] = declared[Len(declared) + 1 - j]
<1>1. /\ declared \in Seq(Nat) /\ functions_with_bodies \in Seq(Nat)
      /\ Len(module) \in Nat /\ Len(declared) \in Nat /\ seen_first_function_body \in BOOLEAN
  BY SMTT(30) DEF BMInv, BMTypeOK
<1> DEFINE n == Len(declared) - Len(module)
           Backwards == [j \in 1 .. n |-> declared[Len(declared) + 1 - j]]
<1>2. n \in Nat /\ n > 0 /\ Len(declared) + 1 - n = Len(module) + 1
  BY <1>1
<1>3. Backwards \in [1 .. n -> Nat]
  BY <1>1
<1>4. fs = Backwards
  <2>1. CASE seen_first_function_body = TRUE
    <3>1. /\ Len(functions_with_bodies) = n /\ fs = functions_with_bodies
          /\ \A j \in 1 .. n : functions_with_bodies[j] = declared[Len(declared) + 1 - j]
      BY <1>1, <2>1 DEF BMInv, BodyInv
    <3>2. functions_with_bodies = [j \in 1 .. Len(functions_with_bodies) |-> functions_with_bodies[j]]
      BY <1>1
    <3> HIDE DEF n
    <3> QED BY <3>1, <3>2
  <2>2. CASE seen_first_function_body = FALSE
    <3>1. module = << >> /\ functions_with_bodies = declared
      BY <2>2 DEF BMInv, BodyInv
    <3>2. fs = [i \in 1 .. Len(declared) |-> declared[(Len(declared) - i) + 1]]
      BY <2>2, <3>1 DEF FirstLast, Reverse
    <3>3. n = Len(declared)
      BY <1>1, <3>1
    <3>4. \A i \in 1 .. Len(declared) : (Len(declared) - i) + 1 = Len(declared) + 1 - i
      BY <1>1
    <3> HIDE DEF n
    <3> QED BY <3>2, <3>3, <3>4
  <2> QED BY <1>1, <2>1, <2>2
<1> DEFINE list == Backwards
<1>5. /\ list \in [1 .. n -> Nat]
      /\ \A j \in 1 .. n : list[j] = declared[Len(declared) + 1 - j]
  BY <1>3
<1> HIDE DEF Backwards, list, n
<1>6. /\ list \in Seq(Nat) /\ list # << >> /\ Last(list) = list[n]
      /\ Front(list) \in Seq(Nat) /\ Len(Front(list)) = n - 1
      /\ \A j \in 1 .. n - 1 : Front(list)[j] = list[j]
  BY <1>2, <1>5, FrontAndLast
<1>7. list[n] = Writing /\ \A j \in 1 .. n - 1 : list[j] = declared[Len(declared) + 1 - j]
  BY <1>2, <1>5 DEF Writing
<1> QED BY <1>4, <1>6, <1>7 DEF list, n

\* A table with the arguments of a function.
WithArguments(table, args, scope) ==
  table \o [i \in 1 .. args |-> Value(scope, Len(table) + i)]

LEMMA TableWithArguments ==
  ASSUME NEW table \in Seq(Values), NEW args \in Nat, NEW scope \in Nat, NEW after,
         after = WithArguments(table, args, scope)
  PROVE  /\ after \in Seq(Values) /\ Len(after) = Len(table) + args
         /\ \A i \in 1 .. Len(table) : after[i] = table[i]
         /\ \A i \in 1 .. Len(after) : i > Len(table) => after[i].scope = scope
<1> DEFINE arguments == [i \in 1 .. args |-> Value(scope, Len(table) + i)]
<1>1. /\ Len(table) \in Nat
      /\ \A i \in 1 .. args : Value(scope, Len(table) + i) \in Values
      /\ \A i \in 1 .. args : Value(scope, Len(table) + i).scope = scope
  BY DEF Value, Values, Scopes
<1>2. /\ arguments \in [1 .. args -> Values]
      /\ \A i \in 1 .. args : arguments[i].scope = scope
  BY <1>1
<1>3. after = table \o arguments
  BY DEF WithArguments
<1> HIDE DEF arguments
<1>4. arguments \in Seq(Values) /\ Len(arguments) = args
  BY <1>2, FunctionSeq
<1>5. /\ after \in Seq(Values) /\ Len(after) = Len(table) + args
      /\ \A i \in 1 .. Len(table) : after[i] = table[i]
      /\ \A i \in 1 .. Len(after) : i > Len(table) => after[i] = arguments[i - Len(table)]
  BY <1>1, <1>3, <1>4
<1>6. ASSUME NEW i \in 1 .. Len(after), i > Len(table)
      PROVE  after[i].scope = scope
  <2>1. i - Len(table) \in 1 .. args
    BY <1>1, <1>5, <1>6
  <2> QED BY <1>2, <1>5, <1>6, <2>1
<1> QED BY <1>5, <1>6

LEMMA BeginStep ==
  ASSUME BMInv, BeginBody
  PROVE  BMInv'
<1> USE DEF BMInv
<1>1. PICK fs \in {IF seen_first_function_body THEN functions_with_bodies
                   ELSE FirstLast(functions_with_bodies)}, args \in 0 .. MaxArgs :
        IF fs = << >> THEN FailModule
        ELSE /\ reading' = "body"
             /\ global_values' = values
             /\ seen_first_function_body' = TRUE
             /\ function' = Last(fs)
             /\ functions_with_bodies' = Front(fs)
             /\ values' = values \o [i \in 1 .. args |-> Value(Last(fs), Len(values) + i)]
             /\ written' = written \o [i \in 1 .. args |-> Value(Writing, Len(written) + i)]
             /\ records' = [records EXCEPT !.here = 0]
             /\ UNCHANGED <<use_relative_id, declared, pending_forward_references, blocks_left,
                            instructions, constants, global_initializations, initializers, attached, module>>
  BY DEF BeginBody
<1>2. reading = "module" /\ Len(module) < Len(declared)
  BY DEF BeginBody
<1>3. /\ fs # << >> /\ Last(fs) = Writing /\ Front(fs) \in Seq(Nat)
      /\ Len(Front(fs)) = Len(declared) - Len(module) - 1
      /\ \A j \in 1 .. Len(Front(fs)) : Front(fs)[j] = declared[Len(declared) + 1 - j]
  BY <1>2, NextBody
<1> HIDE DEF Last, Front
<1>4. /\ reading' = "body" /\ global_values' = values /\ seen_first_function_body' = TRUE
      /\ function' = Writing /\ functions_with_bodies' = Front(fs)
      /\ values' = values \o [i \in 1 .. args |-> Value(Writing, Len(values) + i)]
      /\ written' = written \o [i \in 1 .. args |-> Value(Writing, Len(written) + i)]
      /\ records' = [records EXCEPT !.here = 0]
      /\ UNCHANGED <<use_relative_id, declared, pending_forward_references, blocks_left,
                     instructions, constants, global_initializations, initializers, attached, module>>
  BY <1>1, <1>3
<1>5. /\ values = Globals /\ written = Globals /\ instructions = << >> /\ attached = << >>
      /\ written \in Seq(Values) /\ Len(written) \in Nat /\ args \in Nat /\ args <= MaxArgs
      /\ Len(Globals) <= MaxGlobals /\ \A i \in DOMAIN Globals : Globals[i].scope = NoValue
      /\ records \in [all : Nat, here : Nat] /\ records.all <= MaxRecords
  BY <1>2, Bounds DEF TableInv, BMTypeOK
<1>6. Writing \in Nat
  <2>1. declared \in Seq(Nat) /\ Len(module) \in Nat
    BY DEF BMTypeOK
  <2> QED BY <1>2, <2>1 DEF Writing
<1>7. Globals' = written
  BY <1>4, <1>5 DEF Globals
<1>8. /\ written' \in Seq(Values) /\ Len(written') = Len(written) + args
      /\ \A i \in 1 .. Len(written) : written'[i] = written[i]
      /\ \A i \in 1 .. Len(written') : i > Len(written) => written'[i].scope = Writing
  <2>1. written' = WithArguments(written, args, Writing)
    BY <1>4 DEF WithArguments
  <2> QED BY <1>5, <1>6, <2>1, TableWithArguments
<1>9. values' = written'
  BY <1>4, <1>5
<1>10. /\ records' \in [all : Nat, here : Nat] /\ records'.all = records.all /\ records'.here = 0
  BY <1>4, <1>5
<1>11. BMTypeOK'
  BY <1>3, <1>4, <1>5, <1>6, <1>8, <1>9, <1>10 DEF BMTypeOK, Scopes
<1>12. TableInv'
  <2>1. TablesAgree'
    BY <1>9 DEF TablesAgree
  <2>2. Len(written') <= MaxGlobals + MaxArgs + records'.all /\ Len(Globals') <= MaxGlobals
    BY <1>5, <1>7, <1>8, <1>10, Bounds
  <2>3. StartsWithGlobals(values)' /\ StartsWithGlobals(written)'
    BY <1>5, <1>7, <1>8, <1>9 DEF StartsWithGlobals
  <2>4. /\ \A i \in DOMAIN Globals' : Globals'[i].scope = NoValue
        /\ \A i \in DOMAIN written' : i > Len(Globals') => written'[i].scope \in Nat
    BY <1>5, <1>6, <1>7, <1>8
  <2> QED BY <1>4, <1>5, <1>10, <2>1, <2>2, <2>3, <2>4 DEF TableInv
<1>13. BodyInv'
  <2>1. \A f \in DOMAIN module : f <= Len(declared) /\ module[f].function = declared[f]
    BY DEF BodyInv
  <2>2. Writing' = Writing
    BY <1>4 DEF Writing
  <2> QED BY <1>2, <1>3, <1>4, <2>1, <2>2 DEF BodyInv
<1>14. InstructionInv' /\ OperandInv' /\ OperandsAsWritten'
  BY <1>4, <1>5, <1>10 DEF InstructionInv, AttachedInBody, OperandInv, OperandsAsWritten
<1>15. ConstantInv' /\ InitializerInv'
  BY <1>4, <1>5, <1>7 DEF ConstantInv, InitializerInv
<1> QED BY <1>11, <1>12, <1>13, <1>14, <1>15

-----------------------------------------------------------------------------
(* Where it ends.                                                          *)

\* An operand at the end of a body that did not fail.
LEMMA Resolved ==
  ASSUME BMTypeOK, \A id \in pending_forward_references : id < Len(values),
         NEW operand \in Operands,
         operand \in Proxies => operand.n \in pending_forward_references
  PROVE  /\ Resolve(operand) \in Values \cup {NoValue}
         /\ operand \in Found => Resolve(operand) \in Values
         /\ operand \notin Proxies => Resolve(operand) = operand
         /\ operand \in Proxies => Resolve(operand) = values[operand.n + 1]
<1>1. values \in Seq(Values) /\ pending_forward_references \subseteq Nat
  BY DEF BMTypeOK
<1>2. CASE operand \in Proxies
  <2>1. operand.scope = Forward /\ operand # NoValue /\ operand.n \in Nat
    BY <1>2, Kind DEF Proxies
  <2>2. Resolve(operand) = values[operand.n + 1]
    BY <2>1 DEF Resolve
  <2>3. values[operand.n + 1] \in Values
    BY <1>1, <1>2, <2>1
  <2> QED BY <1>2, <2>2, <2>3
<1>3. CASE operand \notin Proxies
  BY <1>3, Kind DEF Resolve, Operands, Found
<1> QED BY <1>2, <1>3

\* The instructions of the finished body.
LEMMA ResolvedInstructions ==
  ASSUME BMInv, \A id \in pending_forward_references : id < Len(values), reading = "body"
  PROVE  /\ ResolveAll(instructions) \in Seq(Instructions)
         /\ \/ LeftOut(ResolveAll(instructions))
            \/ \A i \in DOMAIN ResolveAll(instructions) :
                 LET inst == ResolveAll(instructions)[i]
                 IN  \/ inst.kind = "ret" /\ inst.got = NoValue
                     \/ inst.want < Len(written) /\ inst.got = written[inst.want + 1]
<1> USE DEF BMInv
<1> DEFINE body == ResolveAll(instructions)
<1>1. /\ instructions \in Seq(Instructions) /\ Len(instructions) \in Nat
      /\ DOMAIN instructions = 1 .. Len(instructions)
      /\ values \in Seq(Values) /\ written \in Seq(Values)
  BY DEF BMTypeOK
<1>2. body = [i \in 1 .. Len(instructions) |-> [instructions[i] EXCEPT !.got = Resolve(@)]]
  BY <1>1 DEF ResolveAll
<1>3. ASSUME NEW i \in 1 .. Len(instructions)
      PROVE  /\ instructions[i] \in Instructions
             /\ instructions[i].got \in Operands
             /\ instructions[i].got \in Proxies => instructions[i].got.n \in pending_forward_references
             /\ Resolve(instructions[i].got) \in Operands
             /\ instructions[i].got \notin Proxies => Resolve(instructions[i].got) = instructions[i].got
             /\ instructions[i].got \in Proxies =>
                  Resolve(instructions[i].got) = values[instructions[i].got.n + 1]
  <2>1. instructions[i] \in Instructions
    BY <1>1
  <2>2. instructions[i].got \in Operands
    BY <2>1 DEF Instructions
  <2>3. instructions[i].got \in Proxies => instructions[i].got.n \in pending_forward_references
    BY <1>1 DEF InstructionInv
  <2> QED BY <2>1, <2>2, <2>3, Resolved DEF Operands
<1>4. ASSUME NEW i \in 1 .. Len(instructions)
      PROVE  /\ body[i] \in Instructions
             /\ body[i].got = Resolve(instructions[i].got)
             /\ body[i].kind = instructions[i].kind /\ body[i].want = instructions[i].want
             /\ body[i].in = instructions[i].in
  BY <1>2, <1>3 DEF Instructions
<1> HIDE DEF body
<1>5. body \in [1 .. Len(instructions) -> Instructions]
  BY <1>2, <1>4
<1>6. body \in Seq(Instructions) /\ DOMAIN body = 1 .. Len(instructions)
  BY <1>1, <1>5, FunctionSeq
<1>7. LeftOut(body) <=> LeftOut(instructions)
  BY <1>1, <1>4, <1>6 DEF LeftOut
<1>8. ASSUME ~ LeftOut(instructions), NEW i \in 1 .. Len(instructions)
      PROVE  \/ body[i].kind = "ret" /\ body[i].got = NoValue
             \/ body[i].want < Len(written) /\ body[i].got = written[body[i].want + 1]
  <2> DEFINE inst == instructions[i]
  <2>1. values = written
    BY <1>8 DEF TableInv, TablesAgree
  <2>2. \/ inst.kind = "ret" /\ inst.got = NoValue
        \/ inst.got = Proxy(inst.want)
        \/ inst.want < Len(written) /\ inst.got = written[inst.want + 1]
    BY <1>1, <1>8 DEF OperandInv
  <2>3. inst.want \in Nat
    BY <1>3 DEF Instructions
  <2>4. CASE inst.kind = "ret" /\ inst.got = NoValue
    BY <1>3, <1>4, <2>4, Kind
  <2>5. CASE inst.got = Proxy(inst.want)
    <3>1. inst.got \in Proxies /\ inst.got.n = inst.want
      BY <2>3, <2>5 DEF Proxies, Proxy, Value
    <3>2. inst.want < Len(values)
      BY <1>3, <3>1
    <3> QED BY <1>3, <1>4, <2>1, <3>1, <3>2
  <2>6. CASE inst.want < Len(written) /\ inst.got = written[inst.want + 1]
    <3>1. inst.got \in Values
      BY <1>1, <2>3, <2>6
    <3> QED BY <1>3, <1>4, <2>6, <3>1, Kind
  <2> QED BY <2>2, <2>4, <2>5, <2>6
<1> QED BY <1>6, <1>7, <1>8 DEF body

\* The constants after the end of a body.
LEMMA ResolvedConstants ==
  ASSUME BMInv, \A id \in pending_forward_references : id < Len(values)
  PROVE  /\ ResolveAll(constants) \in Seq(Constants)
         /\ \A i \in DOMAIN ResolveAll(constants) :
              LET c == ResolveAll(constants)[i]
              IN  /\ c.got \notin Proxies
                  /\ c.scope = NoValue /\ c.want < Len(Globals) => c.got = Globals[c.want + 1]
<1> USE DEF BMInv
<1> DEFINE after == ResolveAll(constants)
<1>1. /\ constants \in Seq(Constants) /\ Len(constants) \in Nat
      /\ DOMAIN constants = 1 .. Len(constants)
      /\ StartsWithGlobals(values) /\ Len(Globals) \in Nat
      /\ \A i \in 1 .. Len(Globals) : Globals[i] \in Values
  BY SMTT(30) DEF BMTypeOK, TableInv, Globals
<1>2. after = [i \in 1 .. Len(constants) |-> [constants[i] EXCEPT !.got = Resolve(@)]]
  BY <1>1 DEF ResolveAll
<1>3. ASSUME NEW i \in 1 .. Len(constants)
      PROVE  /\ after[i] \in Constants /\ after[i].got = Resolve(constants[i].got)
             /\ after[i].got \in Values
             /\ after[i].scope = constants[i].scope /\ after[i].want = constants[i].want
             /\ constants[i].want \in Nat /\ constants[i] \in Constants
             /\ constants[i].got \notin Proxies => after[i].got = constants[i].got
             /\ constants[i].got \in Proxies => after[i].got = values[constants[i].got.n + 1]
  <2> DEFINE c == constants[i]
  <2>1. c \in Constants
    BY <1>1
  <2>2. c.got \in Found /\ c.want \in Nat /\ c = [scope |-> c.scope, want |-> c.want, got |-> c.got]
        /\ c.scope \in Scopes
    BY <2>1 DEF Constants
  <2>3. c.got \in Proxies => c.got.n \in pending_forward_references
    BY <1>1 DEF ConstantInv
  <2>4. /\ Resolve(c.got) \in Values
        /\ c.got \notin Proxies => Resolve(c.got) = c.got
        /\ c.got \in Proxies => Resolve(c.got) = values[c.got.n + 1]
    BY <2>2, <2>3, Resolved DEF Operands, Found
  <2>5. after[i] = [c EXCEPT !.got = Resolve(c.got)]
    BY <1>2
  <2> HIDE DEF c, after
  <2>6. after[i] = [scope |-> c.scope, want |-> c.want, got |-> Resolve(c.got)]
    BY <2>2, <2>5
  <2>7. after[i] \in Constants
    BY <2>2, <2>4, <2>6 DEF Constants, Found
  <2> QED BY <2>1, <2>2, <2>4, <2>6, <2>7 DEF c
<1> HIDE DEF after
<1>4. after \in [1 .. Len(constants) -> Constants]
  BY <1>2, <1>3
<1>5. after \in Seq(Constants) /\ DOMAIN after = 1 .. Len(constants)
  BY <1>1, <1>4, FunctionSeq
<1>6. ASSUME NEW i \in 1 .. Len(constants), after[i].scope = NoValue, after[i].want < Len(Globals)
      PROVE  after[i].got = Globals[after[i].want + 1]
  <2> DEFINE c == constants[i]
  <2>1. /\ c.want \in Nat /\ c.want < Len(Globals) /\ c.scope = NoValue /\ after[i].want = c.want
        /\ c.got \notin Proxies => after[i].got = c.got
        /\ c.got \in Proxies => after[i].got = values[c.got.n + 1]
    BY <1>3, <1>6
  <2>2. \/ c.want < Len(Globals) /\ c.got = Globals[c.want + 1]
        \/ c.got = Proxy(c.want)
    BY <1>1, <2>1 DEF ConstantInv
  <2> HIDE DEF c
  <2>3. Globals[c.want + 1] \in Values
    BY <1>1, <2>1
  <2>4. CASE c.got = Globals[c.want + 1]
    BY <2>1, <2>3, <2>4, Kind
  <2>5. CASE c.got = Proxy(c.want)
    <3>1. c.got \in Proxies /\ c.got.n = c.want
      BY <2>1, <2>5 DEF Proxies, Proxy, Value
    <3>2. values[c.want + 1] = Globals[c.want + 1]
      BY <1>1, <2>1, SMTT(30) DEF StartsWithGlobals
    <3> QED BY <2>1, <3>1, <3>2
  <2> QED BY <2>2, <2>4, <2>5
<1>7. \A i \in 1 .. Len(constants) : after[i].got \notin Proxies
  BY <1>3, Kind
<1> QED BY <1>5, <1>6, <1>7 DEF after

\* The table is cut back to the values of the module.
LEMMA CutBack ==
  ASSUME BMInv, reading = "body"
  PROVE  [i \in ModuleNumbers |-> written[i]] = global_values
<1>1. /\ Globals = global_values /\ Len(global_values) \in Nat
      /\ written \in Seq(Values) /\ Len(written) \in Nat /\ global_values \in Seq(Values)
  BY InBody DEF BMInv, BMTypeOK
<1>2. /\ Len(global_values) <= Len(written)
      /\ \A i \in 1 .. Len(global_values) : written[i] = global_values[i]
      /\ \A i \in DOMAIN global_values : global_values[i].scope = NoValue
      /\ \A i \in DOMAIN written : i > Len(global_values) => written[i].scope \in Nat
  BY <1>1 DEF BMInv, TableInv, StartsWithGlobals
<1>3. ModuleNumbers = 1 .. Len(global_values)
  <2>1. ASSUME NEW i \in 1 .. Len(written)
        PROVE  i \in ModuleNumbers <=> i <= Len(global_values)
    <3>1. CASE i <= Len(global_values)
      BY <1>1, <1>2, <3>1 DEF ModuleNumbers
    <3>2. CASE i > Len(global_values)
      BY <1>1, <1>2, <3>2, Kind DEF ModuleNumbers
    <3> QED BY <1>1, <3>1, <3>2
  <2>2. ModuleNumbers \subseteq 1 .. Len(written)
    BY <1>1 DEF ModuleNumbers
  <2>3. 1 .. Len(global_values) \subseteq 1 .. Len(written)
    BY <1>1, <1>2
  <2>4. ModuleNumbers \subseteq 1 .. Len(global_values)
    BY <1>1, <2>1, <2>2
  <2>5. 1 .. Len(global_values) \subseteq ModuleNumbers
    BY <1>1, <2>1, <2>3
  <2> QED BY <2>4, <2>5
<1>4. [i \in ModuleNumbers |-> written[i]] = [i \in 1 .. Len(global_values) |-> global_values[i]]
  BY <1>2, <1>3
<1>5. global_values = [i \in 1 .. Len(global_values) |-> global_values[i]]
  BY <1>1
<1> QED BY <1>4, <1>5

LEMMA EndStep ==
  ASSUME BMInv, EndBody
  PROVE  BMInv'
<1> USE DEF BMInv
<1>1. reading = "body"
  BY DEF EndBody
<1>2. CASE FailModule
  BY <1>2, ReaderFailStep
<1>3. CASE /\ \A id \in pending_forward_references : id < Len(values)
           /\ \A i \in DOMAIN global_initializations : global_initializations[i] < Len(values)
           /\ reading' = "module"
           /\ module' = Append(module, [function |-> function, table |-> written,
                                        body |-> ResolveAll(instructions)])
           /\ constants' = ResolveAll(constants)
           /\ initializers' = initializers \o
                [i \in DOMAIN global_initializations |->
                   [want |-> global_initializations[i], got |-> values[global_initializations[i] + 1]]]
           /\ values' = RestoredValues
           /\ written' = [i \in ModuleNumbers |-> written[i]]
           /\ pending_forward_references' = {}
           /\ global_initializations' = << >>
           /\ instructions' = ClearedInstructions
           /\ blocks_left' = NoValue
           /\ attached' = << >>
           /\ UNCHANGED <<readerVars, declared, records>>
  <2> DEFINE f == [function |-> function, table |-> written, body |-> ResolveAll(instructions)]
             new == [i \in DOMAIN global_initializations |->
                       [want |-> global_initializations[i], got |-> values[global_initializations[i] + 1]]]
  <2>1. /\ function = Writing /\ function \in Nat /\ Len(module) < Len(declared)
        /\ seen_first_function_body = TRUE /\ Globals = global_values /\ Len(Globals) \in Nat
    BY <1>1, InBody
  <2>2. /\ ResolveAll(instructions) \in Seq(Instructions)
        /\ \/ LeftOut(ResolveAll(instructions))
           \/ \A i \in DOMAIN ResolveAll(instructions) :
                LET inst == ResolveAll(instructions)[i]
                IN  \/ inst.kind = "ret" /\ inst.got = NoValue
                    \/ inst.want < Len(written) /\ inst.got = written[inst.want + 1]
    BY <1>1, <1>3, ResolvedInstructions
  <2>3. /\ ResolveAll(constants) \in Seq(Constants)
        /\ \A i \in DOMAIN ResolveAll(constants) :
             LET c == ResolveAll(constants)[i]
             IN  /\ c.got \notin Proxies
                 /\ c.scope = NoValue /\ c.want < Len(Globals) => c.got = Globals[c.want + 1]
    BY <1>3, ResolvedConstants
  <2>4. values' = global_values /\ written' = global_values /\ global_values \in Seq(Values)
    BY <1>1, <1>3, CutBack DEF RestoredValues, BMTypeOK
  <2>5. /\ seen_first_function_body' = seen_first_function_body /\ global_values' = global_values
        /\ functions_with_bodies' = functions_with_bodies /\ function' = function
        /\ use_relative_id' = use_relative_id /\ declared' = declared /\ records' = records
        /\ instructions' = << >> /\ attached' = << >> /\ reading' = "module"
    BY <1>3 DEF readerVars, ClearedInstructions
  <2>6. Globals' = Globals
    BY <2>1, <2>5 DEF Globals
  <2>7. /\ module \in Seq(Finished)
        /\ written \in Seq(Values) /\ values \in Seq(Values)
        /\ global_initializations \in Seq(Nat)
        /\ initializers \in Seq([want : Nat, got : Values])
    BY DEF BMTypeOK
  <2>8. /\ f \in Finished
        /\ f.function = Writing /\ f.table = written /\ f.body = ResolveAll(instructions)
    BY <2>1, <2>2, <2>7 DEF Finished
  <2>9. module' = Append(module, f)
    BY <1>3
  <2> HIDE DEF f
  <2>10. /\ module' \in Seq(Finished)
         /\ Len(module') = Len(module) + 1 /\ DOMAIN module' = 1 .. Len(module) + 1
         /\ DOMAIN module = 1 .. Len(module) /\ Len(module) \in Nat
         /\ \A i \in 1 .. Len(module) : module'[i] = module[i]
         /\ module'[Len(module) + 1] = f /\ module' # << >>
    <3>1. module \in Seq(Finished) /\ f \in Finished
      BY <2>7, <2>8
    <3>2. /\ Append(module, f) \in Seq(Finished) /\ Len(module) \in Nat
          /\ Len(Append(module, f)) = Len(module) + 1
          /\ DOMAIN Append(module, f) = 1 .. Len(module) + 1
          /\ DOMAIN module = 1 .. Len(module)
          /\ \A i \in 1 .. Len(module) : Append(module, f)[i] = module[i]
          /\ Append(module, f)[Len(module) + 1] = f /\ Append(module, f) # << >>
      BY <3>1, AppendSeq
    <3> QED BY <2>9, <3>2
  <2>11. /\ new \in Seq([want : Nat, got : Values])
         /\ \A i \in DOMAIN new : new[i].want < Len(Globals) => new[i].got = Globals[new[i].want + 1]
    <3>0. \A i \in DOMAIN global_initializations : global_initializations[i] < Len(values)
      BY <1>3
    <3>1. DOMAIN global_initializations = 1 .. Len(global_initializations)
          /\ Len(global_initializations) \in Nat
      BY <2>7
    <3>2. ASSUME NEW i \in 1 .. Len(global_initializations)
          PROVE  /\ new[i] = [want |-> global_initializations[i],
                              got |-> values[global_initializations[i] + 1]]
                 /\ global_initializations[i] \in Nat
                 /\ values[global_initializations[i] + 1] \in Values
      <4>1. global_initializations[i] \in Nat /\ global_initializations[i] < Len(values)
        <5>1. i \in DOMAIN global_initializations /\ global_initializations[i] \in Nat
          BY <2>7, <3>1
        <5> QED BY <3>0, <5>1
      <4>2. values[global_initializations[i] + 1] \in Values
        BY <2>7, <4>1
      <4> QED BY <3>1, <4>1, <4>2
    <3>3. new \in [1 .. Len(global_initializations) -> [want : Nat, got : Values]]
      BY <3>1, <3>2
    <3>4. \A i \in 1 .. Len(Globals) : values[i] = Globals[i]
      BY DEF TableInv, StartsWithGlobals
    <3> HIDE DEF new
    <3>5. new \in Seq([want : Nat, got : Values]) /\ DOMAIN new = 1 .. Len(global_initializations)
      BY <3>1, <3>3, FunctionSeq
    <3>6. ASSUME NEW i \in 1 .. Len(global_initializations), new[i].want < Len(Globals)
          PROVE  new[i].got = Globals[new[i].want + 1]
      <4>1. /\ new[i].want \in Nat /\ new[i].got = values[new[i].want + 1]
        <5>1. /\ new[i] = [want |-> global_initializations[i],
                           got |-> values[global_initializations[i] + 1]]
              /\ global_initializations[i] \in Nat
          BY <3>2
        <5> QED BY <5>1
      <4>2. new[i].want + 1 \in 1 .. Len(Globals)
        BY <2>1, <3>6, <4>1
      <4> QED BY <3>4, <4>1, <4>2
    <3> QED BY <3>5, <3>6
  <2>12. initializers' = initializers \o new
    BY <1>3
  <2> HIDE DEF new
  <2>13. BMTypeOK'
    <3>1. initializers' \in Seq([want : Nat, got : Values])
      BY <2>7, <2>11, <2>12
    <3>2. constants' \in Seq(Constants) /\ blocks_left' \in Scopes /\ global_initializations' \in Seq(Nat)
          /\ pending_forward_references' \subseteq Nat
      BY <1>3, <2>3 DEF Scopes
    <3>3. instructions' \in Seq(Instructions) /\ attached' \in Seq([at : Nat, inst : Instructions])
      BY <2>5
    <3> QED BY <2>4, <2>5, <2>10, <3>1, <3>2, <3>3 DEF BMTypeOK
  <2>14. TableInv'
    <3>1. /\ Len(Globals) <= MaxGlobals /\ records.all \in Nat /\ records.all <= MaxRecords
          /\ \A i \in DOMAIN Globals : Globals[i].scope = NoValue
      BY DEF TableInv, BMTypeOK
    <3>2. values' = Globals' /\ written' = Globals'
      BY <2>1, <2>4, <2>6
    <3>3. Len(written') <= MaxGlobals + MaxArgs + records'.all
      BY <2>1, <2>4, <2>5, <3>1, Bounds
    <3>4. StartsWithGlobals(values)' /\ StartsWithGlobals(written)'
      BY <2>1, <2>4, <2>6 DEF StartsWithGlobals
    <3>5. \A i \in DOMAIN written' : ~ i > Len(Globals')
      BY <2>1, <2>4, <2>6
    <3>6. TablesAgree'
      BY <2>4 DEF TablesAgree
    <3> QED BY <2>5, <2>6, <3>1, <3>2, <3>3, <3>4, <3>5, <3>6 DEF TableInv
  <2>15. BodyInv'
    <3>1. /\ \A i \in DOMAIN module : i <= Len(declared) /\ module[i].function = declared[i]
          /\ Len(functions_with_bodies) = Len(declared) - Len(module) - 1
          /\ \A j \in 1 .. Len(functions_with_bodies) :
               functions_with_bodies[j] = declared[Len(declared) + 1 - j]
      BY <1>1, <2>1 DEF BodyInv
    <3>2. \A i \in DOMAIN module' : i <= Len(declared) /\ module'[i].function = declared[i]
      <4>1. Len(declared) \in Nat
        BY DEF BMTypeOK
      <4>2. Len(module) + 1 <= Len(declared) /\ f.function = declared[Len(module) + 1]
        BY <2>1, <2>8, <2>10, <4>1 DEF Writing
      <4>3. \A i \in 1 .. Len(module) : i <= Len(declared) /\ module'[i].function = declared[i]
        BY <2>10, <3>1
      <4>4. \A i \in DOMAIN module' : i \in 1 .. Len(module) \/ i = Len(module) + 1
        BY <2>10
      <4> QED BY <2>10, <4>2, <4>3, <4>4
    <3>3. Len(functions_with_bodies) = Len(declared) - Len(module') - 0
      <4>1. Len(declared) \in Nat
        BY DEF BMTypeOK
      <4> QED BY <2>10, <3>1, <4>1
    <3> QED BY <2>1, <2>5, <3>1, <3>2, <3>3 DEF BodyInv
  <2>16. InstructionInv' /\ OperandInv'
    BY <2>5 DEF InstructionInv, AttachedInBody, OperandInv
  <2>17. ConstantInv'
    <3>1. ASSUME NEW i \in DOMAIN constants'
          PROVE  /\ constants'[i].got \notin Proxies
                 /\ constants'[i].scope = NoValue =>
                      \/ /\ constants'[i].want < Len(Globals')
                         /\ constants'[i].got = Globals'[constants'[i].want + 1]
                      \/ constants'[i].want >= Len(Globals')
      <4>1. constants' = ResolveAll(constants)
        BY <1>3
      <4>2. constants'[i] \in Constants
        BY <2>3, <4>1
      <4>3. constants'[i].want \in Nat
        BY <4>2 DEF Constants
      <4> QED BY <2>1, <2>3, <2>6, <4>1, <4>3
    <3> QED BY <2>10, <3>1 DEF ConstantInv
  <2>18. InitializerInv'
    <3>1. \A i \in DOMAIN initializers :
            initializers[i].want < Len(Globals) => initializers[i].got = Globals[initializers[i].want + 1]
      BY <2>7 DEF InitializerInv
    <3>2. ASSUME NEW i \in DOMAIN initializers'
          PROVE  \/ i \in DOMAIN initializers /\ initializers'[i] = initializers[i]
                 \/ \E k \in DOMAIN new : initializers'[i] = new[k]
      BY <2>7, <2>11, <2>12
    <3>3. \A i \in DOMAIN initializers' :
            initializers'[i].want < Len(Globals') => initializers'[i].got = Globals'[initializers'[i].want + 1]
      BY <2>6, <2>11, <3>1, <3>2
    <3> QED BY <2>1, <2>5, <3>3 DEF InitializerInv
  <2>19. OperandsAsWritten'
    <3> DEFINE Written(g) == \A i \in DOMAIN g.body :
                               LET inst == g.body[i]
                               IN  \/ inst.kind = "ret" /\ inst.got = NoValue
                                   \/ LeftOut(g.body)
                                   \/ inst.want < Len(g.table) /\ inst.got = g.table[inst.want + 1]
    <3>1. \A k \in 1 .. Len(module) : Written(module[k])
      BY <2>10 DEF OperandsAsWritten
    <3>2. Written(f)
      BY <2>2, <2>8
    <3> HIDE DEF Written
    <3>3. \A k \in DOMAIN module' : k \in 1 .. Len(module) \/ k = Len(module) + 1
      BY <2>10
    <3>4. \A k \in DOMAIN module' : Written(module'[k])
      BY <2>10, <3>1, <3>2, <3>3
    <3> QED BY <3>4 DEF OperandsAsWritten, Written
  <2> QED BY <2>13, <2>14, <2>15, <2>16, <2>17, <2>18, <2>19
<1>4. \/ FailModule
      \/ /\ ~ \E id \in pending_forward_references : id >= Len(values)
         /\ ~ \E i \in DOMAIN global_initializations : global_initializations[i] >= Len(values)
  BY DEF EndBody
<1>5. /\ Len(values) \in Nat /\ pending_forward_references \subseteq Nat
      /\ \A i \in DOMAIN global_initializations : global_initializations[i] \in Nat
  BY SMTT(30) DEF BMTypeOK
<1>6. FailModule \/ ( /\ \A id \in pending_forward_references : id < Len(values)
                      /\ \A i \in DOMAIN global_initializations : global_initializations[i] < Len(values))
  BY <1>4, <1>5
<1> QED BY <1>2, <1>3, <1>6 DEF EndBody

-----------------------------------------------------------------------------
(* The module that is read is the one that was written.                    *)

LEMMA NextInv == BMInv /\ [BMNext]_bmVars => BMInv'
<1> SUFFICES ASSUME BMInv, [BMNext]_bmVars PROVE BMInv'
  OBVIOUS
<1>1. CASE UNCHANGED bmVars
  BY <1>1 DEF BMInv, BMTypeOK, TableInv, BodyInv, InstructionInv, OperandInv, ConstantInv,
              InitializerInv, OperandsAsWritten, TablesAgree, StartsWithGlobals, Globals, LeftOut,
              AttachedInBody, Writing, bmVars, readerVars, writerVars
<1>2. CASE BMNext
  BY <1>2, FunctionStep, VariableStep, GlobalConstantStep, BeginStep, DeclareStep, ConstantStep,
     InstructionStep, AttachmentStep, EndStep DEF BMNext
<1> QED BY <1>1, <1>2

LEMMA InvAsWritten == BMInv => ModuleAsWritten
<1> SUFFICES ASSUME BMInv PROVE ModuleAsWritten
  OBVIOUS
<1>1. TablesAgree /\ AttachedInBody /\ OperandsAsWritten
  BY DEF BMInv, TableInv, InstructionInv
<1>2. BodiesAsDeclared
  BY DEF BMInv, BodyInv, BodiesAsDeclared
<1>3. GlobalsAsWritten
  <2> SUFFICES ASSUME module # << >> PROVE GlobalsAsWritten
    BY DEF GlobalsAsWritten
  <2>1. seen_first_function_body = TRUE /\ Len(global_values) \in Nat
    BY DEF BMInv, BMTypeOK, BodyInv
  <2>2. Globals = global_values
    BY <2>1 DEF Globals
  <2>3. \A i \in DOMAIN constants : constants[i].want \in Nat
    <3>1. \A i \in DOMAIN constants : constants[i] \in Constants
      BY DEF BMInv, BMTypeOK
    <3> QED BY <3>1 DEF Constants
  <2>4. \A i \in DOMAIN constants :
          constants[i].scope = NoValue /\ constants[i].want < Len(global_values) =>
            constants[i].got = global_values[constants[i].want + 1]
    BY <2>1, <2>2, <2>3 DEF BMInv, ConstantInv
  <2>5. \A i \in DOMAIN initializers :
          initializers[i].want < Len(global_values) =>
            initializers[i].got = global_values[initializers[i].want + 1]
    <3>1. DOMAIN initializers # {} => initializers # << >>
      BY DEF BMInv, BMTypeOK
    <3> QED BY <2>2, <3>1 DEF BMInv, InitializerInv
  <2> QED BY <2>4, <2>5 DEF GlobalsAsWritten
<1> QED BY <1>1, <1>2, <1>3 DEF ModuleAsWritten

\* For any bound on globals, arguments, blocks and records, a module that the
\* bitcode reader accepts is the one that was written: the tables of values
\* agree, bodies and metadata are where they belong and every operand is the
\* value that was named.
THEOREM BMModuleAsWritten == BMSpec => []ModuleAsWritten
BY ReaderInitInv, NextInv, InvAsWritten, PTL DEF BMSpec

=============================================================================
