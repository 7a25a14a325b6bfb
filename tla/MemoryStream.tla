---------------------------- MODULE MemoryStream ----------------------------
(***************************************************************************)
(* MemoryStream: a cursor over a part of a blob.  The unit is one word: the *)
(* fields and the characters the readers ask for are one word each.         *)
(* Offsets and sizes are size_t, of SizeRange values; they are computed      *)
(* from fields of the blob, which are uint32_t, of UintRange values.         *)
(***************************************************************************)
EXTENDS Integers

CONSTANTS
  UintRange,  \* 2^32
  SizeRange   \* 2^64, or 2^32 in a 32-bit build

\* A blob is shorter than a pointer can address, and so are its offsets.
ASSUME RangeAssumption ==
  /\ UintRange \in Nat \ {0}
  /\ SizeRange \in Nat
  /\ SizeRange >= UintRange

SizeAdd(a, b) == (a + b) % SizeRange

Stream(first, size) == [blob |-> first, size |-> size, offset |-> 0]

\* { nullptr, 0 }: nothing can be read from it.
NullStream == Stream(0, 0)

\* The check of read and of map_read.
CanRead(s, n) == SizeAdd(s.offset, n) <= s.size

\* The addresses that a read of n words copies or maps.
Span(s, n) == {s.blob + s.offset + i : i \in 0 .. n - 1}

Advance(s, n) == [s EXCEPT !.offset = SizeAdd(@, n)]

CanSeek(s, to) == to <= s.size

Seek(s, to) == [s EXCEPT !.offset = to]

\* Mutant: only the beginning is looked at.
SubstreamUnchecked(s, from, size) ==
  IF from >= s.size THEN NullStream ELSE Stream(s.blob + from, size)

\* create_substream of an offset and a size.
Substream(s, from, size) ==
  IF from >= s.size \/ SizeAdd(from, size) > s.size
    THEN NullStream ELSE Stream(s.blob + from, size)

\* create_substream of an offset.
SubstreamFrom(s, from) ==
  IF from >= s.size THEN NullStream ELSE Stream(s.blob + from, s.size - from)

\* create_substream_bitcode_size.
SubstreamBitcodeSize(s, from, size) ==
  IF SizeAdd(from, size) > s.size THEN NullStream ELSE Stream(s.blob + from, size)

\* The addresses of a stream.
Extent(s) == s.blob .. s.blob + s.size - 1

=============================================================================
