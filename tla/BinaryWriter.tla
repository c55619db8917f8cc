---------------------------- MODULE BinaryWriter ----------------------------
(***************************************************************************)
(* The files that are mapped into memory and used as they are              *)
(* (BinaryWriter.cpp, BinaryData.hpp): segments that grow independently,   *)
(* pointers between them that are resolved at the end, and the reader's    *)
(* side.  A pointer takes one cell, and so does an integer; the contents   *)
(* of a string are one cell per character.                                 *)
(***************************************************************************)
EXTENDS Integers, SequencesExt

Padding == 254     \* BinarySegmentAlign writes 0xfe
Unfixed == -1      \* stands for 0x7eeeeeee

\* BinarySegment: m_Bytes, m_Fixups.  A writer is a sequence of them.
NewWriter(count) == [i \in 1 .. count |-> [bytes |-> <<>>, fixups |-> <<>>]]

\* BinarySegmentPosition: a BinaryLocator.
BinarySegmentPosition(w, seg) == [seg |-> seg, offset |-> Len(w[seg].bytes)]

BinarySegmentWrite(w, seg, data) == [w EXCEPT ![seg].bytes = @ \o data]

BinarySegmentAlign(w, seg, alignment) ==
  LET over == Len(w[seg].bytes) % alignment
  IN IF over = 0 THEN w
     ELSE BinarySegmentWrite(w, seg, [i \in 1 .. alignment - over |-> Padding])

BinarySegmentWritePointer(w, seg, locator) ==
  [w EXCEPT ![seg].fixups = Append(@, [at |-> Len(w[seg].bytes), target |-> locator]),
            ![seg].bytes = Append(@, Unfixed)]

BinarySegmentWriteNullPointer(w, seg) == BinarySegmentWrite(w, seg, <<0>>)

\* WriteStringPtr of DagGenerator.cpp.
WriteStringPtr(w, seg, strSeg, text) ==
  BinarySegmentWrite(BinarySegmentWritePointer(w, seg, BinarySegmentPosition(w, strSeg)),
                     strSeg, Append(text, 0))

\* Slip: the string is looked up by the first string with its length.
LookupCommon_Length(table, text) == SelectInSeq(table, LAMBDA r : Len(r.text) = Len(text))

\* The record of a string that was written before, or zero.
LookupCommon(table, text) == SelectInSeq(table, LAMBDA r : r.text = text)

\* WriteCommonStringPtr: a string that was written before is not written again.
WriteCommonStringPtr(w, table, seg, strSeg, text) ==
  LET i == LookupCommon(table, text)
  IN IF i # 0 THEN [writer |-> BinarySegmentWritePointer(w, seg, table[i].pointer), table |-> table]
     ELSE [writer |-> WriteStringPtr(w, seg, strSeg, text),
           table  |-> Append(table, [text |-> text, pointer |-> BinarySegmentPosition(w, strSeg)])]

\* Slip: the positions are those before the segments are aligned.
Finalize_Unaligned(w, alignment) ==
  LET aligned == FoldLeft(LAMBDA u, seg : BinarySegmentAlign(u, seg, alignment),
                          w, [i \in DOMAIN w |-> i])
      Base[seg \in 1 .. Len(w) + 1] ==
        IF seg = 1 THEN 0 ELSE Base[seg - 1] + Len(w[seg - 1].bytes)
  IN [segs |-> aligned, base |-> Base]

\* BinaryWriterFinalize: segments are padded and get their positions in the file.
Finalize(w, alignment) ==
  LET aligned == FoldLeft(LAMBDA u, seg : BinarySegmentAlign(u, seg, alignment),
                          w, [i \in DOMAIN w |-> i])
      Base[seg \in 1 .. Len(w) + 1] ==
        IF seg = 1 THEN 0 ELSE Base[seg - 1] + Len(aligned[seg - 1].bytes)
  IN [segs |-> aligned, base |-> Base]

\* BinarySegmentFixupPointers: a pointer is the distance from itself to its target.
FixupPointers(seg, final) ==
  FoldLeft(LAMBDA bytes, fixup :
             [bytes EXCEPT ![fixup.at + 1] =
                final.base[fixup.target.seg] + fixup.target.offset
                  - (final.base[seg] + fixup.at)],
           final.segs[seg].bytes, final.segs[seg].fixups)

\* BinaryWriterFlush: the file, if nothing fails.
BinaryWriterFlush(w, alignment) ==
  LET final == Finalize(w, alignment)
  IN FlattenSeq([seg \in DOMAIN w |-> FixupPointers(seg, final)])

\* FrozenPtr::Get: a position in the file, from zero, or the null pointer.
NullPtr == -1
FrozenPtrGet(file, pos) == IF file[pos + 1] = 0 THEN NullPtr ELSE pos + file[pos + 1]

\* The string at a position.
StringAt(file, pos) ==
  LET end == SelectInSubSeq(file, pos + 1, Len(file), LAMBDA cell : cell = 0)
  IN SubSeq(file, pos + 1, end - 1)

-----------------------------------------------------------------------------
(* A file of records: each has a name (a shared string or one of its own,  *)
(* or none) and an array of numbers in another segment.                    *)

Main == 1
Aux  == 2
Strings == 3

WriteRecord(s, record) ==
  LET named == CASE record.kind = "none" ->
                      [writer |-> BinarySegmentWriteNullPointer(s.writer, Main), table |-> s.table]
                 [] record.kind = "own" ->
                      [writer |-> WriteStringPtr(s.writer, Main, Strings, record.name), table |-> s.table]
                 [] record.kind = "shared" ->
                      WriteCommonStringPtr(s.writer, s.table, Main, Strings, record.name)
      w1 == BinarySegmentWrite(named.writer, Main, <<Len(record.array)>>)
      w2 == BinarySegmentWritePointer(w1, Main, BinarySegmentPosition(w1, Aux))
  IN [writer |-> BinarySegmentWrite(w2, Aux, record.array), table |-> named.table]

\* What is written can be read: through its pointers every record has its name and
\* its array, whatever the sizes of the segments before them, and equal shared
\* strings are stored once.
FrozenRight(records, alignment) ==
  LET s == FoldLeft(WriteRecord, [writer |-> NewWriter(3), table |-> <<>>], records)
      file == BinaryWriterFlush(s.writer, alignment)
      Field(i, k) == 3 * (i - 1) + k
      NamePtr(i) == FrozenPtrGet(file, Field(i, 0))
      ArrayPtr(i) == FrozenPtrGet(file, Field(i, 2))
      Read(i) == [count |-> file[Field(i, 1) + 1],
                  array |-> SubSeq(file, ArrayPtr(i) + 1, ArrayPtr(i) + file[Field(i, 1) + 1])]
      Shared(i) == records[i].kind = "shared"
  IN /\ Len(file) % alignment = 0
     /\ \A i \in DOMAIN records :
          /\ Read(i) = [count |-> Len(records[i].array), array |-> records[i].array]
          /\ IF records[i].kind = "none" THEN NamePtr(i) = NullPtr
             ELSE StringAt(file, NamePtr(i)) = records[i].name
     /\ \A i, j \in DOMAIN records :
          Shared(i) /\ Shared(j) => (NamePtr(i) = NamePtr(j) <=> records[i].name = records[j].name)

=============================================================================
