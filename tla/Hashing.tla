------------------------------ MODULE Hashing ------------------------------
(***************************************************************************)
(* What is hashed when a signature or a guid is made (src/src/Hash.cpp,    *)
(* Hash.hpp): data comes in pieces, goes through a buffer into blocks, and *)
(* ends with a mark, zeroes and its size.  HashBlock itself stays          *)
(* abstract: the result is the sequence of blocks it was given.            *)
(*                                                                         *)
(* A block has BlockSize bytes (64 in the code), the last CountSize of     *)
(* them (8) hold the size.                                                 *)
(***************************************************************************)
EXTENDS Integers, SequencesExt

CONSTANTS BlockSize, CountSize

Mark == 128     \* one_bit

HashInit == [blocks |-> <<>>, buffer |-> <<>>, size |-> 0]

\* Slip: a piece as long as a block is a block, whatever is in the buffer.
Direct_Always(used, remain) == remain >= BlockSize

\* HashUpdate: a whole block bypasses an empty buffer.
Direct(used, remain) == used = 0 /\ remain >= BlockSize

\* The loop of HashUpdate.
RECURSIVE Feed(_, _)
Feed(h, data) ==
  LET used == Len(h.buffer)
      copy == IF Len(data) < BlockSize - used THEN Len(data) ELSE BlockSize - used
      full == h.buffer \o SubSeq(data, 1, copy)
  IN IF data = <<>> THEN h
     ELSE IF Direct(used, Len(data))
     THEN Feed([h EXCEPT !.blocks = Append(@, SubSeq(data, 1, BlockSize))],
               SubSeq(data, BlockSize + 1, Len(data)))
     ELSE IF Len(full) = BlockSize
     THEN Feed([h EXCEPT !.blocks = Append(@, full), !.buffer = <<>>],
               SubSeq(data, copy + 1, Len(data)))
     ELSE [h EXCEPT !.buffer = full]

HashUpdate(h, data) == [Feed(h, data) EXCEPT !.size = h.size + Len(data)]

HashAddSeparator(h) == HashUpdate(h, <<0>>)

Zeroes(n) == [i \in 1 .. n |-> 0]

\* The size in the last bytes of the last block.
CountData(size) == Zeroes(CountSize - 1) \o <<size>>

\* HashFinalize: a buffer that has no more room than the size needs gets a block
\* of zeroes more.
HashFinalize(h) ==
  LET marked == HashUpdate(h, <<Mark>>)
      diff   == Len(marked.buffer) - (BlockSize - CountSize)
      padded == HashUpdate(marked, Zeroes(IF diff < 0 THEN -diff ELSE BlockSize - diff))
  IN HashUpdate(padded, CountData(h.size))

\* HashSingleString and the other users: init, any number of updates, finalize.
HashOf(pieces) == HashFinalize(FoldLeft(HashUpdate, HashInit, pieces))

\* CompareHashDigests: word by word, the first one that differs decides.
CompareHashDigests(l, r) ==
  LET differ == SelectInSeq([i \in DOMAIN l |-> l[i] # r[i]], LAMBDA d : d)
  IN CASE differ = 0 -> 0 [] differ # 0 /\ l[differ] < r[differ] -> -1 [] OTHER -> 1

-----------------------------------------------------------------------------

\* How a message is cut into pieces does not matter; what is hashed is the message,
\* the mark, zeroes and the size, in whole blocks, so that two messages are never
\* hashed alike; and both of HashFinalize's checks on the buffer hold.
HashRight(pieces) ==
  LET message == FlattenSeq(pieces)
      hashed  == HashOf(pieces)
      bytes   == FlattenSeq(hashed.blocks)
      zeroes  == Len(bytes) - Len(message) - 1 - CountSize
  IN /\ hashed.buffer = <<>>
     /\ \A i \in DOMAIN hashed.blocks : Len(hashed.blocks[i]) = BlockSize
     /\ zeroes \in 0 .. BlockSize
     /\ bytes = message \o <<Mark>> \o Zeroes(zeroes) \o CountData(Len(message))
     /\ hashed.blocks = HashOf(<<message>>).blocks

=============================================================================
