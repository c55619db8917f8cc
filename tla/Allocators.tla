----------------------------- MODULE Allocators -----------------------------
(***************************************************************************)
(* The allocators that everything in src/src is built on: the linear       *)
(* allocator with its scopes (MemAllocLinear.cpp) and the growing buffer   *)
(* (Buffer.hpp).  Addresses are numbers.                                   *)
(***************************************************************************)
EXTENDS Integers, SequencesExt

CONSTANT MaxAlignment    \* kMaxAlignment: 64

AlignUp(n, align) == ((n + align - 1) \div align) * align

\* LinearAllocInit: base is what the heap returned, with MaxAlignment - 1 bytes to
\* spare.  A scope remembers the offset; live are the blocks that were handed out.
LinearAllocInit(base, maxSize) ==
  LET pointer == AlignUp(base, MaxAlignment)
  IN [pointer |-> pointer, size |-> maxSize - (pointer - base), offset |-> 0,
      scopes |-> <<>>, live |-> {}, croaked |-> FALSE,
      room |-> base .. base + maxSize + MaxAlignment - 2]

\* Slip: the pointer is aligned, the offset is not moved with it.
LinearAllocate_Short(a, size, align) ==
  LET offset == AlignUp(a.offset, align)
  IN IF offset + size <= a.size
     THEN [a EXCEPT !.offset = @ + size,
                    !.live = @ \cup {[at |-> a.pointer + offset, size |-> size, align |-> align,
                                      depth |-> Len(a.scopes)]}]
     ELSE [a EXCEPT !.croaked = TRUE]

LinearAllocate(a, size, align) ==
  LET offset == AlignUp(a.offset, align)
  IN IF offset + size <= a.size
     THEN [a EXCEPT !.offset = offset + size,
                    !.live = @ \cup {[at |-> a.pointer + offset, size |-> size, align |-> align,
                                      depth |-> Len(a.scopes)]}]
     ELSE [a EXCEPT !.croaked = TRUE]

\* MemAllocLinearScope: its end gives back what was allocated since its begin.
ScopeBegin(a) == [a EXCEPT !.scopes = Append(@, a.offset)]
ScopeEnd(a) ==
  [a EXCEPT !.offset = Last(a.scopes), !.scopes = Front(@),
            !.live = {b \in @ : b.depth < Len(a.scopes)}]

LinearAllocReset(a) == [a EXCEPT !.offset = 0, !.live = {}]

\* One call of the allocator's clients; nothing happens after Croak.
LinearStep(a, op) ==
  CASE a.croaked -> a
    [] ~a.croaked /\ op.call = "alloc" -> LinearAllocate(a, op.size, op.align)
    [] ~a.croaked /\ op.call = "begin" -> ScopeBegin(a)
    [] ~a.croaked /\ op.call = "end" -> IF a.scopes = <<>> THEN a ELSE ScopeEnd(a)
    [] ~a.croaked /\ op.call = "reset" -> IF a.scopes = <<>> THEN LinearAllocReset(a) ELSE a

-----------------------------------------------------------------------------
(* Buffer.hpp: storage is what the heap holds, capacity cells of it. *)

BufferInit == [storage |-> <<>>, size |-> 0, capacity |-> 0]

\* HeapReallocate keeps what fits.
Reallocated(storage, capacity) ==
  [i \in 1 .. capacity |-> IF i <= Len(storage) THEN storage[i] ELSE 0]

\* Slip: twice the capacity is always enough.
NewCapacity_Double(b, count) == IF b.capacity = 0 THEN 2 ELSE b.capacity * 2

\* BufferAlloc grows by doubling, and to what is asked for if that is more; the
\* first capacity is 8 there.
NewCapacity(b, count) ==
  LET double == IF b.capacity = 0 THEN 2 ELSE b.capacity * 2
  IN IF double < b.size + count THEN b.size + count ELSE double

BufferAlloc(b, count) ==
  LET grown == IF b.size + count > b.capacity
               THEN [b EXCEPT !.storage = Reallocated(@, NewCapacity(b, count)),
                              !.capacity = NewCapacity(b, count)]
               ELSE b
  IN [grown EXCEPT !.size = b.size + count]

\* BufferAppend and BufferAppendOne: what lies beyond the capacity is lost.
BufferAppend(b, elems) ==
  LET room == BufferAlloc(b, Len(elems))
  IN [room EXCEPT !.storage =
        [i \in DOMAIN @ |-> IF i - b.size \in DOMAIN elems THEN elems[i - b.size] ELSE @[i]]]

BufferPopOne(b) == [b EXCEPT !.size = @ - 1]
BufferClear(b) == [b EXCEPT !.size = 0]

-----------------------------------------------------------------------------

\* Whatever was allocated and not given back is aligned, inside the memory that the
\* heap returned and apart from everything else that is live: scopes nest, and a
\* block outlives every scope that began after it.
LinearRight(base, maxSize, ops) ==
  LET a == FoldLeft(LinearStep, LinearAllocInit(base, maxSize), ops)
      Bytes(b) == b.at .. b.at + b.size - 1
  IN \A b \in a.live :
       /\ b.at % b.align = 0
       /\ Bytes(b) \subseteq a.room
       /\ \A c \in a.live : c # b => Bytes(c) \cap Bytes(b) = {}

\* A buffer holds what was appended and not popped, in order, within its storage.
BufferRight(ops) ==
  LET Step(s, op) ==
        CASE op.call = "append" -> [b |-> BufferAppend(s.b, op.elems), ref |-> s.ref \o op.elems]
          [] op.call = "clear" -> [b |-> BufferClear(s.b), ref |-> <<>>]
          [] op.call = "pop" -> IF s.ref = <<>> THEN s
                                ELSE [b |-> BufferPopOne(s.b), ref |-> Front(s.ref)]
      end == FoldLeft(Step, [b |-> BufferInit, ref |-> <<>>], ops)
  IN end.b.size <= end.b.capacity /\ SubSeq(end.b.storage, 1, end.b.size) = end.ref

=============================================================================
