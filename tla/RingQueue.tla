----------------------------- MODULE RingQueue -----------------------------
(***************************************************************************)
(* The ring buffer inside BuildQueue: m_Queue, m_QueueReadIndex and        *)
(* m_QueueWriteIndex, its capacity, and the index arithmetic of Enqueue,   *)
(* NextNode and BuildQueueBuildNodeRange.  BuildQueue treats the queue as  *)
(* a sequence; this module shows that it is one.                           *)
(*                                                                         *)
(* The indices are unsigned 32-bit and the capacity is a power of two, so  *)
(* masking with capacity - 1, wraparound included, is reduction modulo the *)
(* capacity.                                                               *)
(***************************************************************************)
EXTENDS Integers, Sequences, FiniteSetsExt, Bitwise

CONSTANTS
  NodeCounts,   \* the values of m_MaxNodes to look at
  NoNode        \* what uninitialised storage holds

VARIABLES
  maxNodes,     \* m_Config.m_MaxNodes, fixed by BuildQueueInit
  capacity,     \* m_QueueCapacity, fixed by BuildQueueInit
  buffer,       \* m_Queue
  read,         \* m_QueueReadIndex
  write         \* m_QueueWriteIndex

ringVars == <<maxNodes, capacity, buffer, read, write>>

\* The bit smearing of NextPowerOfTwo.
NextPowerOfTwo(val) ==
  LET m16 == (val - 1) | ((val - 1) \div 2^16)
      m8  == m16 | (m16 \div 2^8)
      m4  == m8 | (m8 \div 2^4)
      m2  == m4 | (m4 \div 2^2)
      m1  == m2 | (m2 \div 2)
  IN m1 + 1

\* Slip: the count is not wrapped.
AvailableNodeCount_NoWrap == write - read

AvailableNodeCount == (write - read) % capacity

\* The nodes between the two indices, in the order they will be taken.
Content == [i \in 1 .. AvailableNodeCount |-> buffer[(read + i - 1) % capacity]]

NodeIndex == 0 .. maxNodes - 1

-----------------------------------------------------------------------------

\* BuildQueueInit: the storage is not initialised.
Init ==
  /\ maxNodes \in NodeCounts
  /\ capacity = NextPowerOfTwo(maxNodes + 1)
  /\ buffer = [i \in 0 .. capacity - 1 |-> NoNode]
  /\ read = 0 /\ write = 0

\* BuildQueueBuildNodeRange resets both indices; the pass before it is over.
BuildNodeRange(first, count) ==
  /\ AvailableNodeCount = 0
  /\ first + count <= maxNodes
  /\ buffer' = [i \in DOMAIN buffer |-> IF i < count THEN first + i ELSE buffer[i]]
  /\ read' = 0 /\ write' = count
  /\ UNCHANGED <<maxNodes, capacity>>

\* A node is enqueued only if it is not flagged queued.
Enqueue(n) ==
  /\ n \notin Range(Content)
  /\ buffer' = [buffer EXCEPT ![write] = n]
  /\ write' = (write + 1) % capacity
  /\ UNCHANGED <<maxNodes, capacity, read>>

NextNode ==
  /\ AvailableNodeCount # 0
  /\ read' = (read + 1) % capacity
  /\ UNCHANGED <<maxNodes, capacity, buffer, write>>

Next ==
  \/ \E first \in NodeIndex, count \in 0 .. maxNodes : BuildNodeRange(first, count)
  \/ \E n \in NodeIndex : Enqueue(n)
  \/ NextNode

Spec == Init /\ [][Next]_ringVars

-----------------------------------------------------------------------------

Fifo == INSTANCE NodeFifo WITH NodeIndex <- 0 .. Max(NodeCounts) - 1, fifo <- Content

\* The ring is a first-in first-out list with room for every node at once: a
\* full queue is never taken for an empty one, no entry is overwritten, and a
\* wrapped index reads what was written.
ImplementsFifo == Fifo!Spec

=============================================================================
