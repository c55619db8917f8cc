------------------------------ MODULE NodeFifo ------------------------------
(***************************************************************************)
(* What the ring buffer of the build queue promises: a first-in first-out  *)
(* list that has room for every node.                                      *)
(***************************************************************************)
EXTENDS Integers, Sequences, FiniteSets, Functions

CONSTANT NodeIndex     \* the indices of m_NodeState

VARIABLE fifo

Init == fifo = <<>>

\* A pass puts the nodes first .. first + count - 1 in, in that order.
Load(first, count) ==
  /\ fifo = <<>>
  /\ fifo' = [i \in 1 .. count |-> first + i - 1]

Put(n) ==
  /\ n \notin Range(fifo)
  /\ fifo' = Append(fifo, n)

Take ==
  /\ fifo # <<>>
  /\ fifo' = Tail(fifo)

Next ==
  \/ \E first \in NodeIndex, count \in 0 .. Cardinality(NodeIndex) : Load(first, count)
  \/ \E n \in NodeIndex : Put(n)
  \/ Take

Spec == Init /\ [][Next]_fifo

=============================================================================
