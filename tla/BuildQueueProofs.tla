-------------------------- MODULE BuildQueueProofs --------------------------
(***************************************************************************)
(* Last part of the proofs about BuildQueue: the theorems, for every DAG,  *)
(* every number of threads and passes and every limit on expensive jobs.   *)
(***************************************************************************)
EXTENDS BuildQueueLimits, FiniteSetTheorems

-----------------------------------------------------------------------------
(* The invariants always hold. *)

\* What the earlier parts suppose of finite sets.
LEMMA FiniteFactsHold == FiniteFacts
<1>1. \A S : IsFiniteSet(S) => Cardinality(S) \in Nat
  BY FS_CardinalityType, Zenon
<1>2. \A S, T : IsFiniteSet(S) /\ T \subseteq S => IsFiniteSet(T) /\ Cardinality(T) <= Cardinality(S)
  BY FS_Subset, Zenon
<1>3. ASSUME NEW S, NEW x, IsFiniteSet(S)
      PROVE  /\ IsFiniteSet(S \cup {x})
             /\ Cardinality(S \cup {x}) = IF x \in S THEN Cardinality(S) ELSE Cardinality(S) + 1
             /\ IsFiniteSet(S \ {x})
             /\ Cardinality(S \ {x}) = IF x \in S THEN Cardinality(S) - 1 ELSE Cardinality(S)
  BY <1>3, FS_AddElement, FS_RemoveElement, Zenon
<1>4. ASSUME NEW S, NEW T, NEW f \in Surjection(S, T), IsFiniteSet(S)
      PROVE  IsFiniteSet(T) /\ Cardinality(T) <= Cardinality(S)
  BY <1>4, FS_Surjection, Zenon
<1> QED
  BY <1>1, <1>2, <1>3, <1>4, FS_EmptySet, Zenon DEF FiniteFacts

\* The invariants hold after BuildQueueInit.
LEMMA QueueStarts == Init => BaseInv /\ NodeInv /\ ExpensiveInv
  BY FiniteFactsHold, BaseInit, NodeInit, ExpensiveInit

\* What needs nothing of the expensive nodes.
LEMMA NodeAlways == Spec => [](BaseInv /\ NodeInv)
<1>1. Init => BaseInv /\ NodeInv
  BY QueueStarts
<1>2. BaseInv /\ NodeInv /\ [Next]_vars => (BaseInv /\ NodeInv)'
  BY BaseStep, NodeStep
<1> QED
  BY <1>1, <1>2, PTL DEF Spec

\* The whole invariant.
LEMMA ExpensiveAlways ==
  ASSUME NoEmptyExpensive
  PROVE  Spec => [](BaseInv /\ NodeInv /\ ExpensiveInv)
<1>1. BaseInv /\ NodeInv /\ ExpensiveInv /\ [Next]_vars => (BaseInv /\ NodeInv /\ ExpensiveInv)'
  BY BaseStep, NodeStep, ExpensiveStep
<1> QED
  BY <1>1, QueueStarts, PTL DEF Spec

-----------------------------------------------------------------------------
(* The safety properties. *)

\* The types of BuildQueueState and NodeState, for every DAG and every number
\* of threads; in particular the pass index stays within the passes.
THEOREM TypeCorrect == Spec => []TypeOK
<1>1. BaseInv => TypeOK
  BY DEF BaseInv
<1> QED
  BY <1>1, NodeAlways, PTL

\* No thread signs the inputs of a node or runs its action before every
\* dependency of the node is completed and, without -k, succeeded.
THEOREM DependenciesFirstHolds == Spec => []DependenciesFirst
  BY NodeAlways, NodeImplies, PTL

\* RunAction and CheckInputSignature, which work without the queue's mutex,
\* never share a node with another thread or with the queue.
THEOREM ExclusiveOwnershipHolds == Spec => []ExclusiveOwnership
  BY NodeAlways, NodeImplies, PTL

\* The hand-over between SetupDependencies and UnblockWaiters forgets no node.
THEOREM NoLostNodeHolds == Spec => []NoLostNode
  BY NodeAlways, NodeImplies, PTL

\* BuildQueueBuildNodeRange starts a pass only when the earlier ones have
\* completed without an error, and touches no node of a later one.
THEOREM PassBarrierHolds == Spec => []PassBarrier
  BY NodeAlways, NodeImplies, PTL

\* m_PendingNodeCount, on which the main thread leaves BuildLoop, is exact.
THEOREM PendingExactHolds == Spec => []PendingExact
  BY NodeAlways, NodeImplies, PTL

\* What BuildQueueBuildNodeRange returns is what happened to the nodes.
THEOREM ResultSoundHolds == Spec => []ResultSound
  BY NodeAlways, NodeImplies, PTL

\* After BuildQueueDestroy no node is half-way through.
THEOREM QuietAtExitHolds == Spec => []QuietAtExit
  BY NodeAlways, NodeImplies, PTL

\* With -k a pass that no signal interrupts completes all its nodes.
THEOREM KeepGoingHolds == Spec => []KeepGoing
  BY NodeAlways, NodeImplies, PTL

\* m_ExpensiveRunning counts the expensive actions that are running, and they
\* never exceed the limit DriverBuild sets, if RunAction runs the action of
\* every expensive node.
THEOREM ExpensiveLimitHolds ==
  ASSUME NoEmptyExpensive
  PROVE  Spec => []ExpensiveLimit
<1>1. ExpensiveInv => ExpensiveLimit
  BY DEF ExpensiveInv
<1> QED
  BY <1>1, ExpensiveAlways, PTL

\* UnparkExpensiveNode lets one parked node in for every expensive action that
\* ends, and that is enough: a parked node always has somebody to wait for.
THEOREM ParkedHasWakerHolds ==
  ASSUME NoEmptyExpensive
  PROVE  Spec => []ParkedHasWaker
<1>1. ExpensiveInv => ParkedHasWaker
  BY DEF ExpensiveInv
<1> QED
  BY <1>1, ExpensiveAlways, PTL

\* No CHECK of BuildQueue.cpp on the flags, the progress and the pass of a node
\* and on m_ExpensiveRunning can fail.
THEOREM AssertionsHoldAlways ==
  ASSUME NoEmptyExpensive
  PROVE  Spec => []AssertionsHold
<1>1. BaseInv /\ NodeInv /\ ExpensiveInv => AssertionsHold
  BY AssertionsFollow
<1> QED
  BY <1>1, ExpensiveAlways, PTL

\* Whatever the threads do, the nodes are checked, run and finished in an order
\* and within the limits that BuildOrder allows, for every DAG, any number of
\* threads and passes, with and without -k.
THEOREM BuildOrderImplemented ==
  ASSUME NoEmptyExpensive
  PROVE  Spec => ImplementsBuildOrder
<1>1. BaseInv /\ NodeInv /\ ExpensiveInv /\ [Next]_vars
        => [Order!Next]_(<<[n \in Node |-> StageOf(n)], currentPass>>)
  BY OrderStep
<1> QED
  BY <1>1, OrderInit, ExpensiveAlways, PTL DEF Spec, ImplementsBuildOrder, Order!Spec

=============================================================================
