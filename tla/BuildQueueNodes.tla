-------------------------- MODULE BuildQueueNodes ---------------------------
(***************************************************************************)
(* Second part of the proofs about BuildQueue: the inductive invariant of  *)
(* the nodes; each kind of step (a node is taken, blocked, advanced,       *)
(* parked, finished, unblocked; a pass starts) keeps it, so every action   *)
(* does; and the safety properties follow from it.                         *)
(***************************************************************************)
EXTENDS BuildQueueBase

-----------------------------------------------------------------------------
(* The inductive invariant: where a node is, what its flags and progress    *)
(* say, and what the counters count.                                        *)

CompletedNodes == {n \in Node : Completed(n)}

\* The nodes of the pass that have not been through UnblockWaiters.
Open == {n \in NodesOfPass(currentPass) : ~Completed(n) \/ n \in Held}

\* CheckInputSignature and RunAction leave the progress of the node alone
\* while they run.
ThreadInv ==
  \A t \in Thread : /\ pc[t] = "Check" => progress[cur[t]] = "kUnblocked"
                    /\ pc[t] = "Run" => progress[cur[t]] = "kRunAction"

\* kQueued and kActive say where a node is.
FlagInv ==
  /\ queued = Range(queue) \cup Range(waitList)
  /\ active = Held \cup Range(waitList) \cup CompletedNodes
  /\ (Range(queue) \cup Range(waitList)) \cap CompletedNodes = {}

\* Only a node in the hands of a thread is half-way through; a node that waits
\* with kRunAction is an expensive one that was parked.
StageInv ==
  \A n \in Node :
    /\ n \in Range(queue) => \/ progress[n] \in {"kInitial", "kBlocked"}
                             \/ progress[n] = "kRunAction" /\ n \in Expensive
    /\ n \in Range(waitList) => progress[n] = "kRunAction" /\ n \in Expensive
    /\ n \notin Range(queue) \cup Range(waitList) \cup Held =>
         progress[n] \in {"kInitial", "kBlocked", "kCompleted"}
    /\ result[n] = 1 => Completed(n)

\* A node gets past kBlocked, or back into the queue from it, only when its
\* dependencies are completed.
ReadyInv ==
  \A n \in Node :
    \/ progress[n] \notin {"kInitial", "kBlocked"}
    \/ progress[n] = "kBlocked" /\ n \in Range(queue) \cup Held
    => AllDependenciesReady(n)

\* m_FailedNodeCount knows of every failure, and without -k no node gets past
\* kBlocked after one.
FailInv ==
  /\ failed > 0 <=> \E n \in Node : result[n] = 1
  /\ ~ContinueOnError => \A n \in Node :
       /\ progress[n] \notin {"kInitial", "kBlocked"} => \A d \in Deps[n] : result[d] = 0
       /\ n \in Held /\ progress[n] \in {"kInitial", "kBlocked"} => failed = 0

CountInv == pending = Cardinality(Open)

\* What the driver's thread may rely on at the end of a pass and of the build.
MainInv ==
  /\ pc[Main] = "Pass" => failed = 0 /\ Open = {}
  /\ pc[Main] = "Result" => signalled \/ (failed > 0 /\ ~ContinueOnError) \/ Open = {}
  /\ quit => pc[Main] \in {"QuitWake", "Join", "Done"}
  /\ pc[Main] \in {"Quit", "QuitWake", "Join", "Done"} =>
       /\ buildResult = "kOk" => failed = 0 /\ Open = {} /\ currentPass = PassCount - 1
       /\ buildResult = "kBuildError" => failed > 0
  /\ pc[Main] = "Done" => \A t \in Worker : pc[t] = "Exited"

NodeInv ==
  /\ ThreadInv /\ ExclusiveOwnership /\ FlagInv /\ StageInv /\ ReadyInv
  /\ PassBarrier /\ NoLostNode /\ FailInv /\ CountInv /\ MainInv

-----------------------------------------------------------------------------
(* Which nodes are held after a step. *)

\* Two busy threads never work on the same node.
Distinct == \A t, u \in Busy : cur[t] = cur[u] => t = u

\* What a step of thread t to x with node c means for the nodes held.
LEMMA HeldStep ==
  ASSUME BaseInv, Distinct, NEW t \in Thread, NEW x \in Place, NEW c, Control(t, x, c)
  PROVE  /\ pc[t] \in BusyAt /\ x \in BusyAt /\ c = cur[t] => Held' = Held /\ Distinct'
         /\ pc[t] \notin BusyAt /\ x \notin BusyAt => Held' = Held /\ Distinct'
         /\ pc[t] \notin BusyAt /\ x \in BusyAt => Held' = Held \cup {c} /\ (c \notin Held => Distinct')
         /\ pc[t] \in BusyAt /\ x \notin BusyAt => Held' = Held \ {cur[t]} /\ Distinct'
<1>1. /\ pc \in [Thread -> Place] /\ cur \in [Thread -> Node \cup {NoNode}]
      /\ pc' \in [Thread -> Place]
      /\ cur' = [cur EXCEPT ![t] = c]
  BY DEF BaseInv, TypeOK, Control
<1>2. \A u \in Thread : /\ pc'[u] \in BusyAt <=> (IF u = t THEN x \in BusyAt ELSE pc[u] \in BusyAt)
                        /\ cur'[u] = IF u = t THEN c ELSE cur[u]
  <2>1. \A u \in Thread : pc'[u] \in BusyAt <=> (IF u = t THEN x \in BusyAt ELSE pc[u] \in BusyAt)
    BY DEF Control, BusyAt
  <2> QED
    BY <1>1, <2>1
<1>3. \A n : n \in Held <=> \E u \in Thread : pc[u] \in BusyAt /\ cur[u] = n
  BY DEF Held, Busy
<1>4. \A n : n \in Held' <=> \E u \in Thread : pc'[u] \in BusyAt /\ cur'[u] = n
  BY DEF Held, Busy
<1>5. \A u, v \in Thread : pc[u] \in BusyAt /\ pc[v] \in BusyAt /\ cur[u] = cur[v] => u = v
  BY DEF Distinct, Busy
<1>6. (\A u, v \in Thread : pc'[u] \in BusyAt /\ pc'[v] \in BusyAt /\ cur'[u] = cur'[v] => u = v) => Distinct'
  BY DEF Distinct, Busy
<1>7. pc[t] \in BusyAt /\ x \in BusyAt /\ c = cur[t] => Held' = Held /\ Distinct'
  BY <1>2, <1>3, <1>4, <1>5, <1>6
<1>8. pc[t] \notin BusyAt /\ x \notin BusyAt => Held' = Held /\ Distinct'
  <2>1. pc[t] \notin BusyAt /\ x \notin BusyAt => Held' = Held
    BY <1>2, <1>3, <1>4
  <2>2. pc[t] \notin BusyAt /\ x \notin BusyAt => Distinct'
    BY <1>2, <1>5, <1>6
  <2> QED
    BY <2>1, <2>2
<1>9. pc[t] \notin BusyAt /\ x \in BusyAt => Held' = Held \cup {c} /\ (c \notin Held => Distinct')
  BY <1>2, <1>3, <1>4, <1>5, <1>6
<1>10. pc[t] \in BusyAt /\ x \notin BusyAt => Held' = Held \ {cur[t]} /\ Distinct'
  BY <1>2, <1>3, <1>4, <1>5, <1>6
<1> QED
  BY <1>7, <1>8, <1>9, <1>10

\* A thread that goes on with its own node does not disturb the others.
LEMMA ThreadInvStep ==
  ASSUME BaseInv, Distinct, ThreadInv, NEW t \in Thread, NEW x \in Place, NEW c, Control(t, x, c),
         \A n \in Node : (\A u \in Busy : cur[u] = n => u = t) \/ progress'[n] = progress[n],
         x = "Check" => progress'[c] = "kUnblocked",
         x = "Run" => progress'[c] = "kRunAction"
  PROVE  ThreadInv'
<1> SUFFICES ASSUME NEW u \in Thread
             PROVE  /\ pc'[u] = "Check" => progress'[cur'[u]] = "kUnblocked"
                    /\ pc'[u] = "Run" => progress'[cur'[u]] = "kRunAction"
  BY DEF ThreadInv
<1>1. cur \in [Thread -> Node \cup {NoNode}] /\ cur' = [cur EXCEPT ![t] = c]
  BY DEF BaseInv, TypeOK, Control
<1>2. CASE u = t
  BY <1>1, <1>2 DEF Control
<1>3. CASE u # t
  <2> SUFFICES ASSUME pc'[u] \in {"Check", "Run"}
               PROVE  pc'[u] = pc[u] /\ cur'[u] = cur[u] /\ progress'[cur[u]] = progress[cur[u]]
    BY DEF ThreadInv
  <2>1. pc'[u] = pc[u] /\ cur'[u] = cur[u]
    BY <1>1, <1>3 DEF Control
  <2>2. u \in Busy /\ cur[u] \in Node
    BY <2>1 DEF BaseInv, CurInv, Busy, BusyAt
  <2> QED
    BY <1>3, <2>1, <2>2
<1> QED
  BY <1>2, <1>3

-----------------------------------------------------------------------------
(* Small consequences of the invariant. *)

\* Where the nodes in the queue, in the wait list and in the hands of threads
\* are, in terms of passes and of Open.
LEMMA InUse ==
  ASSUME BaseInv, NodeInv
  PROVE  /\ Range(queue) \cup Range(waitList) \cup Held \subseteq Open
         /\ Range(queue) \subseteq Node /\ Range(waitList) \subseteq Node /\ Held \subseteq Node
         /\ \A n \in Range(queue) \cup Range(waitList) \cup Held : PassOf[n] = currentPass
         /\ Open \subseteq Node /\ IsFiniteSet(Open)
<1>1. Held \subseteq Node
  BY DEF Held, Busy, BaseInv, CurInv
<1>2. Range(queue) \subseteq Node /\ Range(waitList) \subseteq Node
  BY DEF BaseInv, TypeOK, NodeInv, FlagInv
<1>3. ASSUME NEW n \in Range(queue) \cup Range(waitList) \cup Held
      PROVE  PassOf[n] = currentPass /\ n \in Open /\ n \in Node
  <2>1. n \in Node /\ n \in queued \cup active
    BY <1>1, <1>2, <1>3 DEF NodeInv, FlagInv
  <2>2. ~Completed(n) \/ n \in Held
    BY <2>1 DEF NodeInv, FlagInv, CompletedNodes
  <2>3. ~(PassOf[n] > currentPass)
    BY <2>1 DEF NodeInv, PassBarrier
  <2>4. ~(PassOf[n] < currentPass)
    BY <2>1, <2>2 DEF NodeInv, PassBarrier
  <2>5. PassOf[n] \in Int /\ currentPass \in Int
    BY <2>1, DagAssumption DEF BaseInv, TypeOK
  <2>6. PassOf[n] = currentPass
    BY <2>3, <2>4, <2>5
  <2> QED
    BY <2>1, <2>2, <2>6 DEF Open, NodesOfPass
<1>4. Open \subseteq Node /\ IsFiniteSet(Open)
  BY FinSubset, DagAssumption DEF Open, NodesOfPass, BaseInv
<1> QED
  BY <1>1, <1>2, <1>3, <1>4

\* The thread in AdvanceNode's switch has m_Lock, so it is the only one there.
LEMMA OneAdvances ==
  ASSUME BaseInv, NEW t \in Thread, NEW u \in Thread, pc[t] = "Advance", pc[u] = "Advance"
  PROVE  t = u
  BY DEF BaseInv, LockInv, LockedAt

\* Hence a node that is held with a progress that only the switch gives is the
\* node of the thread with m_Lock.
LEMMA HeldByHolder ==
  ASSUME BaseInv, NodeInv, NEW t \in Thread, pc[t] = "Advance", NEW n \in Held,
         progress[n] \notin {"kUnblocked", "kRunAction"}
  PROVE  n = cur[t]
<1>1. PICK u \in Thread : pc[u] \in BusyAt /\ cur[u] = n
  BY DEF Held, Busy
<1>2. pc[u] = "Advance"
  BY <1>1 DEF NodeInv, ThreadInv, BusyAt
<1> QED
  BY <1>1, <1>2, OneAdvances

\* No thread in the switch: every held node is being checked or run.
LEMMA HeldNoHolder ==
  ASSUME BaseInv, NodeInv, lock = NoThread, NEW n \in Held
  PROVE  progress[n] \in {"kUnblocked", "kRunAction"}
<1>1. PICK u \in Thread : pc[u] \in BusyAt /\ cur[u] = n
  BY DEF Held, Busy
<1>2. pc[u] # "Advance"
  BY ThreadAssumption DEF BaseInv, LockInv, LockedAt
<1> QED
  BY <1>1, <1>2 DEF NodeInv, ThreadInv, BusyAt

\* When nothing is open, nothing is queued, parked or held, and every node of
\* this and earlier passes is completed.
LEMMA NothingOpen ==
  ASSUME BaseInv, NodeInv, Open = {}
  PROVE  /\ Range(queue) = {} /\ Range(waitList) = {} /\ Held = {}
         /\ queue = <<>> /\ waitList = <<>>
         /\ \A n \in Node : PassOf[n] <= currentPass => Completed(n)
<1>1. Range(queue) = {} /\ Range(waitList) = {} /\ Held = {}
  BY InUse
<1>2. queue = <<>> /\ waitList = <<>>
  <2>1. \A q \in Seq(Node) : Range(q) = {} => q = <<>>
    <3> SUFFICES ASSUME NEW q \in Seq(Node), q # <<>> PROVE q[1] \in Range(q)
      OBVIOUS
    <3>1. 1 \in DOMAIN q
      OBVIOUS
    <3> QED
      BY <3>1 DEF Range
  <2> QED
    BY <1>1, <2>1 DEF BaseInv, TypeOK
<1>3. ASSUME NEW n \in Node, PassOf[n] <= currentPass
      PROVE  Completed(n)
  <2>1. PassOf[n] \in Int /\ currentPass \in Int
    BY DagAssumption DEF BaseInv, TypeOK
  <2>2. CASE PassOf[n] = currentPass
    BY <2>2 DEF Open, NodesOfPass
  <2>3. CASE PassOf[n] < currentPass
    BY <2>3 DEF NodeInv, PassBarrier
  <2> QED
    BY <1>3, <2>1, <2>2, <2>3
<1> QED
  BY <1>1, <1>2, <1>3

-----------------------------------------------------------------------------
(* The steps, one kind at a time.  NodeCore is what concerns nodes alone.   *)

NodeCore ==
  /\ ExclusiveOwnership /\ FlagInv /\ StageInv /\ ReadyInv
  /\ PassBarrier /\ NoLostNode /\ FailInv /\ CountInv

\* The nodes of P go from the wait list to the queue.
Unparked(P) ==
  /\ P \subseteq Range(waitList)
  /\ Range(queue') = Range(queue) \cup P /\ Range(waitList') = Range(waitList) \ P
  /\ queued' = queued \cup P /\ active' = active \ P
  /\ IsInjective(queue') /\ IsInjective(waitList')

\* UnparkExpensiveNode moves one node or none.
LEMMA AfterRunActionUnparks ==
  ASSUME BaseInv, NodeInv, NEW n, NEW p, AfterRunAction(n, p)
  PROVE  \E P : Unparked(P)
<1>1. /\ queue \in Seq(Node) /\ waitList \in Seq(Node)
      /\ IsInjective(queue) /\ IsInjective(waitList) /\ Range(queue) \cap Range(waitList) = {}
  BY DEF BaseInv, TypeOK, NodeInv, ExclusiveOwnership
<1>2. CASE n \notin Expensive \/ waitList = <<>>
  <2>1. UNCHANGED <<queue, waitList, queued, active>>
    BY <1>2 DEF AfterRunAction, queueVars
  <2>2. Unparked({})
    BY <1>1, <2>1 DEF Unparked
  <2> QED
    BY <2>2
<1>3. CASE n \in Expensive /\ waitList # <<>>
  <2> DEFINE parked == waitList[Len(waitList)]
  <2>1. /\ waitList' = SubSeq(waitList, 1, Len(waitList) - 1)
        /\ queue' = Append(queue, parked)
        /\ queued' = queued \cup {parked} /\ active' = active \ {parked}
    BY <1>3, Zenon DEF AfterRunAction
  <2>2. /\ parked \in Node /\ parked \in Range(waitList)
        /\ Range(waitList') = Range(waitList) \ {parked} /\ IsInjective(waitList')
    BY <1>1, <1>3, <2>1, FrontProp
  <2> HIDE DEF parked
  <2>3. Range(queue') = Range(queue) \cup {parked} /\ IsInjective(queue')
    BY <1>1, <2>1, <2>2, AppendProp
  <2>4. Unparked({parked})
    BY <2>1, <2>2, <2>3 DEF Unparked
  <2> QED
    BY <2>4
<1> QED
  BY <1>2, <1>3

\* A thread moves the node it holds on to y, short of kCompleted, and possibly
\* unparks another one.
LEMMA StageStep ==
  ASSUME BaseInv, NodeInv, NEW n \in Held,
         NEW y \in {"kUnblocked", "kRunAction", "kUpToDate", "kSucceeded", "kFailed"},
         ~Completed(n), AllDependenciesReady(n), ~ContinueOnError => \A d \in Deps[n] : result[d] = 0,
         progress' = [progress EXCEPT ![n] = y],
         Held' = Held, Distinct', UNCHANGED <<result, pending, failed, currentPass>>,
         NEW P, Unparked(P)
  PROVE  NodeCore'
<1>1. /\ progress \in [Node -> Progress] /\ n \in Node /\ Held \subseteq Node
      /\ Range(queue) \subseteq Node /\ Range(waitList) \subseteq Node
  BY InUse, Zenon DEF BaseInv, TypeOK
<1>2. \A m \in Node : progress'[m] = IF m = n THEN y ELSE progress[m]
  BY <1>1
<1>3. \A m \in Node : Completed(m)' <=> Completed(m)
  BY <1>2 DEF Completed
<1>4. \A m \in Node : AllDependenciesReady(m)' <=> AllDependenciesReady(m)
  BY <1>3, DagAssumption DEF AllDependenciesReady
<1>5. CompletedNodes' = CompletedNodes /\ NodesOfPass(currentPass)' = NodesOfPass(currentPass)
  BY <1>3 DEF CompletedNodes, NodesOfPass
<1>6. Open' = Open
  BY <1>3, <1>5 DEF Open, NodesOfPass
<1>7. n \notin Range(queue) \cup Range(waitList)
  BY DEF NodeInv, ExclusiveOwnership
<1>8. ExclusiveOwnership'
  BY Zenon DEF NodeInv, ExclusiveOwnership, Unparked, Distinct
<1>9. FlagInv'
  <2>1. P \cap (Held \cup CompletedNodes) = {}
    BY Zenon DEF NodeInv, ExclusiveOwnership, FlagInv, Unparked
  <2> QED
    BY <1>5, <2>1 DEF NodeInv, FlagInv, Unparked
<1>10. StageInv'
  <2> SUFFICES ASSUME NEW m \in Node
               PROVE  /\ m \in Range(queue') => \/ progress'[m] \in {"kInitial", "kBlocked"}
                                                \/ progress'[m] = "kRunAction" /\ m \in Expensive
                      /\ m \in Range(waitList') => progress'[m] = "kRunAction" /\ m \in Expensive
                      /\ m \notin Range(queue') \cup Range(waitList') \cup Held' =>
                           progress'[m] \in {"kInitial", "kBlocked", "kCompleted"}
                      /\ result'[m] = 1 => Completed(m)'
    BY DEF StageInv
  <2> QED
    BY <1>2, <1>3, <1>7, Zenon DEF NodeInv, StageInv, Unparked
<1>11. ReadyInv'
  <2> SUFFICES ASSUME NEW m \in Node,
                      \/ progress'[m] \notin {"kInitial", "kBlocked"}
                      \/ progress'[m] = "kBlocked" /\ m \in Range(queue') \cup Held'
               PROVE  AllDependenciesReady(m)
    BY <1>4 DEF ReadyInv
  <2>1. CASE m = n
    BY <2>1
  <2>2. CASE m # n
    <3>1. m \in P => progress[m] = "kRunAction"
      BY DEF NodeInv, StageInv, Unparked
    <3> QED
      BY <1>2, <2>2, <3>1 DEF NodeInv, ReadyInv, Unparked
  <2> QED
    BY <2>1, <2>2
<1>12. PassBarrier'
  <2>1. PassOf[n] = currentPass /\ queued' \cup active' \subseteq queued \cup active
    BY InUse, Zenon DEF Unparked, NodeInv, FlagInv
  <2>2. PassOf[n] \in Int
    BY <1>1, DagAssumption
  <2> QED
    BY <1>2, <1>3, <2>1, <2>2 DEF NodeInv, PassBarrier
<1>13. NoLostNode'
  <2> SUFFICES ASSUME NEW m \in NodesOfPass(currentPass)
               PROVE  \/ Completed(m)'
                      \/ m \in Range(queue') \cup Range(waitList') \cup Held'
                      \/ progress'[m] = "kBlocked" /\ \E d \in Deps[m] : ~Completed(d)' \/ d \in Held'
    BY <1>5 DEF NoLostNode
  <2>1. m \in Node /\ Deps[m] \subseteq Node
    BY DagAssumption DEF NodesOfPass
  <2>2. CASE m = n
    BY <2>2
  <2>3. CASE m # n
    BY <1>2, <1>3, <2>1, <2>3, Zenon DEF NodeInv, NoLostNode, Unparked
  <2> QED
    BY <2>2, <2>3, Zenon
<1>14. FailInv'
  <2> SUFFICES ASSUME ~ContinueOnError, NEW m \in Node
               PROVE  /\ progress'[m] \notin {"kInitial", "kBlocked"} => \A d \in Deps[m] : result[d] = 0
                      /\ m \in Held /\ progress'[m] \in {"kInitial", "kBlocked"} => failed = 0
    BY DEF NodeInv, FailInv
  <2> QED
    BY <1>2, Zenon DEF NodeInv, FailInv
<1>15. CountInv'
  BY <1>6, Zenon DEF NodeInv, CountInv
<1> QED
  BY <1>8, <1>9, <1>10, <1>11, <1>12, <1>13, <1>14, <1>15 DEF NodeCore

\* A step that changes neither nodes nor queues nor counters.
LEMMA StillStep ==
  ASSUME NodeInv, Held' = Held, Distinct',
         UNCHANGED <<nodeVars, queue, waitList, pending, failed, currentPass>>
  PROVE  NodeCore'
<1>1. UNCHANGED <<progress, queued, active, result>>
  BY DEF nodeVars
<1>2. /\ Open' = Open /\ CompletedNodes' = CompletedNodes
      /\ \A n : Completed(n)' <=> Completed(n)
      /\ \A n : AllDependenciesReady(n)' <=> AllDependenciesReady(n)
      /\ NodesOfPass(currentPass)' = NodesOfPass(currentPass)
  BY <1>1 DEF Open, CompletedNodes, Completed, AllDependenciesReady, NodesOfPass
<1>3. ExclusiveOwnership' /\ FlagInv' /\ CountInv'
  BY <1>1, <1>2 DEF NodeInv, ExclusiveOwnership, Distinct, FlagInv, CountInv
<1>4. StageInv' /\ ReadyInv' /\ PassBarrier'
  BY <1>1, <1>2, Zenon DEF NodeInv, StageInv, ReadyInv, PassBarrier
<1>5. NoLostNode' /\ FailInv'
  BY <1>1, <1>2 DEF NodeInv, NoLostNode, FailInv
<1> QED
  BY <1>3, <1>4, <1>5 DEF NodeCore

\* NextNode: the head of the queue becomes the node of thread t.
LEMMA TakeStep ==
  ASSUME BaseInv, NodeInv, NEW t \in Thread, TakeNode(t),
         Head(queue) \notin Held => Distinct', Held' = Held \cup {Head(queue)}
  PROVE  NodeCore'
<1> DEFINE n == Head(queue)
<1>1. /\ queue \in Seq(Node) /\ queue # <<>> /\ IsInjective(queue) /\ progress \in [Node -> Progress]
      /\ failed \in Nat
  BY DEF BaseInv, TypeOK, NodeInv, ExclusiveOwnership, TakeNode
<1>2. /\ n \in Node /\ n \in Range(queue)
      /\ Range(queue') = Range(queue) \ {n} /\ IsInjective(queue')
  BY <1>1, TailProp DEF TakeNode
<1>3. /\ queued' = queued \ {n} /\ active' = active \cup {n}
      /\ UNCHANGED <<progress, result, waitList, pending, failed, currentPass>>
  BY DEF TakeNode, countVars
<1>4. failed = 0 \/ ContinueOnError
  BY <1>1 DEF TakeNode, ShouldKeepBuilding
<1>5. Held' = Held \cup {n}
  OBVIOUS
<1>6. n \notin Held /\ n \notin Range(waitList) /\ ~Completed(n) /\ PassOf[n] = currentPass
  BY <1>2, InUse, Zenon DEF NodeInv, ExclusiveOwnership, FlagInv, CompletedNodes
<1>7. Distinct'
  BY <1>6
<1> HIDE DEF n
<1>8. /\ CompletedNodes' = CompletedNodes
      /\ \A m : Completed(m)' <=> Completed(m)
      /\ \A m : AllDependenciesReady(m)' <=> AllDependenciesReady(m)
      /\ NodesOfPass(currentPass)' = NodesOfPass(currentPass)
  BY <1>3, Zenon DEF CompletedNodes, Completed, AllDependenciesReady, NodesOfPass
<1>9. Open' = Open
  BY <1>5, <1>6, <1>8 DEF Open
<1>10. ExclusiveOwnership'
  BY <1>2, <1>3, <1>5, <1>6, <1>7 DEF NodeInv, ExclusiveOwnership, Distinct
<1>11. FlagInv'
  BY <1>2, <1>3, <1>5, <1>6, <1>8, Zenon DEF NodeInv, FlagInv
<1>12. StageInv' /\ ReadyInv'
  BY <1>2, <1>3, <1>5, <1>8, Zenon DEF NodeInv, StageInv, ReadyInv
<1>13. PassBarrier'
  <2>1. PassOf[n] \in Int /\ currentPass \in Int
    BY <1>2, DagAssumption DEF BaseInv, TypeOK
  <2> QED
    BY <1>3, <1>5, <1>6, <1>8, <2>1, Zenon DEF NodeInv, PassBarrier
<1>14. NoLostNode'
  BY <1>2, <1>3, <1>5, <1>8, Zenon DEF NodeInv, NoLostNode
<1>15. FailInv'
  BY <1>3, <1>4, <1>5 DEF NodeInv, FailInv
<1>16. CountInv'
  BY <1>3, <1>9 DEF NodeInv, CountInv
<1> QED
  BY <1>10, <1>11, <1>12, <1>13, <1>14, <1>15, <1>16 DEF NodeCore

\* SetupDependencies never finds a dependency that nobody looks after: the
\* nodes of earlier passes are completed and those of this pass all queued.
LEMMA NothingFresh ==
  ASSUME BaseInv, NodeInv, NEW n \in Held
  PROVE  {d \in Waits(n) : d \notin queued \cup active /\ progress[d] # "kBlocked"} = {}
<1> SUFFICES ASSUME NEW d \in Deps[n], ~Completed(d)
             PROVE  d \in queued \cup active \/ progress[d] = "kBlocked"
  BY DEF Waits
<1>1. n \in Node /\ PassOf[n] = currentPass
  BY InUse
<1>2. d \in Node /\ PassOf[d] <= currentPass
  BY <1>1, DagAssumption
<1>3. PassOf[d] \in Int /\ currentPass \in Int
  BY <1>2, DagAssumption DEF BaseInv, TypeOK
<1>4. PassOf[d] = currentPass
  BY <1>2, <1>3 DEF NodeInv, PassBarrier
<1> QED
  BY <1>2, <1>4 DEF NodeInv, NoLostNode, FlagInv, NodesOfPass

\* SetupDependencies blocks the node of thread t, which lets go of it.
LEMMA BlockStep ==
  ASSUME BaseInv, NodeInv, NEW n \in Held, progress[n] = "kInitial", Waits(n) # {},
         progress' = [progress EXCEPT ![n] = "kBlocked"], active' = active \ {n},
         Held' = Held \ {n}, Distinct',
         UNCHANGED <<queued, result, queue, waitList, pending, failed, currentPass>>
  PROVE  NodeCore'
<1>1. /\ progress \in [Node -> Progress] /\ n \in Node /\ PassOf[n] = currentPass
      /\ n \notin Range(queue) \cup Range(waitList)
  BY InUse, Zenon DEF BaseInv, TypeOK, NodeInv, ExclusiveOwnership
<1>2. \A m \in Node : progress'[m] = IF m = n THEN "kBlocked" ELSE progress[m]
  BY <1>1
<1>3. \A m \in Node : Completed(m)' <=> Completed(m)
  BY <1>2 DEF Completed
<1>4. \A m \in Node : AllDependenciesReady(m)' <=> AllDependenciesReady(m)
  BY <1>3, DagAssumption DEF AllDependenciesReady
<1>5. CompletedNodes' = CompletedNodes /\ NodesOfPass(currentPass)' = NodesOfPass(currentPass)
  BY <1>3 DEF CompletedNodes, NodesOfPass
<1>6. ~Completed(n)
  BY DEF Completed
<1>7. Open' = Open
  BY <1>3, <1>5, <1>6 DEF Open, NodesOfPass
<1>8. ExclusiveOwnership'
  BY DEF NodeInv, ExclusiveOwnership, Distinct
<1>9. FlagInv'
  BY <1>1, <1>5, <1>6, Zenon DEF NodeInv, FlagInv, CompletedNodes
<1>10. StageInv'
  BY <1>1, <1>2, <1>3, Zenon DEF NodeInv, StageInv
<1>11. ReadyInv'
  BY <1>1, <1>2, <1>4, Zenon DEF NodeInv, ReadyInv
<1>12. PassBarrier'
  <2>1. PassOf[n] \in Int
    BY <1>1, DagAssumption
  <2> QED
    BY <1>1, <1>2, <1>3, <2>1, Zenon DEF NodeInv, PassBarrier
<1>13. NoLostNode'
  <2> SUFFICES ASSUME NEW m \in NodesOfPass(currentPass)
               PROVE  \/ Completed(m)'
                      \/ m \in Range(queue') \cup Range(waitList') \cup Held'
                      \/ progress'[m] = "kBlocked" /\ \E d \in Deps[m] : ~Completed(d)' \/ d \in Held'
    BY <1>5, Zenon DEF NoLostNode
  <2>1. m \in Node /\ \A d \in Deps[m] : d \in Node
    BY DagAssumption DEF NodesOfPass
  <2>2. CASE m = n
    BY <1>2, <1>3, <2>1, <2>2, Zenon DEF Waits
  <2>3. CASE m # n
    BY <1>2, <1>3, <1>6, <2>1, <2>3, Zenon DEF NodeInv, NoLostNode
  <2> QED
    BY <2>2, <2>3, Zenon
<1>14. FailInv'
  <2> SUFFICES ASSUME ~ContinueOnError, NEW m \in Node
               PROVE  /\ progress'[m] \notin {"kInitial", "kBlocked"} => \A d \in Deps[m] : result[d] = 0
                      /\ m \in Held' /\ progress'[m] \in {"kInitial", "kBlocked"} => failed = 0
    BY Zenon DEF NodeInv, FailInv
  <2> QED
    BY <1>2, Zenon DEF NodeInv, FailInv
<1>15. CountInv'
  BY <1>7 DEF NodeInv, CountInv
<1> QED
  BY <1>8, <1>9, <1>10, <1>11, <1>12, <1>13, <1>14, <1>15 DEF NodeCore

\* ParkExpensiveNode: the node goes from its thread to the wait list.
LEMMA ParkStep ==
  ASSUME BaseInv, NodeInv, NEW n \in Held, progress[n] = "kRunAction", n \in Expensive,
         queued' = queued \cup {n}, waitList' = Append(waitList, n),
         Held' = Held \ {n}, Distinct',
         UNCHANGED <<progress, active, result, queue, pending, failed, currentPass>>
  PROVE  NodeCore'
<1>1. /\ n \in Node /\ n \notin Range(queue) \cup Range(waitList) /\ waitList \in Seq(Node)
      /\ IsInjective(waitList)
  BY InUse, Zenon DEF BaseInv, TypeOK, NodeInv, ExclusiveOwnership
<1>2. Range(waitList') = Range(waitList) \cup {n} /\ IsInjective(waitList')
  BY <1>1, AppendProp
<1>3. /\ CompletedNodes' = CompletedNodes
      /\ \A m : Completed(m)' <=> Completed(m)
      /\ \A m : AllDependenciesReady(m)' <=> AllDependenciesReady(m)
      /\ NodesOfPass(currentPass)' = NodesOfPass(currentPass)
  BY Zenon DEF CompletedNodes, Completed, AllDependenciesReady, NodesOfPass
<1>4. ~Completed(n) /\ n \in active
  BY DEF Completed, NodeInv, FlagInv
<1>5. Open' = Open
  BY <1>3, <1>4 DEF Open
<1>6. ExclusiveOwnership'
  BY <1>1, <1>2 DEF NodeInv, ExclusiveOwnership, Distinct
<1>7. FlagInv'
  BY <1>1, <1>2, <1>3, <1>4, Zenon DEF NodeInv, FlagInv, CompletedNodes
<1>8. StageInv' /\ ReadyInv'
  BY <1>1, <1>2, <1>3, Zenon DEF NodeInv, StageInv, ReadyInv
<1>9. PassBarrier'
  BY <1>3, <1>4, Zenon DEF NodeInv, PassBarrier
<1>10. NoLostNode'
  BY <1>2, <1>3, <1>4, Zenon DEF NodeInv, NoLostNode
<1>11. FailInv'
  BY Zenon DEF NodeInv, FailInv
<1>12. CountInv'
  BY <1>5 DEF NodeInv, CountInv
<1> QED
  BY <1>6, <1>7, <1>8, <1>9, <1>10, <1>11, <1>12 DEF NodeCore

\* The node's outcome r is recorded and it becomes kCompleted, still held.
LEMMA FinishStep ==
  ASSUME BaseInv, NodeInv, NEW t \in Thread, pc[t] = "Advance", NEW n \in Held, n = cur[t],
         progress[n] \in {"kSucceeded", "kUpToDate", "kFailed"}, NEW r \in {0, 1},
         progress' = [progress EXCEPT ![n] = "kCompleted"], result' = [result EXCEPT ![n] = r],
         failed' = failed + r, Held' = Held, Distinct',
         UNCHANGED <<queued, active, queue, waitList, pending, currentPass>>
  PROVE  NodeCore'
<1>1. /\ progress \in [Node -> Progress] /\ result \in [Node -> {0, 1}] /\ n \in Node
      /\ PassOf[n] = currentPass /\ failed \in Nat
      /\ n \notin Range(queue) \cup Range(waitList) /\ n \in active
  BY InUse, Zenon DEF BaseInv, TypeOK, NodeInv, ExclusiveOwnership, FlagInv
<1>2. \A m \in Node : /\ progress'[m] = IF m = n THEN "kCompleted" ELSE progress[m]
                      /\ result'[m] = IF m = n THEN r ELSE result[m]
  BY <1>1
<1>3. \A m \in Node : Completed(m)' <=> Completed(m) \/ m = n
  BY <1>2 DEF Completed
<1>4. \A m \in Node : AllDependenciesReady(m) => AllDependenciesReady(m)'
  BY <1>3, DagAssumption, Zenon DEF AllDependenciesReady
<1>5. CompletedNodes' = CompletedNodes \cup {n} /\ NodesOfPass(currentPass)' = NodesOfPass(currentPass)
  BY <1>1, <1>3, Zenon DEF CompletedNodes, NodesOfPass
<1>6. ~Completed(n) /\ result[n] = 0 /\ AllDependenciesReady(n)
  BY <1>1, Zenon DEF Completed, NodeInv, StageInv, ReadyInv
<1>7. Open' = Open
  BY <1>3, <1>5, Zenon DEF Open, NodesOfPass
<1>8. ExclusiveOwnership'
  BY Zenon DEF NodeInv, ExclusiveOwnership, Distinct
<1>9. FlagInv'
  BY <1>1, <1>5, Zenon DEF NodeInv, FlagInv
<1>10. StageInv'
  BY <1>1, <1>2, <1>3, Zenon DEF NodeInv, StageInv
<1>11. ReadyInv'
  BY <1>1, <1>2, <1>4, <1>6, Zenon DEF NodeInv, ReadyInv
<1>12. PassBarrier'
  <2>1. PassOf[n] \in Int
    BY <1>1, DagAssumption, SMTT(30)
  <2> QED
    BY <1>1, <1>2, <1>3, <2>1, Zenon DEF NodeInv, PassBarrier
<1>13. NoLostNode'
  <2> SUFFICES ASSUME NEW m \in NodesOfPass(currentPass)
               PROVE  \/ Completed(m)'
                      \/ m \in Range(queue') \cup Range(waitList') \cup Held'
                      \/ progress'[m] = "kBlocked" /\ \E d \in Deps[m] : ~Completed(d)' \/ d \in Held'
    BY <1>5, Zenon DEF NoLostNode
  <2>1. m \in Node /\ \A d \in Deps[m] : d \in Node
    BY DagAssumption, Zenon DEF NodesOfPass
  <2> QED
    BY <1>2, <1>3, <2>1, Zenon DEF NodeInv, NoLostNode
<1>14. FailInv'
  <2>1. failed' > 0 <=> \E m \in Node : result'[m] = 1
    <3>1. CASE r = 0
      BY <1>1, <1>2, <1>6, <3>1, SMTT(30) DEF NodeInv, FailInv
    <3>2. CASE r = 1
      BY <1>1, <1>2, <3>2
    <3> QED
      BY <3>1, <3>2
  <2>2. ASSUME ~ContinueOnError, NEW m \in Node, progress'[m] \notin {"kInitial", "kBlocked"}
        PROVE  \A d \in Deps[m] : result'[d] = 0
    <3>1. progress[m] \notin {"kInitial", "kBlocked"}
      BY <1>2, <2>2
    <3>2. AllDependenciesReady(m) /\ \A d \in Deps[m] : result[d] = 0 /\ d \in Node
      BY <2>2, <3>1, DagAssumption, Zenon DEF NodeInv, FailInv, ReadyInv
    <3> QED
      BY <1>2, <1>6, <3>2, Zenon DEF AllDependenciesReady
  <2>3. ASSUME ~ContinueOnError, NEW m \in Node, m \in Held', progress'[m] \in {"kInitial", "kBlocked"}
        PROVE  failed' = 0
    <3>1. m # n /\ progress[m] \in {"kInitial", "kBlocked"}
      BY <1>2, <2>3
    <3> QED
      BY <2>3, <3>1, HeldByHolder, Zenon
  <2> QED
    BY <2>1, <2>2, <2>3 DEF FailInv
<1>15. CountInv'
  BY <1>7 DEF NodeInv, CountInv
<1> QED
  BY <1>8, <1>9, <1>10, <1>11, <1>12, <1>13, <1>14, <1>15, Zenon DEF NodeCore

\* UnblockWaiters: thread t lets go of its completed node n, and the waiters
\* whose last dependency this was are queued.
LEMMA UnblockStep ==
  ASSUME BaseInv, NodeInv, NEW t \in Thread, pc[t] = "Advance", NEW n \in Held, n = cur[t],
         Completed(n), pending' = pending - 1,
         NEW s \in Orderings(ReadyWaiters(n)), queue' = queue \o s,
         queued' = queued \cup ReadyWaiters(n), Held' = Held \ {n}, Distinct',
         UNCHANGED <<progress, active, result, waitList, failed, currentPass>>
  PROVE  NodeCore'
<1> DEFINE woken == ReadyWaiters(n)
<1>1. /\ n \in Node /\ PassOf[n] = currentPass /\ n \notin Range(queue) \cup Range(waitList)
      /\ queue \in Seq(Node) /\ IsInjective(queue) /\ n \in Open /\ IsFiniteSet(Open)
  BY InUse, Zenon DEF BaseInv, TypeOK, NodeInv, ExclusiveOwnership
<1>2. /\ woken \subseteq Node
      /\ \A w \in woken : /\ PassOf[w] = currentPass /\ AllDependenciesReady(w)
                          /\ w \notin queued \cup active
      /\ \A w \in Node : /\ PassOf[w] = currentPass /\ n \in Deps[w] /\ AllDependenciesReady(w)
                         /\ w \notin queued \cup active
                         => w \in woken
  BY Zenon DEF ReadyWaiters, NodesOfPass
<1>3. IsFiniteSet(woken)
  BY <1>1, WokenNodes, Zenon
<1>4. s \in Seq(woken) /\ Range(s) = woken /\ IsInjective(s)
  BY <1>3, OrderingsProp, Zenon DEF BaseInv
<1> HIDE DEF woken
<1>5. s \in Seq(Node)
  BY <1>2, <1>4, SMTT(30)
<1>6. woken \cap (Range(queue) \cup Range(waitList) \cup Held \cup CompletedNodes) = {}
  BY <1>2, Zenon DEF NodeInv, FlagInv
<1>7. Range(queue') = Range(queue) \cup woken /\ IsInjective(queue')
  BY <1>1, <1>4, <1>5, <1>6, ConcatProp, SMTT(30)
<1>8. queued' = queued \cup woken
  BY DEF woken
<1>9. \A w \in woken : progress[w] \in {"kInitial", "kBlocked"}
  BY <1>2, <1>6, Zenon DEF NodeInv, StageInv, CompletedNodes, Completed
<1>10. /\ CompletedNodes' = CompletedNodes
       /\ \A m : Completed(m)' <=> Completed(m)
       /\ \A m : AllDependenciesReady(m)' <=> AllDependenciesReady(m)
       /\ NodesOfPass(currentPass)' = NodesOfPass(currentPass)
  BY Zenon DEF CompletedNodes, Completed, AllDependenciesReady, NodesOfPass
<1>11. n \in CompletedNodes
  BY <1>1, Zenon DEF CompletedNodes
<1>12. Open' = Open \ {n}
  BY <1>1, <1>10, Zenon DEF Open
<1>13. ExclusiveOwnership'
  BY <1>6, <1>7, Zenon DEF NodeInv, ExclusiveOwnership, Distinct
<1>14. FlagInv'
  BY <1>6, <1>7, <1>8, <1>10, <1>11, ZenonT(30) DEF NodeInv, FlagInv
<1>15. StageInv'
  BY <1>1, <1>7, <1>9, <1>10, <1>11, Zenon DEF NodeInv, StageInv, CompletedNodes, Completed
<1>16. ReadyInv'
  BY <1>2, <1>7, <1>10, Zenon DEF NodeInv, ReadyInv
<1>17. PassBarrier'
  <2>1. currentPass \in Int
    BY DEF BaseInv, TypeOK
  <2>2. \A w \in woken : ~(PassOf[w] > currentPass)
    BY <1>2, <2>1
  <2> QED
    BY <1>8, <1>10, <2>2, Zenon DEF NodeInv, PassBarrier
<1>18. NoLostNode'
  <2> SUFFICES ASSUME NEW m \in NodesOfPass(currentPass), ~Completed(m),
                      m \notin Range(queue') \cup Range(waitList') \cup Held'
               PROVE  progress[m] = "kBlocked" /\ \E d \in Deps[m] : ~Completed(d)
    BY <1>10, Zenon DEF NoLostNode
  <2>1. m \in Node /\ PassOf[m] = currentPass
    BY Zenon DEF NodesOfPass
  <2>2. m \notin Range(queue) \cup Range(waitList) \cup Held /\ m \notin woken
    BY <1>7, Zenon
  <2>3. progress[m] = "kBlocked" /\ \E d \in Deps[m] : ~Completed(d) \/ d \in Held
    BY <2>2, Zenon DEF NodeInv, NoLostNode
  <2>4. m \notin queued \cup active
    BY <2>1, <2>2, Zenon DEF NodeInv, FlagInv, CompletedNodes
  <2>5. AllDependenciesReady(m) => n \notin Deps[m]
    BY <1>2, <2>1, <2>2, <2>4, Zenon
  <2>6. ASSUME AllDependenciesReady(m) PROVE FALSE
    <3>1. PICK d \in Deps[m] : d \in Held
      BY <2>3, <2>6, Zenon DEF AllDependenciesReady
    <3>2. Completed(d) /\ d # n
      BY <2>5, <2>6, <3>1, Zenon DEF AllDependenciesReady
    <3> QED
      BY <3>1, <3>2, HeldByHolder, Zenon DEF Completed
  <2> QED
    BY <2>3, <2>6, Zenon DEF AllDependenciesReady
<1>19. FailInv'
  BY Zenon DEF NodeInv, FailInv
<1>20. CountInv'
  BY <1>1, <1>12, FinRemove, Zenon DEF NodeInv, CountInv, BaseInv
<1> QED
  BY <1>13, <1>14, <1>15, <1>16, <1>17, <1>18, <1>19, <1>20, Zenon DEF NodeCore

\* BuildQueueBuildNodeRange: nothing is open, and all nodes of the next pass
\* are queued.
LEMMA PassStep ==
  ASSUME BaseInv, NodeInv, StartPass, Held' = Held, Distinct'
  PROVE  NodeCore'
<1> DEFINE nodes == NodesOfPass(currentPass + 1)
<1>1. /\ currentPass' = currentPass + 1 /\ queued' = queued \cup nodes
      /\ queue' \in Orderings(nodes) /\ pending' = Cardinality(nodes) /\ failed' = 0
      /\ UNCHANGED <<progress, active, result, waitList>>
      /\ pc[Main] = "Pass"
  BY Zenon DEF StartPass
<1>2. Open = {} /\ failed = 0
  BY <1>1 DEF NodeInv, MainInv
<1>3. /\ Range(queue) = {} /\ Range(waitList) = {} /\ Held = {}
      /\ \A n \in Node : PassOf[n] <= currentPass => Completed(n)
  BY <1>2, NothingOpen
<1>4. \A n \in Node : PassOf[n] \in Int /\ currentPass \in Int /\ result[n] \in {0, 1}
  BY DagAssumption DEF BaseInv, TypeOK
<1>5. \A n \in Node : result[n] = 0
  BY <1>2, <1>4 DEF NodeInv, FailInv
<1>6. /\ nodes \subseteq Node /\ IsFiniteSet(nodes)
      /\ \A n \in Node : n \in nodes <=> PassOf[n] = currentPass + 1
  BY FinSubset, DagAssumption DEF NodesOfPass, BaseInv
<1>7. \A n \in nodes : progress[n] = "kInitial" /\ n \notin queued \cup active /\ ~Completed(n)
  BY <1>4, <1>6 DEF NodeInv, PassBarrier, Completed
<1> HIDE DEF nodes
<1>8. Range(queue') = nodes /\ IsInjective(queue')
  BY <1>1, <1>6, OrderingsProp DEF BaseInv
<1>9. /\ CompletedNodes' = CompletedNodes /\ nodes \cap CompletedNodes = {}
      /\ \A m : Completed(m)' <=> Completed(m)
      /\ \A m : AllDependenciesReady(m)' <=> AllDependenciesReady(m)
      /\ NodesOfPass(currentPass)' = nodes
  BY <1>1, <1>7, Zenon DEF CompletedNodes, Completed, AllDependenciesReady, NodesOfPass, nodes
<1>10. Open' = nodes
  BY <1>3, <1>7, <1>9, Zenon DEF Open
<1>11. ExclusiveOwnership'
  BY <1>1, <1>3, <1>8 DEF NodeInv, ExclusiveOwnership, Distinct
<1>12. FlagInv'
  BY <1>1, <1>3, <1>8, <1>9 DEF NodeInv, FlagInv
<1>13. StageInv'
  BY <1>1, <1>3, <1>7, <1>8, <1>9, Zenon DEF NodeInv, StageInv
<1>14. ReadyInv'
  BY <1>1, <1>3, <1>7, <1>8, <1>9, Zenon DEF NodeInv, ReadyInv
<1>15. PassBarrier'
  <2> SUFFICES ASSUME NEW n \in Node
               PROVE  /\ PassOf[n] > currentPass' => progress'[n] = "kInitial" /\ n \notin queued' \cup active'
                      /\ PassOf[n] < currentPass' => Completed(n)' /\ result'[n] = 0 /\ n \notin Held'
    BY DEF PassBarrier
  <2>1. CASE PassOf[n] > currentPass + 1
    BY <1>1, <1>4, <1>6, <2>1, SMTT(30) DEF NodeInv, PassBarrier
  <2>2. CASE PassOf[n] < currentPass + 1
    BY <1>1, <1>3, <1>4, <1>5, <1>9, <2>2, SMTT(30)
  <2>3. CASE PassOf[n] = currentPass + 1
    BY <1>1, <1>4, <2>3, SMTT(30)
  <2> QED
    BY <1>4, <2>1, <2>2, <2>3, SMTT(30)
<1>16. NoLostNode'
  BY <1>8, <1>9, Zenon DEF NoLostNode
<1>17. FailInv'
  <2>1. /\ failed' = 0 /\ ~(failed' > 0) /\ UNCHANGED <<progress, result>>
        /\ \A n \in Node : result'[n] # 1
    BY <1>1, <1>5
  <2>2. ~ContinueOnError => \A n \in Node :
          progress[n] \notin {"kInitial", "kBlocked"} => \A d \in Deps[n] : result[d] = 0
    BY Zenon DEF NodeInv, FailInv
  <2> QED
    BY <2>1, <2>2, Zenon DEF FailInv
<1>18. CountInv'
  BY <1>1, <1>10 DEF CountInv
<1> QED
  BY <1>11, <1>12, <1>13, <1>14, <1>15, <1>16, <1>17, <1>18 DEF NodeCore

-----------------------------------------------------------------------------
(* What the driver's thread relies on. *)

\* While something is open, a thread that works on it does not disturb what
\* the driver's thread knows.
LEMMA MainWorkStep ==
  ASSUME BaseInv, NodeInv, NEW t \in Thread, NEW x \in {"Advance", "Check", "Run", "Loop"}, NEW c,
         Control(t, x, c), Open # {}, pc[t] \in BusyAt \cup LockedAt,
         failed' \in Nat, failed' >= failed, signalled => signalled',
         UNCHANGED <<quit, buildResult, currentPass>>
  PROVE  MainInv'
<1>1. failed \in Nat /\ Main \in Thread /\ Main \notin Worker
  BY ThreadAssumption DEF BaseInv, TypeOK, Thread
<1>2. IF t = Main THEN pc'[Main] = x ELSE pc'[Main] = pc[Main] \/ (pc[Main] = "Asleep" /\ pc'[Main] = "Lock")
  BY <1>1 DEF Control
<1>3. pc[Main] # "Done"
  <2>1. pc[t] # "Done" /\ pc[t] # "Exited"
    BY DEF BusyAt, LockedAt
  <2> QED
    BY <2>1 DEF NodeInv, MainInv, Thread
<1>4. pc[Main] \in {"Pass", "Result", "Quit", "QuitWake", "Join", "Done"} => t # Main
  BY DEF BusyAt, LockedAt
<1>5. pc'[Main] # "Done" /\ pc'[Main] # "Pass"
  BY <1>2, <1>3 DEF NodeInv, MainInv
<1>6. pc'[Main] = "Result" => signalled' \/ (failed' > 0 /\ ~ContinueOnError) \/ Open' = {}
  BY <1>1, <1>2 DEF NodeInv, MainInv
<1>7. quit' => pc'[Main] \in {"QuitWake", "Join", "Done"}
  BY <1>2, <1>4 DEF NodeInv, MainInv
<1>8. pc'[Main] \in {"Quit", "QuitWake", "Join", "Done"} =>
        buildResult' # "kOk" /\ (buildResult' = "kBuildError" => failed' > 0)
  BY <1>1, <1>2 DEF NodeInv, MainInv
<1> QED
  BY <1>5, <1>6, <1>7, <1>8 DEF MainInv

\* Nor does a step that only moves a thread about in BuildLoop.
LEMMA MainLoopStep ==
  ASSUME BaseInv, NodeInv, NEW t \in Thread, NEW x \in {"Loop", "Wait", "Asleep", "Lock", "Exited"}, NEW c,
         Control(t, x, c), Open' = Open, pc[t] \in {"Lock", "Loop", "Wait", "Asleep"},
         UNCHANGED <<failed, signalled, quit, buildResult, currentPass>>
  PROVE  MainInv'
<1>1. Main \in Thread /\ Main \notin Worker /\ (x = "Exited" => t # Main)
  BY ThreadAssumption DEF Thread, Control
<1>2. \/ pc'[Main] \in {"Loop", "Wait", "Asleep", "Lock"} /\ pc[Main] \in {"Lock", "Loop", "Wait", "Asleep"}
      \/ pc'[Main] = pc[Main]
  BY <1>1 DEF Control
<1>3. pc'[Main] = "Done" => \A u \in Worker : pc'[u] = "Exited"
  BY <1>1, <1>2 DEF NodeInv, MainInv, Control, Thread
<1>4. /\ pc'[Main] = "Pass" => failed' = 0 /\ Open' = {}
      /\ pc'[Main] = "Result" => signalled' \/ (failed' > 0 /\ ~ContinueOnError) \/ Open' = {}
  BY <1>2 DEF NodeInv, MainInv
<1>5. quit' => pc'[Main] \in {"QuitWake", "Join", "Done"}
  BY <1>2 DEF NodeInv, MainInv
<1>6. pc'[Main] \in {"Quit", "QuitWake", "Join", "Done"} =>
        /\ buildResult' = "kOk" => failed' = 0 /\ Open' = {} /\ currentPass' = PassCount - 1
        /\ buildResult' = "kBuildError" => failed' > 0
  BY <1>2 DEF NodeInv, MainInv
<1> QED
  BY <1>3, <1>4, <1>5, <1>6 DEF MainInv

\* The main thread leaves BuildLoop with a reason that lasts.
LEMMA MainLeaves ==
  ASSUME BaseInv, NodeInv, LeaveLoop(Main), Control(Main, "Result", NoNode), Open' = Open
  PROVE  MainInv'
<1>1. pc[Main] = "Loop" /\ ~ShouldKeepBuilding(Main) /\ pc'[Main] = "Result"
      /\ UNCHANGED <<signalled, failed, quit>>
  BY DEF LeaveLoop, Control, countVars
<1>2. ~quit
  BY <1>1, Zenon DEF NodeInv, MainInv
<1>3. failed \in Nat /\ IsFiniteSet(Open) /\ pending = Cardinality(Open)
  BY InUse, Zenon DEF BaseInv, TypeOK, NodeInv, CountInv
<1>4. Cardinality(Open) \in Nat /\ (Cardinality(Open) = 0 => Open = {})
  BY <1>3, FinCardinality DEF BaseInv
<1>5. signalled \/ (failed > 0 /\ ~ContinueOnError) \/ Open = {}
  BY <1>1, <1>2, <1>3, <1>4 DEF ShouldKeepBuilding
<1> QED
  BY <1>1, <1>2, <1>5 DEF MainInv

\* The driver's own steps, and the signal handler's.
LEMMA MainDriverStep ==
  ASSUME BaseInv, NodeInv, DriverStep \/ SignalSet, ~StartPass => Open' = Open
  PROVE  MainInv'
<1>1. Main \in Thread /\ failed \in Nat /\ currentPass \in -1 .. PassCount - 1 /\ PassCount \in Nat
      /\ Main \notin Worker
  BY ThreadAssumption, DagAssumption DEF BaseInv, TypeOK, Thread
<1>2. CASE StartPass
  <2>1. pc[Main] = "Pass" /\ pc'[Main] = "PassWake" /\ UNCHANGED quit
    BY <1>2, DriverControl, Zenon DEF Control, StartPass
  <2> QED
    BY <2>1 DEF NodeInv, MainInv
<1>3. CASE PassBroadcast
  <2>1. pc[Main] = "PassWake" /\ pc'[Main] = "Lock" /\ UNCHANGED quit
    BY <1>3, DriverControl, Zenon DEF Control, PassBroadcast, countVars
  <2> QED
    BY <2>1 DEF NodeInv, MainInv
<1>4. CASE EndPass
  <2>1. /\ pc[Main] = "Result" /\ UNCHANGED <<quit, failed, currentPass, signalled>>
        /\ Open' = Open
    BY <1>4 DEF EndPass, countVars, StartPass
  <2>2. /\ buildResult' = "kOk" => ~signalled /\ failed = 0
        /\ buildResult' = "kBuildError" => failed > 0
    BY <1>1, <1>4 DEF EndPass
  <2>3. IF buildResult' = "kOk" /\ currentPass + 1 < PassCount THEN pc'[Main] = "Pass" ELSE pc'[Main] = "Quit"
    BY <1>1, <1>4 DEF EndPass, BaseInv, TypeOK
  <2>4. ~quit /\ (signalled \/ (failed > 0 /\ ~ContinueOnError) \/ Open = {})
    BY <2>1 DEF NodeInv, MainInv
  <2>5. ~(currentPass + 1 < PassCount) => currentPass = PassCount - 1
    BY <1>1
  <2>6. buildResult' = "kOk" => failed' = 0 /\ Open' = {}
    BY <2>1, <2>2, <2>4
  <2>7. CASE buildResult' = "kOk" /\ currentPass + 1 < PassCount
    BY <2>1, <2>3, <2>4, <2>6, <2>7 DEF MainInv
  <2>8. CASE ~(buildResult' = "kOk" /\ currentPass + 1 < PassCount)
    BY <2>1, <2>2, <2>3, <2>4, <2>5, <2>6, <2>8 DEF MainInv
  <2> QED
    BY <2>7, <2>8
<1>5. CASE QuitSignal
  <2>1. /\ pc[Main] = "Quit" /\ pc'[Main] = "QuitWake" /\ UNCHANGED <<failed, currentPass, signalled, buildResult>>
        /\ Open' = Open
    BY <1>5, DriverControl, Zenon DEF Control, QuitSignal, StartPass
  <2> QED
    BY <2>1 DEF NodeInv, MainInv
<1>6. CASE QuitBroadcast
  <2>1. /\ pc[Main] = "QuitWake" /\ pc'[Main] = "Join"
        /\ UNCHANGED <<quit, failed, currentPass, signalled, buildResult>> /\ Open' = Open
    BY <1>6, DriverControl, Zenon DEF Control, QuitBroadcast, countVars, StartPass
  <2> QED
    BY <2>1 DEF NodeInv, MainInv
<1>7. CASE JoinWorkers
  <2>1. /\ pc[Main] = "Join" /\ pc'[Main] = "Done"
        /\ UNCHANGED <<quit, failed, currentPass, signalled, buildResult>> /\ Open' = Open
    BY <1>7, DriverControl, Zenon DEF Control, JoinWorkers, countVars, StartPass
  <2>2. \A u \in Worker : pc'[u] = "Exited"
    BY <1>1, <1>7, DriverControl, Zenon DEF Control, JoinWorkers, Thread
  <2> QED
    BY <2>1, <2>2 DEF NodeInv, MainInv
<1>8. CASE SignalSet
  <2>1. Control(Main, pc[Main], cur[Main]) /\ UNCHANGED <<quit, failed, currentPass, buildResult>>
        /\ signalled' /\ pc[Main] # "Done"
    BY <1>8, DriverControl, Zenon DEF SignalSet, countVars
  <2>2. ~StartPass \/ pc'[Main] = "PassWake"
    BY DriverControl, Zenon DEF Control
  <2>3. pc'[Main] = pc[Main] \/ (pc[Main] = "Asleep" /\ pc'[Main] = "Lock")
    BY <2>1 DEF Control
  <2> QED
    BY <2>1, <2>2, <2>3, SMTT(30) DEF NodeInv, MainInv
<1> QED
  BY <1>2, <1>3, <1>4, <1>5, <1>6, <1>7, <1>8 DEF DriverStep

-----------------------------------------------------------------------------
(* The invariant is inductive. *)

\* It holds after BuildQueueInit.
LEMMA NodeInit == FiniteFacts /\ Init => NodeInv
<1> SUFFICES ASSUME FiniteFacts, Init PROVE NodeInv
  OBVIOUS
<1> USE DEF Init
<1>1. Range(queue) = {} /\ Range(waitList) = {} /\ IsInjective(queue) /\ IsInjective(waitList)
  BY DEF Range, IsInjective
<1>2. Busy = {} /\ Held = {}
  BY DEF Busy, Held, BusyAt
<1>3. \A n \in Node : PassOf[n] > -1 /\ ~(PassOf[n] < -1) /\ PassOf[n] # -1 /\ ~Completed(n)
  BY DagAssumption DEF Completed
<1>4. CompletedNodes = {} /\ NodesOfPass(currentPass) = {} /\ Open = {}
  BY <1>3 DEF CompletedNodes, NodesOfPass, Open
<1>5. ThreadInv
  BY DEF ThreadInv
<1>6. ExclusiveOwnership /\ FlagInv
  BY <1>1, <1>2, <1>4 DEF ExclusiveOwnership, FlagInv
<1>7. StageInv /\ ReadyInv
  BY <1>1, <1>2 DEF StageInv, ReadyInv
<1>8. PassBarrier /\ NoLostNode
  BY <1>3, <1>4 DEF PassBarrier, NoLostNode
<1>9. FailInv
  BY DEF FailInv
<1>10. CountInv
  BY <1>4, FinEmpty DEF CountInv
<1>11. MainInv
  <2>1. pc[Main] = IF PassCount > 0 THEN "Pass" ELSE "Quit"
    BY DEF Thread
  <2>2. ~(PassCount > 0) => PassCount - 1 = -1
    BY DagAssumption
  <2> QED
    BY <1>4, <2>1, <2>2 DEF MainInv
<1> QED
  BY <1>5, <1>6, <1>7, <1>8, <1>9, <1>10, <1>11 DEF NodeInv

\* The parts make up the whole.
LEMMA NodeInvFromParts == ThreadInv' /\ NodeCore' /\ MainInv' => NodeInv'
  BY DEF NodeInv, NodeCore

\* A busy thread holds its node, alone.
LEMMA BusyThread ==
  ASSUME BaseInv, NodeInv, NEW t \in Thread, pc[t] \in BusyAt
  PROVE  /\ cur[t] \in Held /\ cur[t] \in Node /\ Distinct /\ Open # {}
         /\ \A u \in Busy : cur[u] = cur[t] => u = t
<1>1. t \in Busy /\ cur[t] \in Held
  BY DEF Busy, Held
<1>2. Distinct
  BY DEF NodeInv, ExclusiveOwnership, Distinct
<1> QED
  BY <1>1, <1>2, InUse DEF Distinct

\* BuildLoop keeps it.
LEMMA NodeLoop ==
  ASSUME BaseInv, NodeInv, NEW t \in Thread, LoopStep(t) \/ SpuriousWakeup(t)
  PROVE  NodeInv'
<1>1. Distinct /\ ThreadInv
  BY DEF NodeInv, ExclusiveOwnership, Distinct
<1>2. /\ {"Loop", "Wait", "Asleep", "Lock", "Result", "Exited", "Advance"} \subseteq Place
      /\ {"Loop", "Wait", "Asleep", "Lock", "Result", "Exited"} \cap BusyAt = {}
      /\ "Advance" \in BusyAt
  BY DEF Place, BusyAt, LockedAt, MainAt
<1>3. ASSUME NEW x \in {"Loop", "Wait", "Asleep", "Lock", "Result", "Exited"},
             Control(t, x, NoNode), pc[t] \in {"Lock", "Loop", "Wait", "Asleep"},
             UNCHANGED <<nodeVars, queueVars, countVars>>
      PROVE  ThreadInv' /\ NodeCore' /\ Open' = Open
  <2>1. Held' = Held /\ Distinct'
    BY <1>1, <1>2, <1>3, HeldStep, Zenon DEF BusyAt
  <2>2. UNCHANGED <<nodeVars, queue, waitList, pending, failed, currentPass>> /\ UNCHANGED progress
    BY <1>3 DEF nodeVars, queueVars, countVars
  <2>3. ThreadInv'
    BY <1>1, <1>2, <1>3, <2>2, ThreadInvStep, Zenon
  <2>4. NodeCore'
    BY <2>1, <2>2, StillStep
  <2>5. Open' = Open
    BY <2>1, <2>2 DEF Open, Completed, NodesOfPass
  <2> QED
    BY <2>3, <2>4, <2>5
<1>4. ASSUME Acquire(t) \/ DecideToWait(t) \/ Sleep(t) \/ SpuriousWakeup(t) \/ (LeaveLoop(t) /\ t # Main)
      PROVE  NodeInv'
  <2>1. /\ pc[t] \in {"Lock", "Loop", "Wait", "Asleep"}
        /\ UNCHANGED <<nodeVars, queueVars, countVars, signalled, buildResult>>
    BY <1>4 DEF Acquire, DecideToWait, Sleep, SpuriousWakeup, LeaveLoop
  <2>2. PICK x \in {"Loop", "Wait", "Asleep", "Lock", "Exited"} : Control(t, x, NoNode)
    BY <1>4, LoopControl
  <2>3. ThreadInv' /\ NodeCore' /\ Open' = Open
    BY <1>3, <2>1, <2>2
  <2>4. MainInv'
    BY <2>1, <2>2, <2>3, MainLoopStep DEF countVars
  <2> QED
    BY <2>3, <2>4, NodeInvFromParts
<1>5. CASE LeaveLoop(t) /\ t = Main
  <2>1. /\ pc[t] = "Loop" /\ UNCHANGED <<nodeVars, queueVars, countVars>>
        /\ Control(t, "Result", NoNode)
    BY <1>5, LoopControl, Zenon DEF LeaveLoop
  <2>2. ThreadInv' /\ NodeCore' /\ Open' = Open
    BY <1>3, <2>1
  <2>3. MainInv'
    BY <1>5, <2>1, <2>2, MainLeaves
  <2> QED
    BY <2>2, <2>3, NodeInvFromParts
<1>6. CASE TakeNode(t)
  <2>1. Control(t, "Advance", Head(queue)) /\ pc[t] = "Loop"
    BY <1>6, LoopControl, Zenon DEF TakeNode
  <2>2. Held' = Held \cup {Head(queue)} /\ (Head(queue) \notin Held => Distinct')
    BY <1>1, <1>2, <2>1, HeldStep, Zenon
  <2>3. NodeCore'
    BY <1>6, <2>2, TakeStep
  <2>4. UNCHANGED <<progress, failed, signalled, quit, buildResult, currentPass>>
    BY <1>6 DEF TakeNode, countVars
  <2>5. ThreadInv'
    BY <1>1, <1>2, <2>1, <2>4, ThreadInvStep
  <2>6. Open # {}
    <3>1. queue \in Seq(Node) /\ queue # <<>> /\ IsInjective(queue)
      BY <1>6 DEF TakeNode, BaseInv, TypeOK, NodeInv, ExclusiveOwnership
    <3>2. Head(queue) \in Range(queue)
      BY <3>1, TailProp
    <3> QED
      BY <3>2, InUse
  <2>7. failed' \in Nat /\ failed' >= failed
    BY <2>4 DEF BaseInv, TypeOK
  <2>8. MainInv'
    BY <2>1, <2>4, <2>6, <2>7, MainWorkStep DEF LockedAt
  <2> QED
    BY <2>3, <2>5, <2>8, NodeInvFromParts
<1> QED
  BY <1>4, <1>5, <1>6 DEF LoopStep

\* AdvanceNode keeps it.
LEMMA NodeAdvance ==
  ASSUME BaseInv, NodeInv, NEW t \in Thread, AdvanceStep(t)
  PROVE  NodeInv'
<1> DEFINE n == cur[t]
<1>1. pc[t] \in BusyAt
  BY Zenon DEF AdvanceStep, AdvanceInitial, AdvanceBlocked, CheckStart, CheckDone,
     RunActionEmpty, ParkExpensiveNode, RunActionStart, RunDone, AdvanceSucceeded,
     AdvanceFailed, AdvanceCompleted, Advancing, BusyAt
<1>2. /\ n \in Held /\ n \in Node /\ Distinct /\ ThreadInv /\ Open # {}
      /\ \A u \in Busy : cur[u] = n => u = t
  BY <1>1, BusyThread, Zenon DEF NodeInv
<1>3. {"Advance", "Check", "Run", "Loop"} \subseteq Place /\ "Loop" \notin BusyAt
      /\ {"Advance", "Check", "Run"} \subseteq BusyAt
  BY DEF Place, BusyAt, LockedAt
<1>4. failed \in Nat /\ progress \in [Node -> Progress] /\ IsInjective(queue) /\ IsInjective(waitList)
  BY DEF BaseInv, TypeOK, NodeInv, ExclusiveOwnership
<1>5. ASSUME NEW x \in {"Advance", "Check", "Run", "Loop"},
             Control(t, x, IF x = "Loop" THEN NoNode ELSE n),
             \A m \in Node : m = n \/ progress'[m] = progress[m],
             x = "Check" => progress'[n] = "kUnblocked",
             x = "Run" => progress'[n] = "kRunAction",
             failed' \in Nat, failed' >= failed, signalled => signalled',
             UNCHANGED <<quit, buildResult, currentPass>>
      PROVE  ThreadInv' /\ MainInv' /\ Distinct' /\ Held' = IF x = "Loop" THEN Held \ {n} ELSE Held
  <2>1. ThreadInv'
    BY <1>2, <1>3, <1>5, ThreadInvStep
  <2>2. MainInv'
    BY <1>1, <1>2, <1>5, MainWorkStep, Zenon
  <2>3. Distinct' /\ Held' = IF x = "Loop" THEN Held \ {n} ELSE Held
    BY <1>1, <1>2, <1>3, <1>5, HeldStep, SMTT(30)
  <2> QED
    BY <2>1, <2>2, <2>3
<1>6. ASSUME UNCHANGED <<queue, waitList, queued, active>>
      PROVE  Unparked({})
  BY <1>4, <1>6 DEF Unparked
<1>7. progress[n] \notin {"kInitial", "kBlocked"} \/ progress[n] = "kBlocked" =>
        AllDependenciesReady(n)
  BY <1>2 DEF NodeInv, ReadyInv
<1>8. ~ContinueOnError /\ AllDependenciesReady(n) => \A d \in Deps[n] : result[d] = 0
  <2>1. progress[n] \notin {"kInitial", "kBlocked"} => (~ContinueOnError => \A d \in Deps[n] : result[d] = 0)
    BY <1>2, Zenon DEF NodeInv, FailInv
  <2>2. progress[n] \in {"kInitial", "kBlocked"} /\ ~ContinueOnError => failed = 0
    BY <1>2 DEF NodeInv, FailInv
  <2>3. failed = 0 => \A d \in Node : result[d] = 0
    BY DEF NodeInv, FailInv, BaseInv, TypeOK
  <2> QED
    BY <1>2, <2>1, <2>2, <2>3, DagAssumption, Zenon
<1> HIDE DEF n
<1>9. CASE AdvanceInitial(t)
  <2> DEFINE fresh == {d \in Waits(n) : d \notin queued \cup active /\ progress[d] # "kBlocked"}
  <2>1. /\ progress[n] = "kInitial"
        /\ \E s \in Orderings(fresh) : queue' = queue \o s
        /\ queued' = queued \cup fresh
        /\ progress' = [progress EXCEPT ![n] = IF Waits(n) = {} THEN "kUnblocked" ELSE "kBlocked"]
        /\ active' = IF Waits(n) = {} THEN active ELSE active \ {n}
        /\ UNCHANGED <<result, waitList, countVars, signalled, buildResult>>
    BY <1>9, Zenon DEF AdvanceInitial, Advancing, Waits, n
  <2>2. fresh = {}
    BY <1>2, NothingFresh
  <2> HIDE DEF fresh
  <2>3. queue' = queue
    <3>1. PICK s \in Orderings({}) : queue' = queue \o s
      BY <2>1, <2>2
    <3>2. s = <<>> /\ queue \in Seq(Node)
      BY OrderingsEmpty DEF BaseInv, TypeOK
    <3> QED
      BY <3>1, <3>2
  <2>4. queued' = queued
    BY <2>1, <2>2
  <2>5. UNCHANGED <<pending, failed, quit, currentPass>> /\ failed' \in Nat /\ failed' >= failed
    BY <1>4, <2>1 DEF countVars
  <2>6. \A m \in Node : m = n \/ progress'[m] = progress[m]
    BY <1>4, <2>1
  <2>7. CASE Waits(n) = {}
    <3>1. Control(t, "Advance", n)
      BY <1>9, <2>7, AdvanceControl DEF n
    <3>2. ThreadInv' /\ MainInv' /\ Distinct' /\ Held' = Held
      BY <1>5, <2>1, <2>5, <2>6, <3>1
    <3>3. AllDependenciesReady(n) /\ ~Completed(n)
      BY <2>1, <2>7, Zenon DEF Waits, AllDependenciesReady, Completed
    <3>4. Unparked({}) /\ progress' = [progress EXCEPT ![n] = "kUnblocked"]
      BY <1>6, <2>1, <2>3, <2>4, <2>7
    <3>5. NodeCore'
      BY <1>2, <1>8, <2>1, <2>5, <3>2, <3>3, <3>4, StageStep, Zenon
    <3> QED
      BY <3>2, <3>5, NodeInvFromParts
  <2>8. CASE Waits(n) # {}
    <3>1. Control(t, "Loop", NoNode)
      BY <1>9, <2>8, AdvanceControl DEF n
    <3>2. ThreadInv' /\ MainInv' /\ Distinct' /\ Held' = Held \ {n}
      BY <1>5, <2>1, <2>5, <2>6, <3>1, Zenon
    <3>3. NodeCore'
      BY <1>2, <2>1, <2>3, <2>4, <2>5, <2>8, <3>2, BlockStep
    <3> QED
      BY <3>2, <3>3, NodeInvFromParts
  <2> QED
    BY <2>7, <2>8
<1>10. ASSUME NEW y \in {"kUnblocked", "kRunAction", "kUpToDate", "kSucceeded", "kFailed"},
              progress' = [progress EXCEPT ![n] = y], ~Completed(n), AllDependenciesReady(n),
              Control(t, "Advance", n), NEW P, Unparked(P), signalled => signalled',
              UNCHANGED <<result, countVars, buildResult>>
       PROVE  NodeInv'
  <2>1. UNCHANGED <<result, pending, failed, currentPass, quit>> /\ failed' \in Nat /\ failed' >= failed
    BY <1>4, <1>10 DEF countVars
  <2>2. \A m \in Node : m = n \/ progress'[m] = progress[m]
    BY <1>4, <1>10
  <2>3. ThreadInv' /\ MainInv' /\ Distinct' /\ Held' = Held
    BY <1>5, <1>10, <2>1, <2>2
  <2>4. NodeCore'
    BY <1>2, <1>8, <1>10, <2>1, <2>3, StageStep, Zenon
  <2> QED
    BY <2>3, <2>4, NodeInvFromParts
<1>11. CASE AdvanceBlocked(t)
  <2>1. /\ progress[n] = "kBlocked" /\ progress' = [progress EXCEPT ![n] = "kUnblocked"]
        /\ UNCHANGED <<queued, active, queue, waitList, result, countVars, signalled, buildResult>>
        /\ Control(t, "Advance", n)
    BY <1>11, AdvanceControl, Zenon DEF AdvanceBlocked, Advancing, queueVars, n
  <2> QED
    BY <1>6, <1>7, <1>10, <2>1 DEF Completed
<1>12. CASE CheckDone(t)
  <2>1. /\ pc[t] = "Check" /\ \E y \in {"kRunAction", "kUpToDate"} : progress' = [progress EXCEPT ![n] = y]
        /\ UNCHANGED <<queued, active, queue, waitList, result, countVars, signalled, buildResult>>
        /\ Control(t, "Advance", n)
    BY <1>12, AdvanceControl, Zenon DEF CheckDone, queueVars, n
  <2>2. progress[n] = "kUnblocked"
    BY <1>2, <2>1, Zenon DEF ThreadInv, n
  <2> QED
    BY <1>6, <1>7, <1>10, <2>1, <2>2, Zenon DEF Completed
<1>13. CASE CheckStart(t)
  <2>1. /\ progress[n] = "kUnblocked" /\ Control(t, "Check", n)
        /\ UNCHANGED <<nodeVars, queueVars, countVars, signalled, buildResult>>
    BY <1>13, AdvanceControl, Zenon DEF CheckStart, Advancing, n
  <2>2. /\ UNCHANGED <<nodeVars, progress, queue, waitList, pending, failed, quit, currentPass>>
        /\ failed' \in Nat /\ failed' >= failed
    BY <1>4, <2>1 DEF nodeVars, queueVars, countVars
  <2>3. ThreadInv' /\ MainInv' /\ Distinct' /\ Held' = Held
    BY <1>5, <2>1, <2>2
  <2>4. NodeCore'
    BY <2>2, <2>3, StillStep
  <2> QED
    BY <2>3, <2>4, NodeInvFromParts
<1>14. CASE RunActionStart(t)
  <2>1. /\ progress[n] = "kRunAction" /\ Control(t, "Run", n)
        /\ UNCHANGED <<nodeVars, queue, waitList, countVars, signalled, buildResult>>
    BY <1>14, AdvanceControl, Zenon DEF RunActionStart, Advancing, n
  <2>2. /\ UNCHANGED <<nodeVars, progress, queue, waitList, pending, failed, quit, currentPass>>
        /\ failed' \in Nat /\ failed' >= failed
    BY <1>4, <2>1 DEF nodeVars, countVars
  <2>3. ThreadInv' /\ MainInv' /\ Distinct' /\ Held' = Held
    BY <1>5, <2>1, <2>2
  <2>4. NodeCore'
    BY <2>2, <2>3, StillStep
  <2> QED
    BY <2>3, <2>4, NodeInvFromParts
<1>15. CASE RunActionEmpty(t)
  <2>1. /\ progress[n] = "kRunAction" /\ progress' = [progress EXCEPT ![n] = "kSucceeded"]
        /\ AfterRunAction(n, pc) /\ Control(t, "Advance", n)
        /\ UNCHANGED <<result, countVars, signalled, buildResult>>
    BY <1>15, AdvanceControl, Zenon DEF RunActionEmpty, Advancing, n
  <2>2. PICK P : Unparked(P)
    BY <2>1, AfterRunActionUnparks
  <2> QED
    BY <1>7, <1>10, <2>1, <2>2 DEF Completed
<1>16. CASE RunDone(t)
  <2>1. /\ pc[t] = "Run" /\ \E y \in {"kSucceeded", "kFailed"} : progress' = [progress EXCEPT ![n] = y]
        /\ UNCHANGED <<result, countVars, buildResult>>
    BY <1>16, Zenon DEF RunDone, n
  <2>2. signalled => signalled'
    BY <1>16, Zenon DEF RunDone
  <2>3. \E p : AfterRunAction(n, p)
    BY <1>16 DEF RunDone, n
  <2>4. Control(t, "Advance", n)
    BY <1>16, AdvanceControl, Zenon DEF n
  <2>5. PICK P : Unparked(P)
    BY <2>3, AfterRunActionUnparks
  <2>6. progress[n] = "kRunAction"
    BY <1>2, <2>1, Zenon DEF ThreadInv, n
  <2> QED
    BY <1>7, <1>10, <2>1, <2>2, <2>4, <2>5, <2>6, Zenon DEF Completed
<1>17. CASE ParkExpensiveNode(t)
  <2>1. /\ progress[n] = "kRunAction" /\ n \in Expensive /\ Control(t, "Loop", NoNode)
        /\ queued' = queued \cup {n} /\ waitList' = Append(waitList, n)
        /\ UNCHANGED <<progress, active, result, queue, countVars, signalled, buildResult>>
    BY <1>17, AdvanceControl, Zenon DEF ParkExpensiveNode, Advancing, n
  <2>2. UNCHANGED <<pending, failed, quit, currentPass>> /\ failed' \in Nat /\ failed' >= failed
    BY <1>4, <2>1 DEF countVars
  <2>3. ThreadInv' /\ MainInv' /\ Distinct' /\ Held' = Held \ {n}
    BY <1>5, <2>1, <2>2, Zenon
  <2>4. NodeCore'
    BY <1>2, <2>1, <2>2, <2>3, ParkStep, Zenon
  <2> QED
    BY <2>3, <2>4, NodeInvFromParts
<1>18. CASE AdvanceSucceeded(t) \/ AdvanceFailed(t)
  <2>1. /\ pc[t] = "Advance" /\ progress[n] \in {"kSucceeded", "kUpToDate", "kFailed"}
        /\ progress' = [progress EXCEPT ![n] = "kCompleted"]
        /\ \E r \in {0, 1} : result' = [result EXCEPT ![n] = r] /\ failed' = failed + r
        /\ UNCHANGED <<queued, active, queue, waitList, pending, quit, currentPass, signalled, buildResult>>
    <3>1. CASE AdvanceSucceeded(t)
      BY <1>4, <3>1, SMTT(30) DEF AdvanceSucceeded, Advancing, queueVars, countVars, n
    <3>2. CASE AdvanceFailed(t)
      BY <1>4, <3>2, SMTT(30) DEF AdvanceFailed, Advancing, queueVars, countVars, n
    <3> QED
      BY <1>18, <3>1, <3>2, Zenon
  <2>2. Control(t, "Advance", n)
    BY <1>18, AdvanceControl, Zenon DEF n
  <2>3. failed' \in Nat /\ failed' >= failed
    BY <1>4, <2>1
  <2>4. \A m \in Node : m = n \/ progress'[m] = progress[m]
    BY <1>4, <2>1
  <2>5. ThreadInv' /\ MainInv' /\ Distinct' /\ Held' = Held
    BY <1>5, <2>1, <2>2, <2>3, <2>4, Zenon
  <2>6. NodeCore'
    BY <1>2, <2>1, <2>5, FinishStep, Zenon DEF n
  <2> QED
    BY <2>5, <2>6, NodeInvFromParts
<1>19. CASE AdvanceCompleted(t)
  <2>1. /\ pc[t] = "Advance" /\ progress[n] = "kCompleted" /\ pending' = pending - 1
        /\ \E s \in Orderings(ReadyWaiters(n)) : queue' = queue \o s
        /\ queued' = queued \cup ReadyWaiters(n)
        /\ UNCHANGED <<progress, active, result, waitList, failed, quit, currentPass, signalled, buildResult>>
    BY <1>19, Zenon DEF AdvanceCompleted, Advancing, n
  <2>2. Control(t, "Loop", NoNode) /\ failed' \in Nat /\ failed' >= failed
    <3>1. Control(t, "Loop", NoNode)
      BY <1>19, AdvanceControl, Zenon
    <3> QED
      BY <1>4, <2>1, <3>1
  <2>3. ThreadInv' /\ MainInv' /\ Distinct' /\ Held' = Held \ {n}
    BY <1>5, <2>1, <2>2, Zenon
  <2>4. NodeCore'
    BY <1>2, <2>1, <2>3, UnblockStep, Zenon DEF Completed, n
  <2> QED
    BY <2>3, <2>4, NodeInvFromParts
<1> QED
  BY <1>9, <1>11, <1>12, <1>13, <1>14, <1>15, <1>16, <1>17, <1>18, <1>19 DEF AdvanceStep

\* The driver's thread and the signal handler keep it.
LEMMA NodeDriver ==
  ASSUME BaseInv, NodeInv, DriverStep \/ SignalSet
  PROVE  NodeInv'
<1>1. Distinct /\ ThreadInv /\ Main \in Thread
  BY DEF NodeInv, ExclusiveOwnership, Distinct, Thread
<1>2. /\ {"PassWake", "Lock", "Quit", "Pass", "QuitWake", "Join", "Done"} \subseteq Place
      /\ {"PassWake", "Lock", "Quit", "Pass", "QuitWake", "Join", "Done", "Result"} \cap BusyAt = {}
  BY DEF Place, BusyAt, LockedAt, MainAt
<1>3. UNCHANGED progress
  BY DEF DriverStep, StartPass, PassBroadcast, EndPass, QuitSignal, QuitBroadcast, JoinWorkers,
     SignalSet, nodeVars
<1>4. ThreadInv' /\ Held' = Held /\ Distinct'
  <2>1. CASE DriverStep
    <3>1. pc[Main] \in {"PassWake", "Quit", "Pass", "QuitWake", "Join", "Result"}
      BY <2>1 DEF DriverStep, StartPass, PassBroadcast, EndPass, QuitSignal, QuitBroadcast,
         JoinWorkers
    <3>2. PICK x \in {"PassWake", "Lock", "Quit", "Pass", "QuitWake", "Join", "Done"} :
            Control(Main, x, NoNode)
      BY <2>1, DriverControl, Zenon DEF DriverStep
    <3>3. Held' = Held /\ Distinct'
      BY <1>1, <1>2, <3>1, <3>2, HeldStep, Zenon
    <3> QED
      BY <1>1, <1>2, <1>3, <3>2, <3>3, ThreadInvStep, Zenon
  <2>2. CASE SignalSet
    <3>1. Control(Main, pc[Main], cur[Main]) /\ pc[Main] \in Place
      BY <1>1, <2>2, DriverControl, Zenon DEF BaseInv, TypeOK
    <3>2. Held' = Held /\ Distinct'
      BY <1>1, <3>1, HeldStep, Zenon
    <3>3. /\ pc[Main] = "Check" => progress'[cur[Main]] = "kUnblocked"
          /\ pc[Main] = "Run" => progress'[cur[Main]] = "kRunAction"
      BY <1>1, <1>3, Zenon DEF ThreadInv
    <3> QED
      BY <1>1, <1>3, <3>1, <3>2, <3>3, ThreadInvStep, Zenon
  <2> QED
    BY <2>1, <2>2
<1>5. CASE ~StartPass
  <2>1. UNCHANGED <<nodeVars, queue, waitList, pending, failed, currentPass>>
    BY <1>5 DEF DriverStep, PassBroadcast, EndPass, QuitSignal, QuitBroadcast, JoinWorkers,
       SignalSet, queueVars, countVars
  <2>2. NodeCore'
    BY <1>4, <2>1, StillStep
  <2>3. Open' = Open
    BY <1>3, <1>4, <2>1 DEF Open, Completed, NodesOfPass
  <2>4. MainInv'
    BY <2>3, MainDriverStep
  <2> QED
    BY <1>4, <2>2, <2>4, NodeInvFromParts
<1>6. CASE StartPass
  <2>1. NodeCore'
    BY <1>4, <1>6, PassStep
  <2>2. MainInv'
    BY <1>6, MainDriverStep
  <2> QED
    BY <1>4, <2>1, <2>2, NodeInvFromParts
<1> QED
  BY <1>5, <1>6

\* No step of any thread breaks it.
LEMMA NodeStep == BaseInv /\ NodeInv /\ [Next]_vars => NodeInv'
<1> SUFFICES ASSUME BaseInv, NodeInv, [Next]_vars PROVE NodeInv'
  OBVIOUS
<1>1. CASE UNCHANGED vars
  <2>1. UNCHANGED <<nodeVars, progress, queued, active, result, queue, waitList, pending, failed,
                    currentPass, pc, cur, quit, signalled, buildResult>>
    BY <1>1 DEF vars, nodeVars, queueVars, countVars
  <2>2. Busy' = Busy /\ Held' = Held
    BY <2>1, Zenon DEF Busy, Held
  <2>3. Distinct' /\ ThreadInv' /\ Open' = Open
    BY <2>1, <2>2, Zenon DEF Distinct, ThreadInv, NodeInv, ExclusiveOwnership, Open, Completed, NodesOfPass
  <2>4. NodeCore'
    BY <2>1, <2>2, <2>3, StillStep
  <2>5. MainInv'
    BY <2>1, <2>3, Zenon DEF NodeInv, MainInv
  <2> QED
    BY <2>3, <2>4, <2>5, NodeInvFromParts
<1>2. CASE Next
  <2>1. CASE \E t \in Thread : LoopStep(t) \/ SpuriousWakeup(t)
    BY <2>1, NodeLoop
  <2>2. CASE \E t \in Thread : AdvanceStep(t)
    BY <2>2, NodeAdvance
  <2>3. CASE DriverStep \/ SignalSet
    BY <2>3, NodeDriver
  <2>4. CASE Finished
    BY <1>1, <2>4 DEF Finished
  <2> QED
    BY <1>2, <2>1, <2>2, <2>3, <2>4 DEF Next
<1> QED
  BY <1>1, <1>2

-----------------------------------------------------------------------------
(* The safety properties. *)

\* What the inductive invariant says of the properties.
LEMMA NodeImplies ==
  BaseInv /\ NodeInv =>
    /\ DependenciesFirst /\ ExclusiveOwnership /\ NoLostNode /\ PassBarrier
    /\ PendingExact /\ ResultSound /\ QuietAtExit /\ KeepGoing
<1> SUFFICES ASSUME BaseInv, NodeInv
             PROVE  DependenciesFirst /\ PendingExact /\ ResultSound /\ QuietAtExit /\ KeepGoing
  BY DEF NodeInv
<1>1. /\ progress \in [Node -> Progress] /\ result \in [Node -> {0, 1}] /\ failed \in Nat
      /\ currentPass \in -1 .. PassCount - 1 /\ Main \in Thread /\ Thread = Worker \cup {Main}
  BY DEF BaseInv, TypeOK, Thread
<1>2. DependenciesFirst
  <2> SUFFICES ASSUME NEW t \in Thread, pc[t] \in {"Check", "Run"}, NEW d \in Deps[cur[t]]
               PROVE  Completed(d) /\ (result[d] = 1 => ContinueOnError)
    BY DEF DependenciesFirst
  <2>1. cur[t] \in Node
    BY BusyThread DEF BusyAt
  <2>2. progress[cur[t]] \notin {"kInitial", "kBlocked"}
    BY Zenon DEF NodeInv, ThreadInv
  <2>3. AllDependenciesReady(cur[t])
    BY <2>1, <2>2 DEF NodeInv, ReadyInv
  <2>4. ~ContinueOnError => result[d] = 0
    BY <2>1, <2>2 DEF NodeInv, FailInv
  <2>5. Completed(d)
    BY <2>3, Zenon DEF AllDependenciesReady
  <2> QED
    BY <2>4, <2>5
<1>3. PendingExact
  BY DEF PendingExact, NodeInv, CountInv, Open
<1>4. ASSUME pc[Main] \in {"Quit", "QuitWake", "Join", "Done"}, buildResult = "kOk", NEW n \in Node
      PROVE  Completed(n) /\ result[n] = 0
  <2>1. failed = 0 /\ Open = {} /\ currentPass = PassCount - 1
    BY <1>4 DEF NodeInv, MainInv
  <2>2. PassOf[n] \in 0 .. PassCount - 1 /\ PassCount \in Nat
    BY DagAssumption
  <2>3. PassOf[n] < currentPass => Completed(n)
    BY DEF NodeInv, PassBarrier
  <2>4. PassOf[n] = currentPass => Completed(n)
    BY <2>1 DEF Open, NodesOfPass
  <2>5. result[n] # 1
    BY <2>1 DEF NodeInv, FailInv
  <2> QED
    BY <1>1, <2>1, <2>2, <2>3, <2>4, <2>5
<1>5. ASSUME pc[Main] \in {"Quit", "QuitWake", "Join", "Done"}, buildResult = "kBuildError"
      PROVE  \E n \in Node : Completed(n) /\ result[n] = 1
  BY <1>5, Zenon DEF NodeInv, MainInv, FailInv, StageInv
<1>6. ResultSound
  BY <1>4, <1>5 DEF ResultSound
<1>7. QuietAtExit
  <2> SUFFICES ASSUME pc[Main] = "Done"
               PROVE  /\ Busy = {}
                      /\ \A n \in Node : /\ progress[n] \in {"kInitial", "kBlocked", "kRunAction", "kCompleted"}
                                         /\ progress[n] = "kRunAction" => n \in Expensive
    BY DEF QuietAtExit
  <2>1. Busy = {}
    BY <1>1 DEF NodeInv, MainInv, Busy, BusyAt
  <2>2. Held = {}
    BY <2>1 DEF Held
  <2> QED
    BY <2>1, <2>2, Zenon DEF NodeInv, StageInv
<1>8. KeepGoing
  BY DEF KeepGoing, NodeInv, MainInv, Open
<1> QED
  BY <1>2, <1>3, <1>6, <1>7, <1>8

=============================================================================
