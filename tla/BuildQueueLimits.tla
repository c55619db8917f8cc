-------------------------- MODULE BuildQueueLimits --------------------------
(***************************************************************************)
(* Third part of the proofs about BuildQueue: the limit on expensive jobs  *)
(* and the wait list, the CHECKs of BuildQueue.cpp, and the steps of       *)
(* BuildOrder.  All this needs that no expensive node has an empty action: *)
(* AdvanceNode counts such a node out, but RunAction never counted it in.  *)
(***************************************************************************)
EXTENDS BuildQueueNodes

\* No node is both expensive and without an action.
NoEmptyExpensive == Expensive \cap NoAction = {}

-----------------------------------------------------------------------------
(* Counting. *)

\* A set that differs from a finite one in at most one element.
LEMMA OneDiffers ==
  ASSUME FiniteFacts, NEW S, NEW T, NEW x, IsFiniteSet(S), \A y : y # x => (y \in T <=> y \in S)
  PROVE  /\ IsFiniteSet(T) /\ Cardinality(S) \in Nat /\ Cardinality(T) \in Nat
         /\ Cardinality(T) = Cardinality(S) + (IF x \in T THEN 1 ELSE 0) - (IF x \in S THEN 1 ELSE 0)
<1>1. Cardinality(S) \in Nat
  BY FinCardinality
<1>2. CASE x \in T
  <2>1. T = S \cup {x}
    BY <1>2
  <2>2. IsFiniteSet(T) /\ Cardinality(T) = IF x \in S THEN Cardinality(S) ELSE Cardinality(S) + 1
    BY <2>1, FinAdd
  <2> QED
    BY <1>1, <1>2, <2>2
<1>3. CASE x \notin T
  <2>1. T = S \ {x}
    BY <1>3
  <2>2. IsFiniteSet(T) /\ Cardinality(T) = IF x \in S THEN Cardinality(S) - 1 ELSE Cardinality(S)
    BY <2>1, FinRemove
  <2>3. Cardinality(T) \in Nat
    BY <2>2, FinCardinality
  <2> QED
    BY <1>1, <1>3, <2>2, <2>3
<1> QED
  BY <1>2, <1>3

\* DriverBuild's clamp leaves room for one job at least.
LEMMA MaxExpensiveType ==
  ASSUME BaseInv
  PROVE  MaxExpensive \in Int /\ MaxExpensive >= 1
<1>1. ThreadCount \in Int /\ ThreadCount >= 1
  BY ThreadAssumption, FinCardinality DEF ThreadCount, BaseInv
<1>2. MaxExpensiveCount \in Int
  BY ThreadAssumption
<1> QED
  BY <1>1, <1>2 DEF MaxExpensive

\* The threads that run the action of an expensive node.
Jobs == {t \in Thread : pc[t] = "Run" /\ cur[t] \in Expensive}

\* They are finitely many.
LEMMA JobsFinite ==
  ASSUME BaseInv
  PROVE  IsFiniteSet(Jobs) /\ Cardinality(Jobs) \in Nat
<1>1. IsFiniteSet(Thread)
  BY ThreadAssumption, FinAdd DEF Thread, BaseInv
<1>2. IsFiniteSet(Jobs)
  BY <1>1, FinSubset DEF Jobs, BaseInv
<1> QED
  BY <1>2, FinCardinality DEF BaseInv

\* A step of thread t concerns t alone.
LEMMA JobsStep ==
  ASSUME BaseInv, NEW t \in Thread, NEW x \in Place, NEW c, Control(t, x, c)
  PROVE  Cardinality(Jobs') = Cardinality(Jobs)
                              + (IF x = "Run" /\ c \in Expensive THEN 1 ELSE 0)
                              - (IF pc[t] = "Run" /\ cur[t] \in Expensive THEN 1 ELSE 0)
<1>1. cur \in [Thread -> Node \cup {NoNode}] /\ cur' = [cur EXCEPT ![t] = c]
  BY DEF BaseInv, TypeOK, Control
<1>2. \A u \in Thread : u # t => /\ cur'[u] = cur[u]
                                 /\ pc'[u] = "Run" <=> pc[u] = "Run"
  BY <1>1 DEF Control
<1>3. cur'[t] = c /\ (pc'[t] = "Run" <=> x = "Run")
  BY <1>1 DEF Control
<1>4. \A u : u # t => (u \in Jobs' <=> u \in Jobs)
  BY <1>2 DEF Jobs
<1>5. (t \in Jobs' <=> x = "Run" /\ c \in Expensive) /\ (t \in Jobs <=> pc[t] = "Run" /\ cur[t] \in Expensive)
  BY <1>3 DEF Jobs
<1>6. Cardinality(Jobs') = Cardinality(Jobs) + (IF t \in Jobs' THEN 1 ELSE 0) - (IF t \in Jobs THEN 1 ELSE 0)
  BY <1>4, JobsFinite, OneDiffers DEF BaseInv
<1> QED
  BY <1>5, <1>6

-----------------------------------------------------------------------------
(* The nodes on their way back from the wait list. *)

\* Node n's action is running.
Running(n) == \E t \in Thread : pc[t] = "Run" /\ cur[t] = n

\* Expensive nodes that are about to ask for their turn.
OnTheWay ==
  {n \in Expensive \cap (Range(queue) \cup Held) :
      progress[n] = "kRunAction" /\ \A t \in Thread : pc[t] = "Run" => cur[t] # n}

\* The two properties, with the sets they count named.
LEMMA LimitAndWaker ==
  /\ ExpensiveLimit <=> expensiveRunning = Cardinality(Jobs) /\ expensiveRunning <= MaxExpensive
  /\ ParkedHasWaker <=> (waitList # <<>> => expensiveRunning + Cardinality(OnTheWay) >= MaxExpensive)
  BY Zenon DEF ExpensiveLimit, ParkedHasWaker, Jobs, OnTheWay

\* The same after a step.
LEMMA LimitAndWakerNext ==
  /\ ExpensiveLimit' <=> expensiveRunning' = Cardinality(Jobs') /\ expensiveRunning' <= MaxExpensive
  /\ ParkedHasWaker' <=> (waitList' # <<>> => expensiveRunning' + Cardinality(OnTheWay') >= MaxExpensive)
  BY Zenon DEF ExpensiveLimit, ParkedHasWaker, Jobs, OnTheWay

\* Nodes are finitely many, so those on their way are.
LEMMA WayFinite ==
  ASSUME BaseInv
  PROVE  /\ IsFiniteSet(OnTheWay) /\ Cardinality(OnTheWay) \in Nat
         /\ IsFiniteSet(OnTheWay') /\ Cardinality(OnTheWay') \in Nat
<1>1. OnTheWay \subseteq Node /\ OnTheWay' \subseteq Node
  BY DagAssumption DEF OnTheWay
<1>2. IsFiniteSet(OnTheWay) /\ IsFiniteSet(OnTheWay')
  BY <1>1, DagAssumption, FinSubset DEF BaseInv
<1> QED
  BY <1>2, FinCardinality DEF BaseInv

\* Which actions run after a step of thread t.
LEMMA RunningStep ==
  ASSUME BaseInv, NEW t \in Thread, NEW x \in Place, NEW c, Control(t, x, c)
  PROVE  /\ \A m : Running(m)' => Running(m) \/ (x = "Run" /\ c = m)
         /\ \A m : Running(m) => Running(m)' \/ (pc[t] = "Run" /\ cur[t] = m)
         /\ x = "Run" => Running(c)'
<1>1. cur \in [Thread -> Node \cup {NoNode}] /\ cur' = [cur EXCEPT ![t] = c]
  BY DEF BaseInv, TypeOK, Control
<1>2. \A u \in Thread : u # t => /\ cur'[u] = cur[u]
                                 /\ pc'[u] = "Run" <=> pc[u] = "Run"
  BY <1>1 DEF Control
<1>3. cur'[t] = c /\ (pc'[t] = "Run" <=> x = "Run")
  BY <1>1 DEF Control
<1> QED
  BY <1>2, <1>3 DEF Running

\* A node stays on its way unless its action starts.
LEMMA WayKept ==
  ASSUME BaseInv, NEW t \in Thread, NEW x \in Place, NEW c, Control(t, x, c),
         NEW m \in OnTheWay, progress'[m] = "kRunAction", x = "Run" => c # m,
         m \in Range(queue') \cup Held'
  PROVE  m \in OnTheWay'
<1>1. ~Running(m) /\ m \in Expensive
  BY DEF OnTheWay, Running
<1>2. ~Running(m)'
  BY <1>1, RunningStep
<1> QED
  BY <1>1, <1>2 DEF OnTheWay, Running

\* When the wait list and the count stay and nobody is lost on the way.
LEMMA WakerKept ==
  ASSUME BaseInv, ParkedHasWaker, UNCHANGED <<waitList, expensiveRunning>>, OnTheWay \subseteq OnTheWay'
  PROVE  ParkedHasWaker'
<1>1. Cardinality(OnTheWay) <= Cardinality(OnTheWay')
  BY WayFinite, FinSubset DEF BaseInv
<1>2. expensiveRunning \in Int
  BY DEF BaseInv, TypeOK
<1> QED
  BY <1>1, <1>2, WayFinite, MaxExpensiveType, LimitAndWaker, LimitAndWakerNext

\* Appending to the queue removes nothing from it.
LEMMA ConcatGrows ==
  ASSUME NEW q \in Seq(Node), NEW s \in Seq(Node)
  PROVE  Range(q) \subseteq Range(q \o s)
  BY DEF Range

-----------------------------------------------------------------------------
(* Every step keeps the limit and the waker. *)

ExpensiveInv == ExpensiveLimit /\ ParkedHasWaker

\* A step that starts and ends no action, parks and unparks nothing.
LEMMA ExpensiveStill ==
  ASSUME BaseInv, ExpensiveInv, NEW t \in Thread, NEW x \in Place, NEW c, Control(t, x, c),
         (pc[t] # "Run" /\ x # "Run") \/ (x = pc[t] /\ c = cur[t]),
         UNCHANGED <<waitList, expensiveRunning>>,
         waitList # <<>> => \A m \in OnTheWay : /\ progress'[m] = progress[m]
                                                /\ m \in Range(queue') \cup Held'
  PROVE  ExpensiveInv'
<1>1. Cardinality(Jobs) \in Nat
  BY JobsFinite
<1>2. Cardinality(Jobs') = Cardinality(Jobs)
  BY <1>1, JobsStep
<1>3. ExpensiveLimit'
  BY <1>2, LimitAndWaker, LimitAndWakerNext DEF ExpensiveInv
<1>4. CASE waitList = <<>>
  BY <1>3, <1>4, LimitAndWakerNext DEF ExpensiveInv
<1>5. CASE waitList # <<>>
  <2>1. OnTheWay \subseteq OnTheWay'
    <3> SUFFICES ASSUME NEW m \in OnTheWay PROVE m \in OnTheWay'
      OBVIOUS
    <3>1. progress'[m] = "kRunAction" /\ (x = "Run" => c # m)
      BY <1>5 DEF OnTheWay
    <3> QED
      BY <1>5, <3>1, WayKept
  <2> QED
    BY <1>3, <2>1, WakerKept DEF ExpensiveInv
<1> QED
  BY <1>4, <1>5

\* RunAction starts an expensive action only below the limit.
LEMMA ExpensiveStart ==
  ASSUME BaseInv, NodeInv, ExpensiveInv, NEW t \in Thread, RunActionStart(t)
  PROVE  ExpensiveInv'
<1> DEFINE n == cur[t]
<1>1. /\ pc[t] = "Advance" /\ progress[n] = "kRunAction" /\ Control(t, "Run", n)
      /\ n \in Expensive => expensiveRunning # MaxExpensive
      /\ expensiveRunning' = expensiveRunning + (IF n \in Expensive THEN 1 ELSE 0)
      /\ UNCHANGED <<progress, queue, waitList>>
  BY AdvanceControl, Zenon DEF RunActionStart, Advancing, nodeVars
<1>2. n \in Held /\ n \in Node /\ Distinct /\ (\A u \in Busy : cur[u] = n => u = t) /\ "Run" \in Place
  BY <1>1, BusyThread DEF BusyAt, Place
<1>3. Held' = Held
  BY <1>1, <1>2, HeldStep DEF BusyAt
<1>4. expensiveRunning \in Int /\ Cardinality(Jobs) \in Nat
  BY JobsFinite DEF BaseInv, TypeOK
<1>5. Cardinality(Jobs') = Cardinality(Jobs) + (IF n \in Expensive THEN 1 ELSE 0)
  BY <1>1, <1>2, <1>4, JobsStep
<1>6. ExpensiveLimit'
  BY <1>1, <1>4, <1>5, MaxExpensiveType, LimitAndWaker, LimitAndWakerNext DEF ExpensiveInv
<1>7. ASSUME NEW m \in OnTheWay, m # n
      PROVE  m \in OnTheWay'
  <2>1. progress'[m] = "kRunAction" /\ m \in Range(queue') \cup Held'
    BY <1>1, <1>3 DEF OnTheWay
  <2> QED
    BY <1>1, <1>2, <1>7, <2>1, WayKept
<1>8. ParkedHasWaker'
  <2>1. OnTheWay \ {n} \subseteq OnTheWay'
    BY <1>7
  <2>2. Cardinality(OnTheWay \ {n}) <= Cardinality(OnTheWay')
    BY <2>1, WayFinite, FinSubset DEF BaseInv
  <2>3. n \in OnTheWay => Cardinality(OnTheWay \ {n}) = Cardinality(OnTheWay) - 1
    BY WayFinite, FinRemove, Zenon DEF BaseInv
  <2>4. n \notin OnTheWay => Cardinality(OnTheWay \ {n}) = Cardinality(OnTheWay)
    BY WayFinite, FinRemove, Zenon DEF BaseInv
  <2>5. n \in OnTheWay => n \in Expensive
    BY DEF OnTheWay
  <2> QED
    BY <1>1, <1>4, <2>2, <2>3, <2>4, <2>5, WayFinite, MaxExpensiveType, LimitAndWaker,
       LimitAndWakerNext DEF ExpensiveInv
<1> QED
  BY <1>6, <1>8 DEF ExpensiveInv

\* When an expensive action is over AdvanceNode lets the node parked last in.
LEMMA ExpensiveDone ==
  ASSUME BaseInv, NodeInv, ExpensiveInv, NEW t \in Thread, RunDone(t)
  PROVE  ExpensiveInv'
<1> DEFINE n == cur[t]
<1>1. pc[t] = "Run" /\ Control(t, "Advance", n) /\ "Advance" \in Place
  BY AdvanceControl, Zenon DEF RunDone, Place, BusyAt
<1>2. PICK p : AfterRunAction(n, p)
  BY DEF RunDone
<1>3. n \in Held /\ n \in Node /\ Distinct
  BY <1>1, BusyThread DEF BusyAt
<1>4. Held' = Held
  BY <1>1, <1>3, HeldStep DEF BusyAt
<1>5. \A m \in Node : m # n => progress'[m] = progress[m]
  BY DEF RunDone, BaseInv, TypeOK
<1>6. expensiveRunning \in Int /\ Cardinality(Jobs) \in Nat
  BY JobsFinite DEF BaseInv, TypeOK
<1>7. Cardinality(Jobs') = Cardinality(Jobs) - (IF n \in Expensive THEN 1 ELSE 0)
  BY <1>1, <1>6, JobsStep
<1>8. expensiveRunning' = expensiveRunning - (IF n \in Expensive THEN 1 ELSE 0)
  BY <1>2, <1>6 DEF AfterRunAction, queueVars
<1>9. ExpensiveLimit'
  BY <1>6, <1>7, <1>8, MaxExpensiveType, LimitAndWaker, LimitAndWakerNext DEF ExpensiveInv
<1>10. ASSUME Range(queue) \subseteq Range(queue'), NEW m \in OnTheWay
       PROVE  m \in OnTheWay'
  <2>1. m # n /\ m \in Node
    BY <1>1, DagAssumption DEF OnTheWay
  <2>2. progress'[m] = "kRunAction" /\ m \in Range(queue') \cup Held'
    BY <1>4, <1>5, <1>10, <2>1 DEF OnTheWay
  <2> QED
    BY <1>1, <2>2, WayKept
<1>11. CASE n \notin Expensive
  <2>1. UNCHANGED <<queue, waitList, expensiveRunning>>
    BY <1>2, <1>11 DEF AfterRunAction, queueVars
  <2>2. OnTheWay \subseteq OnTheWay'
    BY <1>10, <2>1
  <2> QED
    BY <1>9, <2>1, <2>2, WakerKept DEF ExpensiveInv
<1>12. CASE n \in Expensive /\ waitList = <<>>
  <2>1. waitList' = <<>>
    BY <1>2, <1>12 DEF AfterRunAction
  <2> QED
    BY <1>9, <2>1, LimitAndWakerNext DEF ExpensiveInv
<1>13. CASE n \in Expensive /\ waitList # <<>>
  <2>1. PICK parked : parked = waitList[Len(waitList)]
    OBVIOUS
  <2>2. queue' = Append(queue, parked)
    BY <1>2, <1>13, <2>1, Zenon DEF AfterRunAction
  <2>3. /\ queue \in Seq(Node) /\ waitList \in Seq(Node)
        /\ IsInjective(queue) /\ IsInjective(waitList) /\ Range(queue) \cap Range(waitList) = {}
        /\ Held \cap Range(waitList) = {}
    BY Zenon DEF BaseInv, TypeOK, NodeInv, ExclusiveOwnership
  <2>4. parked \in Node /\ parked \in Range(waitList)
    BY <1>13, <2>1, <2>3, FrontProp
  <2>5. parked \notin Range(queue) /\ parked \notin Held
    BY <2>3, <2>4
  <2>6. Range(queue') = Range(queue) \cup {parked}
    BY <2>2, <2>3, <2>4, <2>5, AppendProp
  <2>7. parked \notin OnTheWay
    BY <2>5 DEF OnTheWay
  <2>8. progress[parked] = "kRunAction" /\ parked \in Expensive
    BY <2>4 DEF NodeInv, StageInv
  <2>9. parked \in OnTheWay'
    <3>1. ~Running(parked)
      BY <2>5 DEF Running, Held, Busy, BusyAt
    <3>2. ~Running(parked)'
      BY <1>1, <3>1, RunningStep
    <3>3. progress'[parked] = "kRunAction"
      BY <1>3, <1>5, <2>4, <2>5, <2>8
    <3> QED
      BY <2>6, <2>8, <3>2, <3>3 DEF OnTheWay, Running
  <2>10. OnTheWay \cup {parked} \subseteq OnTheWay'
    BY <1>10, <2>6, <2>9
  <2>11. Cardinality(OnTheWay \cup {parked}) = Cardinality(OnTheWay) + 1
    BY <2>7, WayFinite, FinAdd DEF BaseInv
  <2>12. Cardinality(OnTheWay \cup {parked}) <= Cardinality(OnTheWay')
    BY <2>10, WayFinite, FinSubset DEF BaseInv
  <2> QED
    BY <1>6, <1>8, <1>9, <1>13, <2>11, <2>12, WayFinite, MaxExpensiveType, LimitAndWaker,
       LimitAndWakerNext DEF ExpensiveInv
<1> QED
  BY <1>11, <1>12, <1>13

\* A node is parked only when the limit is reached.
LEMMA ExpensivePark ==
  ASSUME BaseInv, NodeInv, ExpensiveInv, NEW t \in Thread, ParkExpensiveNode(t)
  PROVE  ExpensiveInv'
<1>1. /\ pc[t] = "Advance" /\ Control(t, "Loop", NoNode) /\ "Loop" \in Place
      /\ expensiveRunning = MaxExpensive /\ UNCHANGED expensiveRunning
  BY AdvanceControl, Zenon DEF ParkExpensiveNode, Advancing, Place, LockedAt
<1>2. Cardinality(Jobs) \in Nat
  BY JobsFinite
<1>3. Cardinality(Jobs') = Cardinality(Jobs)
  BY <1>1, <1>2, JobsStep
<1> QED
  BY <1>1, <1>3, WayFinite, MaxExpensiveType, LimitAndWaker, LimitAndWakerNext DEF ExpensiveInv

\* AdvanceNode keeps the limit and the waker.
LEMMA ExpensiveAdvance ==
  ASSUME NoEmptyExpensive, BaseInv, NodeInv, ExpensiveInv, NEW t \in Thread, AdvanceStep(t)
  PROVE  ExpensiveInv'
<1> DEFINE n == cur[t]
<1>1. pc[t] \in BusyAt
  BY Zenon DEF AdvanceStep, AdvanceInitial, AdvanceBlocked, CheckStart, CheckDone,
     RunActionEmpty, ParkExpensiveNode, RunActionStart, RunDone, AdvanceSucceeded,
     AdvanceFailed, AdvanceCompleted, Advancing, BusyAt
<1>2. n \in Held /\ n \in Node /\ Distinct
  BY <1>1, BusyThread
<1>3. {"Advance", "Check", "Loop"} \subseteq Place /\ "Loop" \notin BusyAt
      /\ {"Advance", "Check"} \subseteq BusyAt
  BY DEF Place, BusyAt, LockedAt
<1>4. /\ progress \in [Node -> Progress] /\ queue \in Seq(Node)
      /\ OnTheWay \subseteq Node /\ \A m \in OnTheWay : progress[m] = "kRunAction"
  BY DagAssumption DEF BaseInv, TypeOK, OnTheWay
<1>5. ASSUME NEW x \in {"Advance", "Check", "Loop"}, Control(t, x, IF x = "Loop" THEN NoNode ELSE n),
             pc[t] # "Run", n \notin OnTheWay, UNCHANGED <<waitList, expensiveRunning>>,
             \A m \in Node : m = n \/ progress'[m] = progress[m],
             Range(queue) \subseteq Range(queue')
      PROVE  ExpensiveInv'
  <2>1. Held \ {n} \subseteq Held'
    BY <1>1, <1>2, <1>3, <1>5, HeldStep, SMTT(30)
  <2>2. \A m \in OnTheWay : progress'[m] = progress[m] /\ m \in Range(queue') \cup Held'
    BY <1>4, <1>5, <2>1 DEF OnTheWay
  <2>3. x \in Place /\ x # "Run"
    BY <1>3
  <2> QED
    BY <1>5, <2>2, <2>3, ExpensiveStill, Zenon
<1>6. progress[n] # "kRunAction" => n \notin OnTheWay
  BY <1>4
<1> HIDE DEF n
<1>7. CASE AdvanceInitial(t)
  <2> DEFINE fresh == {d \in Waits(n) : d \notin queued \cup active /\ progress[d] # "kBlocked"}
  <2>1. /\ pc[t] = "Advance" /\ progress[n] = "kInitial"
        /\ \E s \in Orderings(fresh) : queue' = queue \o s
        /\ progress' = [progress EXCEPT ![n] = IF Waits(n) = {} THEN "kUnblocked" ELSE "kBlocked"]
        /\ UNCHANGED <<waitList, expensiveRunning>>
    BY <1>7, Zenon DEF AdvanceInitial, Advancing, Waits, n
  <2>2. fresh \subseteq Node /\ IsFiniteSet(fresh)
    BY <1>2, WokenNodes
  <2> HIDE DEF fresh
  <2>3. Range(queue) \subseteq Range(queue')
    <3>1. PICK s \in Orderings(fresh) : queue' = queue \o s
      BY <2>1
    <3>2. s \in Seq(Node)
      BY <2>2, OrderingsProp DEF BaseInv
    <3> QED
      BY <1>4, <3>1, <3>2, ConcatGrows
  <2>4. \A m \in Node : m = n \/ progress'[m] = progress[m]
    BY <1>4, <2>1
  <2>5. Control(t, "Advance", n) \/ Control(t, "Loop", NoNode)
    BY <1>7, AdvanceControl DEF n
  <2> QED
    BY <1>5, <1>6, <2>1, <2>3, <2>4, <2>5
<1>8. CASE AdvanceBlocked(t) \/ CheckStart(t) \/ CheckDone(t) \/ AdvanceSucceeded(t) \/ AdvanceFailed(t)
  <2>1. /\ UNCHANGED <<queue, waitList, expensiveRunning>> /\ pc[t] # "Run"
        /\ Control(t, "Advance", n) \/ Control(t, "Check", n)
    BY <1>8, AdvanceControl, Zenon DEF AdvanceBlocked, CheckStart, CheckDone, AdvanceSucceeded,
       AdvanceFailed, Advancing, queueVars, n
  <2>2. \A m \in Node : m = n \/ progress'[m] = progress[m]
    BY <1>4, <1>8 DEF AdvanceBlocked, CheckStart, CheckDone, AdvanceSucceeded, AdvanceFailed, nodeVars, n
  <2>3. progress[n] # "kRunAction"
    BY <1>8 DEF AdvanceBlocked, CheckStart, CheckDone, AdvanceSucceeded, AdvanceFailed, Advancing,
       NodeInv, ThreadInv, n
  <2> QED
    BY <1>5, <1>6, <2>1, <2>2, <2>3
<1>9. CASE RunActionEmpty(t)
  <2>1. /\ pc[t] = "Advance" /\ n \in NoAction /\ AfterRunAction(n, pc) /\ Control(t, "Advance", n)
        /\ progress' = [progress EXCEPT ![n] = "kSucceeded"]
    BY <1>9, AdvanceControl, Zenon DEF RunActionEmpty, Advancing, n
  <2>2. n \notin Expensive
    BY <2>1 DEF NoEmptyExpensive
  <2>3. UNCHANGED <<queue, waitList, expensiveRunning>> /\ n \notin OnTheWay
    BY <2>1, <2>2 DEF AfterRunAction, queueVars, OnTheWay
  <2>4. \A m \in Node : m = n \/ progress'[m] = progress[m]
    BY <1>4, <2>1
  <2> QED
    BY <1>5, <2>1, <2>3, <2>4
<1>10. CASE AdvanceCompleted(t)
  <2>1. /\ pc[t] = "Advance" /\ progress[n] = "kCompleted" /\ Control(t, "Loop", NoNode)
        /\ \E s \in Orderings(ReadyWaiters(n)) : queue' = queue \o s
        /\ UNCHANGED <<progress, waitList, expensiveRunning>>
    BY <1>10, AdvanceControl, Zenon DEF AdvanceCompleted, Advancing, n
  <2>2. Range(queue) \subseteq Range(queue')
    <3>1. PICK s \in Orderings(ReadyWaiters(n)) : queue' = queue \o s
      BY <2>1
    <3>2. s \in Seq(Node)
      BY <1>2, WokenNodes, OrderingsProp DEF BaseInv
    <3> QED
      BY <1>4, <3>1, <3>2, ConcatGrows
  <2> QED
    BY <1>5, <1>6, <2>1, <2>2
<1> QED
  BY <1>7, <1>8, <1>9, <1>10, ExpensiveStart, ExpensiveDone, ExpensivePark DEF AdvanceStep

\* BuildLoop keeps them: a node that is taken stays on its way.
LEMMA ExpensiveLoop ==
  ASSUME BaseInv, NodeInv, ExpensiveInv, NEW t \in Thread, LoopStep(t) \/ SpuriousWakeup(t)
  PROVE  ExpensiveInv'
<1>1. Distinct
  BY DEF NodeInv, ExclusiveOwnership, Distinct
<1>2. /\ {"Loop", "Wait", "Asleep", "Lock", "Result", "Exited", "Advance"} \subseteq Place
      /\ {"Loop", "Wait", "Asleep", "Lock", "Result", "Exited"} \cap BusyAt = {}
      /\ "Advance" \in BusyAt
  BY DEF Place, BusyAt, LockedAt, MainAt
<1>3. CASE TakeNode(t)
  <2>1. /\ pc[t] = "Loop" /\ Control(t, "Advance", Head(queue)) /\ queue # <<>> /\ queue' = Tail(queue)
        /\ UNCHANGED <<progress, waitList, expensiveRunning>>
    BY <1>3, LoopControl, Zenon DEF TakeNode
  <2>2. Held' = Held \cup {Head(queue)}
    BY <1>1, <1>2, <2>1, HeldStep, Zenon
  <2>3. queue \in Seq(Node) /\ IsInjective(queue)
    BY DEF BaseInv, TypeOK, NodeInv, ExclusiveOwnership
  <2>4. Range(queue') = Range(queue) \ {Head(queue)}
    BY <2>1, <2>3, TailProp
  <2>5. \A m \in OnTheWay : progress'[m] = progress[m] /\ m \in Range(queue') \cup Held'
    BY <2>1, <2>2, <2>4 DEF OnTheWay
  <2> QED
    BY <1>2, <2>1, <2>5, ExpensiveStill
<1>4. CASE ~TakeNode(t)
  <2>1. /\ pc[t] \in {"Lock", "Loop", "Wait", "Asleep"}
        /\ UNCHANGED <<progress, queue, waitList, expensiveRunning>>
    BY <1>4 DEF LoopStep, Acquire, DecideToWait, Sleep, SpuriousWakeup, LeaveLoop, nodeVars, queueVars
  <2>2. PICK x \in {"Loop", "Wait", "Asleep", "Lock", "Result", "Exited"} : Control(t, x, NoNode)
    BY <1>4, LoopControl, Zenon DEF LoopStep
  <2>3. Held' = Held
    BY <1>1, <1>2, <2>1, <2>2, HeldStep, Zenon
  <2>4. \A m \in OnTheWay : progress'[m] = progress[m] /\ m \in Range(queue') \cup Held'
    BY <2>1, <2>3 DEF OnTheWay
  <2> QED
    BY <1>2, <2>1, <2>2, <2>4, ExpensiveStill
<1> QED
  BY <1>3, <1>4

\* The driver's thread and the signal handler keep them: when a pass starts
\* nothing is parked.
LEMMA ExpensiveDriver ==
  ASSUME BaseInv, NodeInv, ExpensiveInv, DriverStep \/ SignalSet
  PROVE  ExpensiveInv'
<1>1. Distinct /\ Main \in Thread
  BY DEF NodeInv, ExclusiveOwnership, Distinct, Thread
<1>2. /\ {"PassWake", "Lock", "Quit", "Pass", "QuitWake", "Join", "Done"} \subseteq Place
      /\ {"PassWake", "Lock", "Quit", "Pass", "QuitWake", "Join", "Done", "Result"} \cap BusyAt = {}
      /\ "Run" \in BusyAt
  BY DEF Place, BusyAt, LockedAt, MainAt
<1>3. /\ UNCHANGED <<progress, waitList, expensiveRunning>>
      /\ ~StartPass => UNCHANGED queue
  BY Zenon DEF DriverStep, StartPass, PassBroadcast, EndPass, QuitSignal, QuitBroadcast, JoinWorkers,
     SignalSet, nodeVars, queueVars
<1>4. StartPass => waitList = <<>>
  <2>1. StartPass => Open = {}
    BY Zenon DEF StartPass, NodeInv, MainInv
  <2> QED
    BY <2>1, NothingOpen
<1>5. CASE DriverStep
  <2>1. pc[Main] \in {"PassWake", "Quit", "Pass", "QuitWake", "Join", "Result"}
    BY <1>5 DEF DriverStep, StartPass, PassBroadcast, EndPass, QuitSignal, QuitBroadcast,
       JoinWorkers
  <2>2. PICK x \in {"PassWake", "Lock", "Quit", "Pass", "QuitWake", "Join", "Done"} :
          Control(Main, x, NoNode)
    BY <1>5, DriverControl, Zenon DEF DriverStep
  <2>3. Held' = Held
    BY <1>1, <1>2, <2>1, <2>2, HeldStep, Zenon
  <2>4. waitList # <<>> => \A m \in OnTheWay : progress'[m] = progress[m] /\ m \in Range(queue') \cup Held'
    BY <1>3, <1>4, <2>3 DEF OnTheWay
  <2>5. pc[Main] # "Run" /\ x # "Run" /\ x \in Place
    BY <1>2, <2>1
  <2> QED
    BY <1>1, <1>3, <2>2, <2>4, <2>5, ExpensiveStill
<1>6. CASE SignalSet
  <2>1. Control(Main, pc[Main], cur[Main]) /\ pc[Main] \in Place
    BY <1>1, <1>6, DriverControl, Zenon DEF BaseInv, TypeOK
  <2>2. Held' = Held
    BY <1>1, <2>1, HeldStep, Zenon
  <2>3. UNCHANGED queue
    BY <1>6, Zenon DEF SignalSet, queueVars
  <2>4. \A m \in OnTheWay : progress'[m] = progress[m] /\ m \in Range(queue') \cup Held'
    BY <1>3, <2>2, <2>3 DEF OnTheWay
  <2> QED
    BY <1>1, <1>3, <2>1, <2>4, ExpensiveStill
<1> QED
  BY <1>5, <1>6

\* After BuildQueueInit nothing runs and nothing is parked.
LEMMA ExpensiveInit == BaseInv /\ Init => ExpensiveInv
<1> SUFFICES ASSUME BaseInv, Init PROVE ExpensiveInv
  OBVIOUS
<1>1. Jobs = {} /\ expensiveRunning = 0 /\ waitList = <<>>
  BY DEF Init, Jobs
<1> QED
  BY <1>1, FinEmpty, MaxExpensiveType, LimitAndWaker DEF ExpensiveInv, BaseInv

\* No step of any thread breaks them.
LEMMA ExpensiveStep ==
  ASSUME NoEmptyExpensive, BaseInv, NodeInv, ExpensiveInv, [Next]_vars
  PROVE  ExpensiveInv'
<1>1. CASE UNCHANGED vars
  <2>1. UNCHANGED <<progress, queue, waitList, expensiveRunning, pc, cur>>
    BY <1>1 DEF vars, nodeVars, queueVars
  <2>2. Jobs' = Jobs
    BY <2>1, Zenon DEF Jobs
  <2>3. Held' = Held
    BY <2>1, Zenon DEF Held, Busy
  <2>4. OnTheWay' = OnTheWay
    BY <2>1, <2>3, Zenon DEF OnTheWay
  <2> QED
    BY <2>1, <2>2, <2>4, LimitAndWaker, LimitAndWakerNext DEF ExpensiveInv
<1>2. CASE Next
  <2>1. CASE \E t \in Thread : LoopStep(t) \/ SpuriousWakeup(t)
    BY <2>1, ExpensiveLoop
  <2>2. CASE \E t \in Thread : AdvanceStep(t)
    BY <2>2, ExpensiveAdvance
  <2>3. CASE DriverStep \/ SignalSet
    BY <2>3, ExpensiveDriver
  <2>4. CASE Finished
    BY <1>1, <2>4 DEF Finished
  <2> QED
    BY <1>2, <2>1, <2>2, <2>3, <2>4 DEF Next
<1> QED
  BY <1>1, <1>2

-----------------------------------------------------------------------------
(* The safety properties. *)

\* The CHECKs of NextNode, AdvanceNode and Enqueue.
LEMMA AssertionsFollow ==
  ASSUME BaseInv, NodeInv, ExpensiveInv
  PROVE  AssertionsHold
<1>1. Range(queue) \subseteq Node /\ Held \subseteq Node
      /\ \A n \in Range(queue) : PassOf[n] = currentPass
  BY InUse, Zenon
<1>2. /\ queued = Range(queue) \cup Range(waitList)
      /\ active = Held \cup Range(waitList) \cup CompletedNodes
      /\ (Range(queue) \cup Range(waitList)) \cap CompletedNodes = {}
      /\ Held \cap (Range(queue) \cup Range(waitList)) = {}
      /\ Range(queue) \cap Range(waitList) = {}
  BY Zenon DEF NodeInv, FlagInv, ExclusiveOwnership
<1>3. Range(queue) \subseteq queued \ active /\ Held \subseteq active \ queued
  BY <1>2
<1>4. \A n \in Range(queue) : ~Completed(n) /\ PassOf[n] = currentPass
  BY <1>1, <1>2 DEF CompletedNodes
<1>5. expensiveRunning >= 0
  <2>1. Cardinality(Jobs) \in Nat
    BY JobsFinite
  <2> QED
    BY <2>1, LimitAndWaker DEF ExpensiveInv
<1>6. \A t \in Thread : Advancing(t, "kBlocked") => AllDependenciesReady(cur[t])
  <2> SUFFICES ASSUME NEW t \in Thread, pc[t] = "Advance", progress[cur[t]] = "kBlocked"
               PROVE  AllDependenciesReady(cur[t])
    BY DEF Advancing
  <2>1. cur[t] \in Held /\ cur[t] \in Node
    BY BusyThread DEF BusyAt
  <2> QED
    BY <2>1 DEF NodeInv, ReadyInv
<1> QED
  BY <1>3, <1>4, <1>5, <1>6 DEF AssertionsHold

-----------------------------------------------------------------------------
(* Every action is one step of BuildOrder or none. *)

\* The abstract build: how far every node is, as the code's state shows it.
Stages == [n \in Node |-> StageOf(n)]

\* A node's stage depends on its progress, its result and its action running.
LEMMA StageKept ==
  ASSUME BaseInv, NEW t \in Thread, NEW x \in Place, NEW c, Control(t, x, c), NEW m \in Node,
         progress'[m] = progress[m], result'[m] = result[m],
         progress[m] = "kRunAction" => ((pc[t] = "Run" /\ cur[t] = m) <=> (x = "Run" /\ c = m))
  PROVE  StageOf(m)' = StageOf(m)
<1>1. CASE progress[m] = "kRunAction"
  <2>1. Running(m)' <=> Running(m)
    <3>1. pc[t] = "Run" /\ cur[t] = m => Running(m)
      BY DEF Running
    <3> QED
      BY <1>1, <3>1, RunningStep
  <2> QED
    BY <1>1, <2>1 DEF StageOf, Running
<1>2. CASE progress[m] # "kRunAction"
  BY <1>2 DEF StageOf
<1> QED
  BY <1>1, <1>2

\* Between two changes of its progress the stage of a node is what the progress
\* says.
LEMMA StageIs ==
  ASSUME BaseInv, NEW m \in Node
  PROVE  /\ progress[m] \in {"kInitial", "kBlocked"} => StageOf(m) = "waiting"
         /\ progress[m] = "kUnblocked" => StageOf(m) = "checking"
         /\ progress[m] = "kRunAction" => StageOf(m) = IF Running(m) THEN "running" ELSE "checking"
         /\ progress[m] \in {"kSucceeded", "kUpToDate"} => StageOf(m) = "ok"
         /\ progress[m] = "kFailed" => StageOf(m) = "failed"
         /\ progress[m] = "kCompleted" => StageOf(m) = IF result[m] = 0 THEN "ok" ELSE "failed"
  BY DEF StageOf, Running

\* The same after a step.
LEMMA StageIsNext ==
  ASSUME BaseInv, NEW m \in Node
  PROVE  /\ progress'[m] \in {"kInitial", "kBlocked"} => StageOf(m)' = "waiting"
         /\ progress'[m] = "kUnblocked" => StageOf(m)' = "checking"
         /\ progress'[m] = "kRunAction" => StageOf(m)' = IF Running(m)' THEN "running" ELSE "checking"
         /\ progress'[m] \in {"kSucceeded", "kUpToDate"} => StageOf(m)' = "ok"
         /\ progress'[m] = "kFailed" => StageOf(m)' = "failed"
         /\ progress'[m] = "kCompleted" => StageOf(m)' = IF result'[m] = 0 THEN "ok" ELSE "failed"
  BY DEF StageOf, Running

\* A step that leaves every stage alone.
LEMMA StagesStill ==
  ASSUME \A m \in Node : StageOf(m)' = StageOf(m)
  PROVE  Stages' = Stages
  BY DEF Stages

\* A step that changes the stage of one node.
LEMMA StagesChange ==
  ASSUME NEW n \in Node, NEW s, StageOf(n)' = s, \A m \in Node \ {n} : StageOf(m)' = StageOf(m)
  PROVE  Stages' = [Stages EXCEPT ![n] = s]
  BY Zenon DEF Stages

\* A step of the code that checks node n is one of BuildOrder.
LEMMA OrderCheck ==
  ASSUME NEW n \in Node, UNCHANGED currentPass,
         PassOf[n] = currentPass, StageOf(n) = "waiting",
         \A d \in Deps[n] : StageOf(d) \in {"ok", "failed"},
         ContinueOnError \/ \A m \in Node : StageOf(m) # "failed",
         Stages' = [Stages EXCEPT ![n] = "checking"]
  PROVE  Order!Next
<1>1. \A d \in Deps[n] : d \in Node
  BY DagAssumption
<1>2. Order!Check(n)
  BY <1>1 DEF Order!Check, Order!Finished, Stages
<1> QED
  BY <1>2 DEF Order!Next

\* A step that finds that node n needs no action.
LEMMA OrderSkip ==
  ASSUME NEW n \in Node, UNCHANGED currentPass, StageOf(n) = "checking",
         Stages' = [Stages EXCEPT ![n] = "ok"]
  PROVE  Order!Next
<1>1. Order!Skip(n)
  BY DEF Order!Skip, Stages
<1> QED
  BY <1>1 DEF Order!Next

\* BuildOrder counts with the same Cardinality.
LEMMA SameCardinality == \A S : Order!Cardinality(S) = Cardinality(S)
  BY DEF Order!Cardinality, Cardinality

\* A step that starts the action of node n.
LEMMA OrderRun ==
  ASSUME NEW n \in Node, UNCHANGED currentPass, StageOf(n) = "checking",
         n \in Expensive => Cardinality({m \in Expensive : Stages[m] = "running"}) < MaxExpensive,
         Stages' = [Stages EXCEPT ![n] = "running"]
  PROVE  Order!Next
<1>1. Stages[n] = "checking"
  BY DEF Stages
<1>2. Order!Run(n)
  BY <1>1, SameCardinality, Zenon DEF Order!Run, Stages
<1> QED
  BY <1>2 DEF Order!Next

\* A step that ends the action of node n.
LEMMA OrderFinish ==
  ASSUME NEW n \in Node, UNCHANGED currentPass, StageOf(n) = "running",
         NEW r \in {"ok", "failed"}, Stages' = [Stages EXCEPT ![n] = r]
  PROVE  Order!Next
<1>1. Order!Finish(n)
  BY Zenon DEF Order!Finish, Stages
<1> QED
  BY <1>1 DEF Order!Next

\* A step that starts the next pass.
LEMMA OrderNextPass ==
  ASSUME currentPass + 1 < PassCount, currentPass' = currentPass + 1, Stages' = Stages,
         \A n \in Node : PassOf[n] <= currentPass => StageOf(n) = "ok"
  PROVE  Order!Next
<1>1. Order!NextPass
  BY DEF Order!NextPass, Stages
<1> QED
  BY <1>1 DEF Order!Next

\* Steps that BuildOrder does not see.
LEMMA OrderStutter ==
  ASSUME BaseInv, NEW t \in Thread, NEW x \in Place, NEW c, Control(t, x, c),
         (pc[t] # "Run" /\ x # "Run") \/ (x = pc[t] /\ c = cur[t]),
         UNCHANGED <<progress, result>>
  PROVE  Stages' = Stages
<1>1. \A m \in Node : StageOf(m)' = StageOf(m)
  BY StageKept
<1> QED
  BY <1>1, StagesStill

\* An action that is running is known by the thread that runs it, so the nodes
\* in stage "running" are no more than the jobs.
LEMMA RunningCounted ==
  ASSUME BaseInv, NodeInv, ExpensiveInv
  PROVE  /\ Cardinality({m \in Expensive : Stages[m] = "running"}) \in Nat
         /\ Cardinality({m \in Expensive : Stages[m] = "running"}) <= expensiveRunning
<1> DEFINE R == {m \in Expensive : Stages[m] = "running"}
           f == [t \in Jobs |-> cur[t]]
<1>1. ASSUME NEW m \in R PROVE \E t \in Jobs : cur[t] = m
  <2>1. m \in Node /\ m \in Expensive /\ StageOf(m) = "running"
    BY DagAssumption DEF Stages
  <2>2. progress[m] \in Progress /\ result[m] \in {0, 1}
    BY <2>1 DEF BaseInv, TypeOK
  <2>3. Running(m)
    BY <2>1, <2>2, StageIs DEF Progress
  <2> QED
    BY <2>1, <2>3 DEF Running, Jobs
<1>2. ASSUME NEW t \in Jobs PROVE cur[t] \in R
  <2>1. t \in Thread /\ pc[t] = "Run" /\ cur[t] \in Expensive /\ cur[t] \in Node
    BY DagAssumption DEF Jobs
  <2>2. progress[cur[t]] = "kRunAction"
    BY <2>1 DEF NodeInv, ThreadInv
  <2>3. Running(cur[t])
    BY <2>1 DEF Running
  <2>4. StageOf(cur[t]) = "running"
    BY <2>1, <2>2, <2>3, StageIs
  <2> QED
    BY <2>1, <2>4 DEF Stages
<1> HIDE DEF R
<1>3. f \in Surjection(Jobs, R)
  BY <1>1, <1>2 DEF Surjection
<1>4. IsFiniteSet(R) /\ Cardinality(R) <= Cardinality(Jobs)
  BY <1>3, JobsFinite, Zenon DEF BaseInv, FiniteFacts
<1>5. Cardinality(R) \in Nat
  BY <1>4, FinCardinality DEF BaseInv
<1>6. Cardinality(R) <= expensiveRunning
  BY <1>4, LimitAndWaker DEF ExpensiveInv
<1> QED
  BY <1>5, <1>6 DEF R

\* AdvanceNode takes a node past kBlocked only when BuildOrder may check it.
LEMMA MayCheck ==
  ASSUME BaseInv, NodeInv, NEW t \in Thread, pc[t] = "Advance",
         progress[cur[t]] \in {"kInitial", "kBlocked"}, AllDependenciesReady(cur[t])
  PROVE  /\ PassOf[cur[t]] = currentPass /\ StageOf(cur[t]) = "waiting"
         /\ \A d \in Deps[cur[t]] : StageOf(d) \in {"ok", "failed"}
         /\ ContinueOnError \/ \A m \in Node : StageOf(m) # "failed"
<1> DEFINE n == cur[t]
<1>1. n \in Held /\ n \in Node
  BY BusyThread DEF BusyAt
<1>2. PassOf[n] = currentPass
  BY <1>1, InUse
<1>3. StageOf(n) = "waiting"
  BY <1>1, StageIs
<1>4. \A d \in Deps[n] : StageOf(d) \in {"ok", "failed"}
  <2> SUFFICES ASSUME NEW d \in Deps[n] PROVE StageOf(d) \in {"ok", "failed"}
    OBVIOUS
  <2>1. d \in Node /\ progress[d] = "kCompleted"
    BY <1>1, DagAssumption DEF AllDependenciesReady, Completed
  <2> QED
    BY <2>1, StageIs
<1>5. ASSUME ~ContinueOnError, NEW m \in Node PROVE StageOf(m) # "failed"
  <2>1. failed = 0 /\ failed \in Nat
    BY <1>1, <1>5 DEF NodeInv, FailInv, BaseInv, TypeOK
  <2>2. result[m] = 0
    BY <2>1 DEF NodeInv, FailInv, BaseInv, TypeOK
  <2>3. progress[m] # "kFailed"
    <3> SUFFICES ASSUME progress[m] = "kFailed" PROVE FALSE
      OBVIOUS
    <3>1. m \in Held
      BY DEF NodeInv, StageInv
    <3>2. m = n
      BY <3>1, HeldByHolder
    <3> QED
      BY <3>2
  <2>4. progress[m] \in Progress
    BY DEF BaseInv, TypeOK
  <2> QED
    BY <2>2, <2>3, <2>4, StageIs DEF Progress
<1> QED
  BY <1>2, <1>3, <1>4, <1>5

\* A step of AdvanceNode changes the stage of its own node only.
LEMMA OrderOne ==
  ASSUME BaseInv, NEW t \in Thread, NEW x \in Place, NEW c, Control(t, x, c),
         NEW n \in Node, n = cur[t], c = n \/ x # "Run",
         \A m \in Node : m = n \/ (progress'[m] = progress[m] /\ result'[m] = result[m])
  PROVE  /\ StageOf(n)' = StageOf(n) => Stages' = Stages
         /\ \A s : StageOf(n)' = s => Stages' = [Stages EXCEPT ![n] = s]
<1>1. \A m \in Node \ {n} : StageOf(m)' = StageOf(m)
  BY StageKept
<1> QED
  BY <1>1, StagesStill, StagesChange

\* A thread has its node to itself.
LEMMA NotRunning ==
  ASSUME BaseInv, NodeInv, NEW t \in Thread, pc[t] \in BusyAt, pc[t] # "Run"
  PROVE  ~Running(cur[t])
  BY BusyThread DEF Running, Busy, BusyAt

\* Every step of AdvanceNode is a step of BuildOrder, or none.
LEMMA OrderAdvance ==
  ASSUME BaseInv, NodeInv, ExpensiveInv, NEW t \in Thread, AdvanceStep(t)
  PROVE  Order!Next \/ (Stages' = Stages /\ UNCHANGED currentPass)
<1>1. pc[t] \in BusyAt /\ UNCHANGED currentPass
  BY Zenon DEF AdvanceStep, AdvanceInitial, AdvanceBlocked, CheckStart, CheckDone,
     RunActionEmpty, ParkExpensiveNode, RunActionStart, RunDone, AdvanceSucceeded,
     AdvanceFailed, AdvanceCompleted, Advancing, BusyAt, countVars
<1>2. PICK n \in Node : n = cur[t]
  BY <1>1, BusyThread
<1>3. {"Advance", "Check", "Loop", "Run"} \subseteq Place
  BY DEF Place, BusyAt, LockedAt
<1>4. progress \in [Node -> Progress] /\ result \in [Node -> {0, 1}] /\ n \in Held
  BY <1>1, <1>2, BusyThread DEF BaseInv, TypeOK
<1>5. pc[t] # "Run" => ~Running(n)
  BY <1>1, <1>2, NotRunning
<1>6. ASSUME pc[t] = "Advance", progress[n] \in {"kInitial", "kBlocked"}, AllDependenciesReady(n),
             Control(t, "Advance", n), UNCHANGED result, progress' = [progress EXCEPT ![n] = "kUnblocked"]
      PROVE  Order!Next
  <2>1. StageOf(n)' = "checking"
    BY <1>4, <1>6, StageIsNext
  <2>2. Stages' = [Stages EXCEPT ![n] = "checking"]
    BY <1>2, <1>3, <1>4, <1>6, <2>1, OrderOne
  <2>3. /\ PassOf[n] = currentPass /\ StageOf(n) = "waiting"
        /\ \A d \in Deps[n] : StageOf(d) \in {"ok", "failed"}
        /\ ContinueOnError \/ \A m \in Node : StageOf(m) # "failed"
    BY <1>2, <1>6, MayCheck
  <2> QED
    BY <1>1, <2>2, <2>3, OrderCheck, Zenon
<1>7. ASSUME NEW x \in {"Advance", "Check", "Loop"}, Control(t, x, IF x = "Loop" THEN NoNode ELSE n),
             pc[t] # "Run", UNCHANGED <<progress, result>>
      PROVE  Stages' = Stages
  BY <1>3, <1>7, OrderStutter
<1>8. CASE AdvanceInitial(t)
  <2>1. /\ pc[t] = "Advance" /\ progress[n] = "kInitial" /\ UNCHANGED result
        /\ progress' = [progress EXCEPT ![n] = IF Waits(n) = {} THEN "kUnblocked" ELSE "kBlocked"]
        /\ IF Waits(n) = {} THEN Control(t, "Advance", n) ELSE Control(t, "Loop", NoNode)
    BY <1>2, <1>8, AdvanceControl, Zenon DEF AdvanceInitial, Advancing, Waits
  <2>2. CASE Waits(n) = {}
    <3>1. AllDependenciesReady(n)
      BY <2>2 DEF Waits, AllDependenciesReady
    <3> QED
      BY <1>6, <2>1, <2>2, <3>1
  <2>3. CASE Waits(n) # {}
    <3>1. StageOf(n)' = "waiting" /\ StageOf(n) = "waiting"
      BY <1>4, <2>1, <2>3, StageIs, StageIsNext
    <3> QED
      BY <1>1, <1>2, <1>3, <1>4, <2>1, <2>3, <3>1, OrderOne
  <2> QED
    BY <2>2, <2>3
<1>9. CASE AdvanceBlocked(t)
  <2>1. /\ pc[t] = "Advance" /\ progress[n] = "kBlocked" /\ Control(t, "Advance", n)
        /\ UNCHANGED result /\ progress' = [progress EXCEPT ![n] = "kUnblocked"]
    BY <1>2, <1>9, AdvanceControl, Zenon DEF AdvanceBlocked, Advancing
  <2>2. AllDependenciesReady(n)
    BY <1>4, <2>1 DEF NodeInv, ReadyInv
  <2> QED
    BY <1>6, <2>1, <2>2
<1>10. CASE CheckStart(t) \/ ParkExpensiveNode(t) \/ AdvanceCompleted(t)
  <2>1. /\ pc[t] # "Run" /\ UNCHANGED <<progress, result>>
        /\ Control(t, "Check", n) \/ Control(t, "Loop", NoNode)
    BY <1>2, <1>10, AdvanceControl, Zenon DEF CheckStart, ParkExpensiveNode, AdvanceCompleted, Advancing,
       nodeVars
  <2> QED
    BY <1>1, <1>7, <2>1
<1>11. CASE CheckDone(t)
  <2>1. /\ pc[t] = "Check" /\ Control(t, "Advance", n) /\ UNCHANGED result
        /\ \E p \in {"kRunAction", "kUpToDate"} : progress' = [progress EXCEPT ![n] = p]
    BY <1>2, <1>11, AdvanceControl, Zenon DEF CheckDone
  <2>2. progress[n] = "kUnblocked" /\ StageOf(n) = "checking"
    BY <1>2, <2>1, StageIs DEF NodeInv, ThreadInv
  <2>3. ~Running(n)'
    BY <1>3, <1>5, <2>1, RunningStep
  <2>4. StageOf(n)' \in {"checking", "ok"}
    BY <1>4, <2>1, <2>3, StageIsNext
  <2>5. Stages' = Stages \/ Stages' = [Stages EXCEPT ![n] = "ok"]
    BY <1>2, <1>3, <1>4, <2>1, <2>2, <2>4, OrderOne
  <2> QED
    BY <1>1, <2>2, <2>5, OrderSkip
<1>12. CASE RunActionEmpty(t)
  <2>1. /\ pc[t] = "Advance" /\ progress[n] = "kRunAction" /\ Control(t, "Advance", n)
        /\ UNCHANGED result /\ progress' = [progress EXCEPT ![n] = "kSucceeded"]
    BY <1>2, <1>12, AdvanceControl, Zenon DEF RunActionEmpty, Advancing
  <2>2. StageOf(n) = "checking" /\ StageOf(n)' = "ok"
    BY <1>4, <1>5, <2>1, StageIs, StageIsNext
  <2>3. Stages' = [Stages EXCEPT ![n] = "ok"]
    BY <1>2, <1>3, <1>4, <2>1, <2>2, OrderOne
  <2> QED
    BY <1>1, <2>2, <2>3, OrderSkip, Zenon
<1>13. CASE RunActionStart(t)
  <2>1. /\ pc[t] = "Advance" /\ progress[n] = "kRunAction" /\ Control(t, "Run", n)
        /\ UNCHANGED <<progress, result>> /\ (n \in Expensive => expensiveRunning # MaxExpensive)
    BY <1>2, <1>13, AdvanceControl, Zenon DEF RunActionStart, Advancing, nodeVars
  <2>2. Running(n)'
    BY <1>3, <2>1, RunningStep
  <2>3. StageOf(n) = "checking" /\ StageOf(n)' = "running"
    BY <1>4, <1>5, <2>1, <2>2, StageIs, StageIsNext
  <2>4. Stages' = [Stages EXCEPT ![n] = "running"]
    BY <1>2, <1>3, <1>4, <2>1, <2>3, OrderOne
  <2>5. n \in Expensive => Cardinality({m \in Expensive : Stages[m] = "running"}) < MaxExpensive
    <3>1. expensiveRunning \in Int /\ expensiveRunning <= MaxExpensive
      BY LimitAndWaker DEF ExpensiveInv, BaseInv, TypeOK
    <3>2. n \in Expensive => expensiveRunning < MaxExpensive
      BY <2>1, <3>1, MaxExpensiveType
    <3> DEFINE k == Cardinality({m \in Expensive : Stages[m] = "running"})
    <3>3. k \in Nat /\ k <= expensiveRunning
      BY RunningCounted
    <3> HIDE DEF k
    <3>4. n \in Expensive => k < MaxExpensive
      BY <3>1, <3>2, <3>3, MaxExpensiveType
    <3> QED
      BY <3>4 DEF k
  <2> QED
    BY <1>1, <2>3, <2>4, <2>5, OrderRun, Zenon
<1>14. CASE RunDone(t)
  <2>1. /\ pc[t] = "Run" /\ Control(t, "Advance", n) /\ UNCHANGED result
        /\ \E p \in {"kSucceeded", "kFailed"} : progress' = [progress EXCEPT ![n] = p]
    BY <1>2, <1>14, AdvanceControl, Zenon DEF RunDone
  <2>2. progress[n] = "kRunAction" /\ Running(n)
    BY <1>2, <2>1 DEF NodeInv, ThreadInv, Running
  <2>3. StageOf(n) = "running" /\ StageOf(n)' \in {"ok", "failed"}
    BY <1>4, <2>1, <2>2, StageIs, StageIsNext
  <2>4. \E r \in {"ok", "failed"} : Stages' = [Stages EXCEPT ![n] = r]
    BY <1>2, <1>3, <1>4, <2>1, <2>3, OrderOne
  <2> QED
    BY <1>1, <2>3, <2>4, OrderFinish, Zenon
<1>15. CASE AdvanceSucceeded(t) \/ AdvanceFailed(t)
  <2>1. /\ pc[t] = "Advance" /\ Control(t, "Advance", n)
        /\ progress' = [progress EXCEPT ![n] = "kCompleted"]
        /\ \/ progress[n] \in {"kSucceeded", "kUpToDate"} /\ result' = [result EXCEPT ![n] = 0]
           \/ progress[n] = "kFailed" /\ result' = [result EXCEPT ![n] = 1]
    BY <1>2, <1>15, AdvanceControl, Zenon DEF AdvanceSucceeded, AdvanceFailed, Advancing
  <2>2. StageOf(n)' = StageOf(n)
    BY <1>4, <2>1, StageIs, StageIsNext
  <2> QED
    BY <1>1, <1>2, <1>3, <1>4, <2>1, <2>2, OrderOne
<1> QED
  BY <1>8, <1>9, <1>10, <1>11, <1>12, <1>13, <1>14, <1>15 DEF AdvanceStep

\* BuildOrder does not see BuildLoop.
LEMMA OrderLoop ==
  ASSUME BaseInv, NEW t \in Thread, LoopStep(t) \/ SpuriousWakeup(t)
  PROVE  Stages' = Stages /\ UNCHANGED currentPass
<1>1. /\ pc[t] \in {"Lock", "Loop", "Wait", "Asleep"} /\ UNCHANGED <<progress, result, currentPass>>
  BY DEF LoopStep, Acquire, TakeNode, DecideToWait, Sleep, SpuriousWakeup, LeaveLoop, nodeVars, countVars
<1>2. \E x \in {"Loop", "Wait", "Asleep", "Lock", "Result", "Exited", "Advance"} :
        \E c \in {NoNode, Head(queue)} : Control(t, x, c)
  BY LoopControl, Zenon DEF LoopStep
<1>3. {"Loop", "Wait", "Asleep", "Lock", "Result", "Exited", "Advance"} \subseteq Place
  BY DEF Place, BusyAt, LockedAt, MainAt
<1>4. PICK x \in Place : x # "Run" /\ \E c : Control(t, x, c)
  BY <1>2, <1>3
<1>5. PICK c : Control(t, x, c)
  BY <1>4
<1> QED
  BY <1>1, <1>4, <1>5, OrderStutter

\* StartPass is BuildOrder's next pass; it does not see the other steps of the
\* driver's thread and of the signal handler.
LEMMA OrderDriver ==
  ASSUME BaseInv, NodeInv, DriverStep \/ SignalSet
  PROVE  Order!Next \/ (Stages' = Stages /\ UNCHANGED currentPass)
<1>1. /\ UNCHANGED <<progress, result>> /\ (~StartPass => UNCHANGED currentPass)
  BY Zenon DEF DriverStep, StartPass, PassBroadcast, EndPass, QuitSignal, QuitBroadcast, JoinWorkers,
     SignalSet, nodeVars, countVars
<1>2. Main \in Thread
  BY DEF Thread
<1>3. Stages' = Stages
  <2>1. CASE DriverStep
    <3>1. pc[Main] \in {"PassWake", "Quit", "Pass", "QuitWake", "Join", "Result"}
      BY <2>1 DEF DriverStep, StartPass, PassBroadcast, EndPass, QuitSignal, QuitBroadcast,
         JoinWorkers
    <3>2. PICK x \in {"PassWake", "Lock", "Quit", "Pass", "QuitWake", "Join", "Done"} :
            Control(Main, x, NoNode)
      BY <2>1, DriverControl, Zenon DEF DriverStep
    <3>3. x \in Place /\ x # "Run"
      BY DEF Place, MainAt
    <3> QED
      BY <1>1, <1>2, <3>1, <3>2, <3>3, OrderStutter
  <2>2. CASE SignalSet
    <3>1. Control(Main, pc[Main], cur[Main]) /\ pc[Main] \in Place
      BY <1>2, <2>2, DriverControl, Zenon DEF BaseInv, TypeOK
    <3> QED
      BY <1>1, <1>2, <3>1, OrderStutter
  <2> QED
    BY <2>1, <2>2
<1>4. ASSUME StartPass PROVE Order!Next
  <2>1. pc[Main] = "Pass" /\ currentPass' = currentPass + 1
    BY <1>4 DEF StartPass
  <2>2. currentPass + 1 < PassCount /\ failed = 0 /\ Open = {}
    BY <2>1 DEF BaseInv, PlaceInv, NodeInv, MainInv
  <2>3. ASSUME NEW n \in Node, PassOf[n] <= currentPass PROVE StageOf(n) = "ok"
    <3>1. progress[n] = "kCompleted"
      BY <2>2, <2>3, NothingOpen DEF Completed
    <3>2. result[n] = 0
      <4>1. result[n] \in {0, 1} /\ ~(failed > 0)
        BY <2>2 DEF BaseInv, TypeOK
      <4>2. result[n] # 1
        BY <4>1, Zenon DEF NodeInv, FailInv
      <4> QED
        BY <4>1, <4>2
    <3> QED
      BY <3>1, <3>2, StageIs
  <2> QED
    BY <1>3, <2>1, <2>2, <2>3, OrderNextPass
<1> QED
  BY <1>1, <1>3, <1>4

\* Every step of the queue is a step of BuildOrder, or none.
LEMMA OrderStep ==
  ASSUME BaseInv, NodeInv, ExpensiveInv, [Next]_vars
  PROVE  [Order!Next]_(<<[n \in Node |-> StageOf(n)], currentPass>>)
<1>1. Order!Next \/ (Stages' = Stages /\ UNCHANGED currentPass)
  <2>1. CASE UNCHANGED vars
    <3>1. UNCHANGED <<progress, result, pc, cur, currentPass>>
      BY <2>1 DEF vars, nodeVars, countVars
    <3>2. \A m \in Node : StageOf(m)' = StageOf(m)
      BY <3>1 DEF StageOf
    <3> QED
      BY <3>1, <3>2, StagesStill
  <2>2. CASE Next
    <3>1. CASE Finished
      BY <2>1, <3>1 DEF Finished
    <3> QED
      BY <2>2, <3>1, OrderLoop, OrderAdvance, OrderDriver DEF Next
  <2> QED
    BY <2>1, <2>2
<1> QED
  BY <1>1 DEF Stages

\* The build starts as BuildOrder does.
LEMMA OrderInit == Init => Order!Init
<1> SUFFICES ASSUME Init PROVE Order!Init
  OBVIOUS
<1>1. \A n \in Node : StageOf(n) = "waiting"
  <2> SUFFICES ASSUME NEW n \in Node PROVE StageOf(n) = "waiting"
    OBVIOUS
  <2>1. progress[n] = "kInitial"
    BY DEF Init
  <2> QED
    BY <2>1 DEF StageOf
<1>2. currentPass = -1
  BY DEF Init
<1> QED
  BY <1>1, <1>2 DEF Order!Init

=============================================================================
