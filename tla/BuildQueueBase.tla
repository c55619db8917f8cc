--------------------------- MODULE BuildQueueBase ---------------------------
(***************************************************************************)
(* First part of the proofs about BuildQueue: facts about sequences and    *)
(* wakeups, and the types, the mutex and the program counters of the build *)
(* threads, for every DAG and every number of threads.                     *)
(***************************************************************************)
EXTENDS BuildQueue, TLAPS

-----------------------------------------------------------------------------
(* Finite sets. *)

\* What the proofs use of the theory of finite sets.  BuildQueueProofs shows it
\* from the library's theorems; the modules before it take it as a part of
\* their inductive invariant.
FiniteFacts ==
  /\ IsFiniteSet({}) /\ Cardinality({}) = 0
  /\ \A S : IsFiniteSet(S) => Cardinality(S) \in Nat /\ (Cardinality(S) = 0 => S = {})
  /\ \A S, T : IsFiniteSet(S) /\ T \subseteq S => IsFiniteSet(T) /\ Cardinality(T) <= Cardinality(S)
  /\ \A S, x : IsFiniteSet(S) =>
       /\ IsFiniteSet(S \cup {x})
       /\ Cardinality(S \cup {x}) = IF x \in S THEN Cardinality(S) ELSE Cardinality(S) + 1
       /\ IsFiniteSet(S \ {x})
       /\ Cardinality(S \ {x}) = IF x \in S THEN Cardinality(S) - 1 ELSE Cardinality(S)
  /\ \A S, T, f : IsFiniteSet(S) /\ f \in Surjection(S, T) =>
       IsFiniteSet(T) /\ Cardinality(T) <= Cardinality(S)

\* The number of elements.
LEMMA FinCardinality ==
  ASSUME FiniteFacts, NEW S, IsFiniteSet(S)
  PROVE  Cardinality(S) \in Nat /\ (Cardinality(S) = 0 => S = {})
  BY DEF FiniteFacts

\* The empty set.
LEMMA FinEmpty ==
  ASSUME FiniteFacts
  PROVE  IsFiniteSet({}) /\ Cardinality({}) = 0
  BY DEF FiniteFacts

\* Subsets.
LEMMA FinSubset ==
  ASSUME FiniteFacts, NEW S, IsFiniteSet(S), NEW T \in SUBSET S
  PROVE  IsFiniteSet(T) /\ Cardinality(T) <= Cardinality(S)
  BY Zenon DEF FiniteFacts

\* One element more.
LEMMA FinAdd ==
  ASSUME FiniteFacts, NEW S, NEW x, IsFiniteSet(S)
  PROVE  /\ IsFiniteSet(S \cup {x})
         /\ Cardinality(S \cup {x}) = IF x \in S THEN Cardinality(S) ELSE Cardinality(S) + 1
  BY Zenon DEF FiniteFacts

\* One element less.
LEMMA FinRemove ==
  ASSUME FiniteFacts, NEW S, NEW x, IsFiniteSet(S)
  PROVE  /\ IsFiniteSet(S \ {x})
         /\ Cardinality(S \ {x}) = IF x \in S THEN Cardinality(S) - 1 ELSE Cardinality(S)
  BY Zenon DEF FiniteFacts

-----------------------------------------------------------------------------
(* Sequences without repetitions: the queue and the wait list. *)

\* An ordering of a finite set lists exactly its elements, each once.
LEMMA OrderingsProp ==
  ASSUME FiniteFacts, NEW S, IsFiniteSet(S), NEW s \in Orderings(S)
  PROVE  s \in Seq(S) /\ Range(s) = S /\ IsInjective(s) /\ Len(s) = Cardinality(S)
<1>1. Cardinality(S) \in Nat
  BY FinCardinality
<1>2. s \in [1 .. Cardinality(S) -> S] /\ IsInjective(s)
      /\ \A x \in S : \E i \in 1 .. Cardinality(S) : s[i] = x
  BY DEF Orderings, Bijection, Injection, Surjection
<1>3. s \in Seq(S) /\ Len(s) = Cardinality(S)
  BY <1>1, <1>2, SMT
<1> QED
  BY <1>1, <1>2, <1>3 DEF Range

\* The empty set has one ordering.
LEMMA OrderingsEmpty ==
  ASSUME FiniteFacts, NEW s \in Orderings({})
  PROVE  s = <<>>
<1>1. Len(s) = 0 /\ s \in Seq({})
  BY OrderingsProp, FinEmpty
<1> QED
  BY <1>1, SMT

\* Appending one element.
LEMMA AppendProp ==
  ASSUME NEW S, NEW q \in Seq(S), NEW x \in S, IsInjective(q), x \notin Range(q)
  PROVE  /\ Append(q, x) \in Seq(S)
         /\ Range(Append(q, x)) = Range(q) \cup {x}
         /\ IsInjective(Append(q, x))
  BY SMT DEF Range, IsInjective

\* Appending a list of new elements.
LEMMA ConcatProp ==
  ASSUME NEW S, NEW q \in Seq(S), NEW s \in Seq(S),
         IsInjective(q), IsInjective(s), Range(q) \cap Range(s) = {}
  PROVE  /\ q \o s \in Seq(S)
         /\ Range(q \o s) = Range(q) \cup Range(s)
         /\ IsInjective(q \o s)
<1> DEFINE r == q \o s
<1>1. /\ r \in Seq(S) /\ Len(r) = Len(q) + Len(s)
      /\ \A i \in 1 .. Len(q) : r[i] = q[i]
      /\ \A i \in 1 .. Len(s) : r[Len(q) + i] = s[i]
      /\ \A i \in Len(q) + 1 .. Len(r) : r[i] = s[i - Len(q)]
  BY SMT
<1>2. DOMAIN r = 1 .. Len(r) /\ DOMAIN q = 1 .. Len(q) /\ DOMAIN s = 1 .. Len(s)
      /\ Len(q) \in Nat /\ Len(s) \in Nat
  BY <1>1
<1> HIDE DEF r
<1>3. ASSUME NEW i \in 1 .. Len(r)
      PROVE  IF i <= Len(q) THEN i \in 1 .. Len(q) /\ r[i] = q[i] /\ r[i] \in Range(q)
             ELSE i - Len(q) \in 1 .. Len(s) /\ r[i] = s[i - Len(q)] /\ r[i] \in Range(s)
  <2>1. IF i <= Len(q) THEN i \in 1 .. Len(q) /\ r[i] = q[i]
        ELSE i - Len(q) \in 1 .. Len(s) /\ r[i] = s[i - Len(q)]
    BY <1>1, <1>2
  <2> QED
    BY <1>2, <2>1 DEF Range
<1>4. Range(r) \subseteq Range(q) \cup Range(s)
  BY <1>2, <1>3 DEF Range
<1>5. Range(q) \subseteq Range(r)
  BY <1>1, <1>2 DEF Range
<1>6. Range(s) \subseteq Range(r)
  <2> SUFFICES ASSUME NEW i \in 1 .. Len(s)
               PROVE  s[i] \in Range(r)
    BY <1>2 DEF Range
  <2>1. Len(q) + i \in 1 .. Len(r)
    BY <1>1, <1>2
  <2> QED
    BY <1>1, <1>2, <2>1, Zenon DEF Range
<1>7. ASSUME NEW i \in 1 .. Len(r), NEW j \in 1 .. Len(r), r[i] = r[j]
      PROVE  i = j
  <2>1. CASE i <= Len(q) /\ j <= Len(q)
    BY <1>2, <1>3, <1>7, <2>1 DEF IsInjective
  <2>2. CASE ~(i <= Len(q)) /\ ~(j <= Len(q))
    <3>1. i - Len(q) = j - Len(q)
      BY <1>2, <1>3, <1>7, <2>2, Zenon DEF IsInjective
    <3> QED
      BY <1>1, <1>2, <3>1
  <2>3. CASE i <= Len(q) /\ ~(j <= Len(q))
    BY <1>3, <1>7, <2>3
  <2>4. CASE ~(i <= Len(q)) /\ j <= Len(q)
    BY <1>3, <1>7, <2>4
  <2> QED
    BY <2>1, <2>2, <2>3, <2>4
<1> QED
  BY <1>1, <1>2, <1>4, <1>5, <1>6, <1>7 DEF r, IsInjective

\* Taking the first element.
LEMMA TailProp ==
  ASSUME NEW S, NEW q \in Seq(S), q # <<>>, IsInjective(q)
  PROVE  /\ Head(q) \in S /\ Head(q) \in Range(q)
         /\ Tail(q) \in Seq(S)
         /\ Range(Tail(q)) = Range(q) \ {Head(q)}
         /\ IsInjective(Tail(q))
<1> DEFINE r == Tail(q)
<1>1. /\ r \in Seq(S) /\ Len(r) = Len(q) - 1 /\ Head(q) = q[1] /\ Len(q) \in Nat \ {0}
      /\ \A i \in 1 .. Len(r) : r[i] = q[i + 1]
  BY SMT
<1>2. DOMAIN r = 1 .. Len(r) /\ DOMAIN q = 1 .. Len(q)
  BY <1>1
<1> HIDE DEF r
<1>3. \A i, j \in 1 .. Len(q) : q[i] = q[j] => i = j
  BY <1>2 DEF IsInjective
<1>4. IsInjective(r)
  BY <1>1, <1>2, <1>3 DEF IsInjective
<1>5. ASSUME NEW i \in 1 .. Len(r)
      PROVE  r[i] \in Range(q) /\ r[i] # Head(q)
  BY <1>1, <1>2, <1>3, SMTT(30) DEF Range
<1>6. ASSUME NEW i \in 1 .. Len(q), q[i] # Head(q)
      PROVE  q[i] \in Range(r)
  <2>1. i - 1 \in 1 .. Len(r) /\ r[i - 1] = q[i]
    BY <1>1, <1>6
  <2> QED
    BY <1>2, <2>1 DEF Range
<1>7. Range(r) = Range(q) \ {Head(q)}
  BY <1>2, <1>5, <1>6 DEF Range
<1>8. Head(q) \in S /\ Head(q) \in Range(q)
  BY <1>1, <1>2 DEF Range
<1> QED
  BY <1>1, <1>4, <1>7, <1>8 DEF r

\* A prefix of a sequence.
LEMMA PrefixProp ==
  ASSUME NEW S, NEW q \in Seq(S), NEW n \in Nat, n <= Len(q)
  PROVE  /\ SubSeq(q, 1, n) \in Seq(S)
         /\ Len(SubSeq(q, 1, n)) = n
         /\ \A i \in 1 .. n : SubSeq(q, 1, n)[i] = q[i]
  BY SMT

\* Taking the last element.
LEMMA FrontProp ==
  ASSUME NEW S, NEW q \in Seq(S), q # <<>>, IsInjective(q)
  PROVE  /\ q[Len(q)] \in S /\ q[Len(q)] \in Range(q)
         /\ SubSeq(q, 1, Len(q) - 1) \in Seq(S)
         /\ Range(SubSeq(q, 1, Len(q) - 1)) = Range(q) \ {q[Len(q)]}
         /\ IsInjective(SubSeq(q, 1, Len(q) - 1))
<1> DEFINE r == SubSeq(q, 1, Len(q) - 1)
<1>1. /\ r \in Seq(S) /\ Len(r) = Len(q) - 1 /\ Len(q) \in Nat \ {0}
      /\ \A i \in 1 .. Len(r) : r[i] = q[i]
  <2>1. Len(q) \in Nat \ {0} /\ Len(q) - 1 \in Nat /\ Len(q) - 1 <= Len(q)
    BY SMT
  <2> QED
    BY <2>1, PrefixProp
<1>2. DOMAIN r = 1 .. Len(r) /\ DOMAIN q = 1 .. Len(q)
  BY <1>1
<1> HIDE DEF r
<1>3. \A i, j \in 1 .. Len(q) : q[i] = q[j] => i = j
  BY <1>2 DEF IsInjective
<1>4. IsInjective(r)
  BY <1>1, <1>2, <1>3 DEF IsInjective
<1>5. ASSUME NEW i \in 1 .. Len(r)
      PROVE  r[i] \in Range(q) /\ r[i] # q[Len(q)]
  BY <1>1, <1>2, <1>3 DEF Range
<1>6. ASSUME NEW i \in 1 .. Len(q), q[i] # q[Len(q)]
      PROVE  q[i] \in Range(r)
  <2>1. i \in 1 .. Len(r) /\ r[i] = q[i]
    BY <1>1, <1>6
  <2> QED
    BY <1>2, <2>1 DEF Range
<1>7. Range(r) = Range(q) \ {q[Len(q)]}
  BY <1>2, <1>5, <1>6 DEF Range
<1>8. q[Len(q)] \in S /\ q[Len(q)] \in Range(q)
  BY <1>1, <1>2 DEF Range
<1> QED
  BY <1>1, <1>4, <1>7, <1>8 DEF r

-----------------------------------------------------------------------------
(* Wakeups. *)

\* q is p after some sleepers have been sent back to the mutex.
Woken(p, q) ==
  /\ q \in [Thread -> Place]
  /\ \A t \in Thread : q[t] = p[t] \/ (p[t] = "Asleep" /\ q[t] = "Lock")

\* Nobody woken is a special case.
LEMMA NobodyWoken ==
  ASSUME NEW p \in [Thread -> Place]
  PROVE  Woken(p, p)
  BY DEF Woken

\* CondBroadcast only sends sleepers back to the mutex.
LEMMA BroadcastWakes ==
  ASSUME NEW p \in [Thread -> Place]
  PROVE  Woken(p, CondBroadcast(p))
  BY DEF Woken, CondBroadcast, Place

\* So does CondSignal.
LEMMA SignalWakes ==
  ASSUME NEW p \in [Thread -> Place], NEW q \in CondSignal(p)
  PROVE  Woken(p, q)
  BY DEF Woken, CondSignal, Place

\* So does WakeWaiters, whatever the count.
LEMMA WakeWaitersWakes ==
  ASSUME NEW p \in [Thread -> Place], NEW c, NEW q \in WakeWaiters(c, p)
  PROVE  Woken(p, q)
<1>1. q = p \/ q \in CondSignal(p) \/ q = CondBroadcast(p)
  BY DEF WakeWaiters
<1> QED
  BY <1>1, NobodyWoken, SignalWakes, BroadcastWakes

-----------------------------------------------------------------------------
(* Types, the mutex and the program counters. *)

\* Exactly the thread that is where m_Lock is held has it.
LockInv == \A t \in Thread : lock = t <=> pc[t] \in LockedAt

\* A thread has a node exactly while it is in AdvanceNode.
CurInv ==
  \A t \in Thread : IF pc[t] \in BusyAt THEN cur[t] \in Node ELSE cur[t] = NoNode

\* Only the driver's thread leaves BuildLoop for BuildQueueBuildNodeRange and
\* BuildQueueDestroy, and it starts a pass only if there is one.
PlaceInv ==
  /\ \A t \in Worker : pc[t] \notin MainAt
  /\ pc[Main] # "Exited"
  /\ pc[Main] = "Pass" => currentPass + 1 < PassCount

BaseInv == TypeOK /\ LockInv /\ CurInv /\ PlaceInv /\ FiniteFacts

\* After BuildQueueInit.
LEMMA BaseInit == FiniteFacts /\ Init => BaseInv
<1> SUFFICES ASSUME FiniteFacts, Init PROVE BaseInv
  OBVIOUS
<1> USE ThreadAssumption, DagAssumption DEF Init
<1>1. TypeOK
  <2>1. /\ progress \in [Node -> Progress] /\ result \in [Node -> {0, 1}]
        /\ pc \in [Thread -> Place] /\ cur \in [Thread -> Node \cup {NoNode}]
    BY DEF Progress, Place, BusyAt, LockedAt, MainAt
  <2>2. currentPass \in -1 .. PassCount - 1
    OBVIOUS
  <2>3. queue \in Seq(Node) /\ waitList \in Seq(Node) /\ queued \in SUBSET Node /\ active \in SUBSET Node
    OBVIOUS
  <2>4. quit \in BOOLEAN /\ signalled \in BOOLEAN
    BY Zenon
  <2>5. /\ expensiveRunning \in Int /\ pending \in Int /\ failed \in Nat
        /\ lock \in Thread \cup {NoThread}
        /\ buildResult \in {"kOk", "kInterrupted", "kBuildError"}
    OBVIOUS
  <2> QED
    BY <2>1, <2>2, <2>3, <2>4, <2>5, Zenon DEF TypeOK
<1>2. LockInv
  BY DEF LockInv, LockedAt, Thread
<1>3. CurInv
  BY DEF CurInv, BusyAt
<1>4. PlaceInv
  BY DEF PlaceInv, MainAt, Thread
<1> QED
  BY <1>1, <1>2, <1>3, <1>4 DEF BaseInv

\* Thread t goes to x, taking or keeping node c, and sleepers may be woken.
Control(t, x, c) ==
  /\ pc' \in [Thread -> Place]
  /\ pc'[t] = x \/ (x = "Asleep" /\ pc'[t] = "Lock")
  /\ \A u \in Thread \ {t} : pc'[u] = pc[u] \/ (pc[u] = "Asleep" /\ pc'[u] = "Lock")
  /\ cur' = [cur EXCEPT ![t] = c]
  /\ IF x \in BusyAt THEN c \in Node ELSE c = NoNode
  /\ IF x \in LockedAt
     THEN lock' = t /\ lock \in {t, NoThread}
     ELSE lock' = IF pc[t] \in LockedAt THEN NoThread ELSE lock
  /\ x \in MainAt => t = Main
  /\ x = "Exited" => t # Main

\* What Control means for the mutex and the program counters.
LEMMA ControlStep ==
  ASSUME BaseInv, NEW t \in Thread, NEW x \in Place, NEW c, Control(t, x, c)
  PROVE  /\ pc' \in [Thread -> Place]
         /\ cur' \in [Thread -> Node \cup {NoNode}]
         /\ lock' \in Thread \cup {NoThread}
         /\ LockInv' /\ CurInv'
         /\ \A u \in Worker : pc'[u] \notin MainAt
         /\ pc'[Main] # "Exited"
         /\ (pc'[Main] = "Pass" => pc[Main] = "Pass" \/ (t = Main /\ x = "Pass"))
<1> USE ThreadAssumption DEF BaseInv, TypeOK
<1>1. /\ pc' \in [Thread -> Place]
      /\ cur' \in [Thread -> Node \cup {NoNode}]
      /\ lock' \in Thread \cup {NoThread}
  BY DEF Control
<1>2. \A u \in Thread : pc'[u] \in LockedAt <=> (IF u = t THEN x \in LockedAt ELSE pc[u] \in LockedAt)
  BY DEF Control, LockedAt
<1>3. \A u \in Thread : pc'[u] \in BusyAt <=> (IF u = t THEN x \in BusyAt ELSE pc[u] \in BusyAt)
  BY DEF Control, BusyAt
<1>4. LockInv'
  <2> SUFFICES ASSUME NEW u \in Thread PROVE lock' = u <=> pc'[u] \in LockedAt
    BY DEF LockInv
  <2> QED
    BY <1>2 DEF Control, LockInv
<1>5. CurInv'
  <2> SUFFICES ASSUME NEW u \in Thread
               PROVE  IF pc'[u] \in BusyAt THEN cur'[u] \in Node ELSE cur'[u] = NoNode
    BY DEF CurInv
  <2> QED
    BY <1>3 DEF Control, CurInv
<1>6. \A u \in Worker : pc'[u] \notin MainAt
  BY DEF Control, PlaceInv, MainAt, Thread
<1>7. pc'[Main] # "Exited"
  BY DEF Control, PlaceInv, Thread
<1>8. pc'[Main] = "Pass" => pc[Main] = "Pass" \/ (t = Main /\ x = "Pass")
  BY DEF Control, Thread
<1> QED
  BY <1>1, <1>4, <1>5, <1>6, <1>7, <1>8

\* The types of everything but the mutex, the program counters and the flags.
DataOK ==
  /\ progress \in [Node -> Progress]
  /\ queued \in SUBSET Node /\ active \in SUBSET Node
  /\ result \in [Node -> {0, 1}]
  /\ queue \in Seq(Node) /\ waitList \in Seq(Node)
  /\ expensiveRunning \in Int /\ pending \in Int /\ failed \in Nat
  /\ currentPass \in -1 .. PassCount - 1
  /\ quit \in BOOLEAN /\ signalled \in BOOLEAN
  /\ buildResult \in {"kOk", "kInterrupted", "kBuildError"}

\* What Control leaves to show of BaseInv.
LEMMA BaseFromControl ==
  ASSUME BaseInv, NEW t \in Thread, NEW x \in Place, NEW c, Control(t, x, c), DataOK',
         pc'[Main] = "Pass" => currentPass' + 1 < PassCount
  PROVE  BaseInv'
  BY ControlStep, Zenon DEF BaseInv, TypeOK, PlaceInv, DataOK, FiniteFacts

\* A step that changes only the program counters.
LEMMA BaseFromPureControl ==
  ASSUME BaseInv, NEW t \in Thread, NEW x \in Place, NEW c, Control(t, x, c),
         x = "Pass" => currentPass + 1 < PassCount,
         UNCHANGED <<nodeVars, queueVars, countVars>>,
         signalled' \in BOOLEAN, buildResult' \in {"kOk", "kInterrupted", "kBuildError"}
  PROVE  BaseInv'
<1>1. DataOK'
  BY Zenon DEF BaseInv, TypeOK, DataOK, nodeVars, queueVars, countVars
<1>2. pc'[Main] = "Pass" => currentPass' + 1 < PassCount
  BY ControlStep DEF BaseInv, PlaceInv, countVars
<1> QED
  BY <1>1, <1>2, BaseFromControl

\* The steps of BuildLoop.
LEMMA LoopControl ==
  ASSUME BaseInv, NEW t \in Thread
  PROVE  /\ Acquire(t) => Control(t, "Loop", NoNode)
         /\ TakeNode(t) => Control(t, "Advance", Head(queue)) /\ Head(queue) \in Node
         /\ DecideToWait(t) => Control(t, "Wait", NoNode)
         /\ Sleep(t) => Control(t, "Asleep", NoNode)
         /\ SpuriousWakeup(t) => Control(t, "Lock", NoNode)
         /\ LeaveLoop(t) => Control(t, IF t = Main THEN "Result" ELSE "Exited", NoNode)
<1>1. pc \in [Thread -> Place] /\ cur \in [Thread -> Node \cup {NoNode}] /\ queue \in Seq(Node)
      /\ lock \in Thread \cup {NoThread} /\ NoThread \notin Thread
  BY ThreadAssumption DEF BaseInv, TypeOK
<1>2. (lock = t <=> pc[t] \in LockedAt)
      /\ (pc[t] \notin BusyAt => cur[t] = NoNode /\ cur = [cur EXCEPT ![t] = NoNode])
  BY <1>1 DEF BaseInv, LockInv, CurInv
<1> USE DEF Place, BusyAt, LockedAt, MainAt, Control
<1>4. Acquire(t) => Control(t, "Loop", NoNode)
  BY <1>1, <1>2 DEF Acquire
<1>5. TakeNode(t) => Control(t, "Advance", Head(queue)) /\ Head(queue) \in Node
  BY <1>1, <1>2 DEF TakeNode
<1>6. DecideToWait(t) => Control(t, "Wait", NoNode)
  BY <1>1, <1>2 DEF DecideToWait
<1>7. Sleep(t) => Control(t, "Asleep", NoNode)
  BY <1>1, <1>2 DEF Sleep
<1>8. SpuriousWakeup(t) => Control(t, "Lock", NoNode)
  BY <1>1, <1>2 DEF SpuriousWakeup
<1>9. LeaveLoop(t) => Control(t, IF t = Main THEN "Result" ELSE "Exited", NoNode)
  BY <1>1, <1>2 DEF LeaveLoop
<1> QED
  BY <1>4, <1>5, <1>6, <1>7, <1>8, <1>9, Zenon

\* What happens after RunAction wakes sleepers at most.
LEMMA AfterRunActionWakes ==
  ASSUME NEW n, NEW p \in [Thread -> Place], AfterRunAction(n, p)
  PROVE  Woken(p, pc')
<1>1. pc' = p \/ pc' \in CondSignal(p)
  BY DEF AfterRunAction
<1> QED
  BY <1>1, NobodyWoken, SignalWakes

\* The dependencies SetupDependencies waits for.
Waits(n) == {d \in Deps[n] : ~Completed(d)}

\* The cases of AdvanceNode.
LEMMA AdvanceControl ==
  ASSUME BaseInv, NEW t \in Thread
  PROVE  /\ AdvanceInitial(t) => IF Waits(cur[t]) = {} THEN Control(t, "Advance", cur[t])
                                                      ELSE Control(t, "Loop", NoNode)
         /\ AdvanceBlocked(t) => Control(t, "Advance", cur[t])
         /\ CheckStart(t) => Control(t, "Check", cur[t])
         /\ CheckDone(t) => Control(t, "Advance", cur[t])
         /\ RunActionEmpty(t) => Control(t, "Advance", cur[t])
         /\ ParkExpensiveNode(t) => Control(t, "Loop", NoNode)
         /\ RunActionStart(t) => Control(t, "Run", cur[t])
         /\ RunDone(t) => Control(t, "Advance", cur[t])
         /\ AdvanceSucceeded(t) => Control(t, "Advance", cur[t])
         /\ AdvanceFailed(t) => Control(t, "Advance", cur[t])
         /\ AdvanceCompleted(t) => Control(t, "Loop", NoNode)
<1>1. pc \in [Thread -> Place] /\ cur \in [Thread -> Node \cup {NoNode}]
      /\ lock \in Thread \cup {NoThread} /\ NoThread \notin Thread
  BY ThreadAssumption DEF BaseInv, TypeOK
<1>2. (lock = t <=> pc[t] \in LockedAt)
      /\ (pc[t] \in BusyAt => cur[t] \in Node) /\ cur = [cur EXCEPT ![t] = cur[t]]
  BY <1>1 DEF BaseInv, LockInv, CurInv
<1>3. ASSUME NEW x \in {"Advance", "Loop"}, Woken([pc EXCEPT ![t] = x], pc'), pc[t] \in BusyAt,
             IF x = "Advance" THEN UNCHANGED cur ELSE cur' = [cur EXCEPT ![t] = NoNode],
             lock' = t, lock \in {t, NoThread}
      PROVE  Control(t, x, IF x = "Advance" THEN cur[t] ELSE NoNode)
  BY <1>1, <1>2, <1>3 DEF Woken, Control, Place, BusyAt, LockedAt, MainAt
<1>4. ASSUME NEW x \in Place PROVE [pc EXCEPT ![t] = x] \in [Thread -> Place]
  BY <1>1
<1>5. "Advance" \in Place /\ "Loop" \in Place /\ "Advance" \in BusyAt /\ "Advance" \in LockedAt
  BY DEF Place, BusyAt, LockedAt
<1>6. pc[t] = "Advance" => pc = [pc EXCEPT ![t] = "Advance"]
  BY <1>1
<1>7. AdvanceInitial(t) => IF Waits(cur[t]) = {} THEN Control(t, "Advance", cur[t])
                                                ELSE Control(t, "Loop", NoNode)
  <2> SUFFICES ASSUME AdvanceInitial(t)
               PROVE  IF Waits(cur[t]) = {} THEN Control(t, "Advance", cur[t])
                                            ELSE Control(t, "Loop", NoNode)
    OBVIOUS
  <2>1. CASE Waits(cur[t]) = {}
    <3>1. PICK k : pc' \in WakeWaiters(k, pc)
      BY <2>1, Zenon DEF AdvanceInitial, Waits
    <3>2. Woken([pc EXCEPT ![t] = "Advance"], pc')
      BY <1>1, <1>6, <3>1, WakeWaitersWakes, Zenon DEF AdvanceInitial, Advancing
    <3>3. pc[t] = "Advance" /\ UNCHANGED <<cur, lock>>
      BY <2>1, Zenon DEF AdvanceInitial, Advancing, Waits
    <3> QED
      BY <1>2, <1>3, <1>5, <2>1, <3>2, <3>3
  <2>2. CASE Waits(cur[t]) # {}
    <3>1. PICK k : pc' \in WakeWaiters(k, [pc EXCEPT ![t] = "Loop"])
      BY <2>2, Zenon DEF AdvanceInitial, Waits
    <3>2. Woken([pc EXCEPT ![t] = "Loop"], pc')
      BY <1>4, <1>5, <3>1, WakeWaitersWakes
    <3>3. pc[t] = "Advance" /\ UNCHANGED lock /\ cur' = [cur EXCEPT ![t] = NoNode]
      BY <2>2, Zenon DEF AdvanceInitial, Advancing, Waits
    <3> QED
      BY <1>2, <1>3, <1>5, <2>2, <3>2, <3>3
  <2> QED
    BY <2>1, <2>2
<1>8. AdvanceBlocked(t) => Control(t, "Advance", cur[t])
  BY <1>1, <1>2 DEF AdvanceBlocked, Advancing, Control, Place, BusyAt, LockedAt, MainAt
<1>9. CheckStart(t) => Control(t, "Check", cur[t])
  BY <1>1, <1>2 DEF CheckStart, Advancing, Control, Place, BusyAt, LockedAt, MainAt
<1>10. CheckDone(t) => Control(t, "Advance", cur[t])
  BY <1>1, <1>2 DEF CheckDone, Control, Place, BusyAt, LockedAt, MainAt
<1>11. RunActionEmpty(t) => Control(t, "Advance", cur[t])
  <2> SUFFICES ASSUME RunActionEmpty(t) PROVE Control(t, "Advance", cur[t])
    OBVIOUS
  <2>1. pc[t] = "Advance" /\ UNCHANGED <<lock, cur>> /\ AfterRunAction(cur[t], pc)
    BY DEF RunActionEmpty, Advancing
  <2>2. Woken([pc EXCEPT ![t] = "Advance"], pc')
    BY <1>1, <1>6, <2>1, AfterRunActionWakes, Zenon
  <2> QED
    BY <1>2, <1>3, <1>5, <2>1, <2>2
<1>12. ParkExpensiveNode(t) => Control(t, "Loop", NoNode)
  BY <1>1, <1>2 DEF ParkExpensiveNode, Advancing, Control, Place, BusyAt, LockedAt, MainAt
<1>13. RunActionStart(t) => Control(t, "Run", cur[t])
  BY <1>1, <1>2 DEF RunActionStart, Advancing, Control, Place, BusyAt, LockedAt, MainAt
<1>14. RunDone(t) => Control(t, "Advance", cur[t])
  <2> SUFFICES ASSUME RunDone(t) PROVE Control(t, "Advance", cur[t])
    OBVIOUS
  <2> DEFINE p == [pc EXCEPT ![t] = "Advance"]
  <2>1. pc[t] = "Run" /\ lock = NoThread /\ lock' = t /\ UNCHANGED cur
    BY DEF RunDone
  <2>2. AfterRunAction(cur[t], p) \/ AfterRunAction(cur[t], CondBroadcast(p))
    BY DEF RunDone
  <2>3. p \in [Thread -> Place]
    BY <1>4, <1>5
  <2> HIDE DEF p
  <2>4. Woken(p, CondBroadcast(p))
    BY <2>3, BroadcastWakes
  <2>5. Woken(p, pc') \/ Woken(CondBroadcast(p), pc')
    BY <2>2, <2>3, <2>4, AfterRunActionWakes, Zenon DEF Woken
  <2>6. Woken(p, pc')
    BY <2>4, <2>5 DEF Woken
  <2> QED
    BY <1>2, <1>3, <2>1, <2>6 DEF p, BusyAt
<1>15. AdvanceSucceeded(t) => Control(t, "Advance", cur[t])
  BY <1>1, <1>2 DEF AdvanceSucceeded, Advancing, Control, Place, BusyAt, LockedAt, MainAt
<1>16. AdvanceFailed(t) => Control(t, "Advance", cur[t])
  <2> SUFFICES ASSUME AdvanceFailed(t) PROVE Control(t, "Advance", cur[t])
    OBVIOUS
  <2>1. pc[t] = "Advance" /\ UNCHANGED <<lock, cur>> /\ pc' = CondBroadcast(pc)
    BY DEF AdvanceFailed, Advancing
  <2>2. Woken([pc EXCEPT ![t] = "Advance"], pc')
    BY <1>1, <1>6, <2>1, BroadcastWakes, Zenon
  <2> QED
    BY <1>2, <1>3, <1>5, <2>1, <2>2
<1>17. AdvanceCompleted(t) => Control(t, "Loop", NoNode)
  <2> SUFFICES ASSUME AdvanceCompleted(t) PROVE Control(t, "Loop", NoNode)
    OBVIOUS
  <2>1. /\ pc[t] = "Advance" /\ UNCHANGED lock /\ cur' = [cur EXCEPT ![t] = NoNode]
        /\ pc' = CondBroadcast([pc EXCEPT ![t] = "Loop"])
    BY DEF AdvanceCompleted, Advancing
  <2>2. Woken([pc EXCEPT ![t] = "Loop"], pc')
    BY <1>4, <1>5, <2>1, BroadcastWakes
  <2> QED
    BY <1>2, <1>3, <1>5, <2>1, <2>2
<1> QED
  BY <1>7, <1>8, <1>9, <1>10, <1>11, <1>12, <1>13, <1>14, <1>15, <1>16, <1>17, Zenon

\* The steps of the driver's thread, and the signal handler.
LEMMA DriverControl ==
  ASSUME BaseInv
  PROVE  /\ StartPass => Control(Main, "PassWake", NoNode)
         /\ PassBroadcast => Control(Main, "Lock", NoNode)
         /\ EndPass => \/ Control(Main, "Quit", NoNode)
                       \/ Control(Main, "Pass", NoNode) /\ buildResult' = "kOk" /\ currentPass + 1 < PassCount
         /\ QuitSignal => Control(Main, "QuitWake", NoNode)
         /\ QuitBroadcast => Control(Main, "Join", NoNode)
         /\ JoinWorkers => Control(Main, "Done", NoNode)
         /\ SignalSet => Control(Main, pc[Main], cur[Main])
<1>1. pc \in [Thread -> Place] /\ cur \in [Thread -> Node \cup {NoNode}]
      /\ lock \in Thread \cup {NoThread} /\ NoThread \notin Thread /\ Main \in Thread
  BY ThreadAssumption DEF BaseInv, TypeOK, Thread
<1>2. /\ lock = Main <=> pc[Main] \in LockedAt
      /\ IF pc[Main] \in BusyAt THEN cur[Main] \in Node ELSE cur[Main] = NoNode
      /\ cur = [cur EXCEPT ![Main] = cur[Main]]
      /\ pc[Main] # "Exited"
  BY <1>1 DEF BaseInv, LockInv, CurInv, PlaceInv
<1>3. ASSUME NEW x \in Place, Woken([pc EXCEPT ![Main] = x], pc'), pc[Main] \in MainAt,
             x \in MainAt \cup {"Lock"}, UNCHANGED <<cur, lock>>
      PROVE  Control(Main, x, NoNode)
  BY <1>1, <1>2, <1>3 DEF Woken, Control, Place, BusyAt, LockedAt, MainAt
<1>4. ASSUME NEW x \in Place
      PROVE  /\ [pc EXCEPT ![Main] = x] \in [Thread -> Place]
             /\ Woken([pc EXCEPT ![Main] = x], [pc EXCEPT ![Main] = x])
             /\ Woken([pc EXCEPT ![Main] = x], CondBroadcast([pc EXCEPT ![Main] = x]))
  <2>1. [pc EXCEPT ![Main] = x] \in [Thread -> Place]
    BY <1>1
  <2> QED
    BY <2>1, NobodyWoken, BroadcastWakes, Zenon
<1>5. StartPass => Control(Main, "PassWake", NoNode)
  BY <1>3, <1>4, Zenon DEF StartPass, Place, MainAt
<1>6. PassBroadcast => Control(Main, "Lock", NoNode)
  BY <1>3, <1>4 DEF PassBroadcast, Place, MainAt
<1>7. EndPass => \/ Control(Main, "Quit", NoNode)
                 \/ Control(Main, "Pass", NoNode) /\ buildResult' = "kOk" /\ currentPass + 1 < PassCount
  <2> SUFFICES ASSUME EndPass
               PROVE  \/ Control(Main, "Quit", NoNode)
                      \/ Control(Main, "Pass", NoNode) /\ buildResult' = "kOk" /\ currentPass + 1 < PassCount
    OBVIOUS
  <2>1. pc[Main] = "Result" /\ UNCHANGED <<cur, lock>>
    BY DEF EndPass
  <2>2. CASE buildResult' = "kOk" /\ currentPass + 1 < PassCount
    <3>1. pc' = [pc EXCEPT ![Main] = "Pass"]
      BY <2>2, Zenon DEF EndPass
    <3> QED
      BY <1>3, <1>4, <2>1, <2>2, <3>1, Zenon DEF Place, MainAt
  <2>3. CASE ~(buildResult' = "kOk" /\ currentPass + 1 < PassCount)
    <3>1. pc' = [pc EXCEPT ![Main] = "Quit"]
      BY <2>3, Zenon DEF EndPass
    <3> QED
      BY <1>3, <1>4, <2>1, <3>1, Zenon DEF Place, MainAt
  <2> QED
    BY <2>2, <2>3
<1>8. QuitSignal => Control(Main, "QuitWake", NoNode)
  BY <1>3, <1>4, Zenon DEF QuitSignal, Place, MainAt
<1>9. QuitBroadcast => Control(Main, "Join", NoNode)
  BY <1>3, <1>4 DEF QuitBroadcast, Place, MainAt
<1>10. JoinWorkers => Control(Main, "Done", NoNode)
  BY <1>3, <1>4, Zenon DEF JoinWorkers, Place, MainAt
<1>11. SignalSet => Control(Main, pc[Main], cur[Main])
  <2> SUFFICES ASSUME SignalSet PROVE Control(Main, pc[Main], cur[Main])
    OBVIOUS
  <2>1. Woken(pc, pc') /\ UNCHANGED <<cur, lock>>
    BY <1>1, BroadcastWakes DEF SignalSet
  <2> QED
    BY <1>1, <1>2, <2>1 DEF Woken, Control
<1> QED
  BY <1>5, <1>6, <1>7, <1>8, <1>9, <1>10, <1>11

\* The nodes a step may enqueue are nodes.
LEMMA WokenNodes ==
  ASSUME BaseInv, NEW n \in Node
  PROVE  /\ ReadyWaiters(n) \subseteq Node /\ IsFiniteSet(ReadyWaiters(n))
         /\ Waits(n) \subseteq Node /\ IsFiniteSet(Waits(n))
         /\ \A S : S \subseteq Node => IsFiniteSet(S)
<1>1. \A S : S \subseteq Node => IsFiniteSet(S)
  BY FinSubset, DagAssumption DEF BaseInv
<1>2. ReadyWaiters(n) \subseteq Node
  BY DEF ReadyWaiters, NodesOfPass
<1>3. Waits(n) \subseteq Node
  BY DagAssumption DEF Waits
<1> QED
  BY <1>1, <1>2, <1>3

\* What AfterRunAction does to the types.
LEMMA AfterRunActionTypes ==
  ASSUME BaseInv, NEW n, NEW p, AfterRunAction(n, p)
  PROVE  /\ queued' \in SUBSET Node /\ active' \in SUBSET Node
         /\ queue' \in Seq(Node) /\ waitList' \in Seq(Node) /\ expensiveRunning' \in Int
<1>1. /\ queued \in SUBSET Node /\ active \in SUBSET Node
      /\ queue \in Seq(Node) /\ waitList \in Seq(Node) /\ expensiveRunning \in Int
  BY DEF BaseInv, TypeOK
<1>2. CASE n \notin Expensive \/ waitList = <<>>
  BY <1>1, <1>2 DEF AfterRunAction, queueVars
<1>3. CASE n \in Expensive /\ waitList # <<>>
  <2> DEFINE parked == waitList[Len(waitList)]
  <2>1. Len(waitList) \in Nat /\ Len(waitList) - 1 \in Nat /\ Len(waitList) - 1 <= Len(waitList) /\ parked \in Node
    BY <1>1, <1>3
  <2>2. SubSeq(waitList, 1, Len(waitList) - 1) \in Seq(Node)
    BY <1>1, <2>1, PrefixProp
  <2>3. Append(queue, parked) \in Seq(Node)
    BY <1>1, <2>1
  <2>4. /\ expensiveRunning' = expensiveRunning - 1
        /\ waitList' = SubSeq(waitList, 1, Len(waitList) - 1)
        /\ queue' = Append(queue, parked)
        /\ queued' = queued \cup {parked} /\ active' = active \ {parked}
    BY <1>3, Zenon DEF AfterRunAction
  <2> HIDE DEF parked
  <2>5. queued' \in SUBSET Node /\ active' \in SUBSET Node /\ expensiveRunning' \in Int
    BY <1>1, <2>1, <2>4
  <2> QED
    BY <2>2, <2>3, <2>4, <2>5
<1> QED
  BY <1>2, <1>3

\* BuildLoop keeps the types, the mutex and the program counters in order.
LEMMA BaseLoop ==
  ASSUME BaseInv, NEW t \in Thread, LoopStep(t) \/ SpuriousWakeup(t)
  PROVE  BaseInv'
<1>1. signalled \in BOOLEAN /\ buildResult \in {"kOk", "kInterrupted", "kBuildError"}
  BY DEF BaseInv, TypeOK
<1>2. \A x \in {"Loop", "Wait", "Asleep", "Lock", "Result", "Exited", "Advance"} : x \in Place /\ x # "Pass"
  BY DEF Place, LockedAt, MainAt
<1>3. CASE Acquire(t)
  BY <1>1, <1>2, <1>3, LoopControl, BaseFromPureControl, Zenon DEF Acquire
<1>4. CASE TakeNode(t)
  <2>1. Control(t, "Advance", Head(queue)) /\ Head(queue) \in Node
    BY <1>4, LoopControl
  <2>2. queue' \in Seq(Node) /\ queued' \in SUBSET Node /\ active' \in SUBSET Node
    BY <1>4, <2>1 DEF TakeNode, BaseInv, TypeOK
  <2>3. DataOK' /\ UNCHANGED currentPass
    BY <1>4, <2>2, Zenon DEF TakeNode, BaseInv, TypeOK, DataOK, countVars
  <2>4. pc'[Main] = "Pass" => currentPass' + 1 < PassCount
    BY <1>2, <2>1, <2>3, ControlStep DEF BaseInv, PlaceInv
  <2> QED
    BY <1>2, <2>1, <2>3, <2>4, BaseFromControl
<1>5. CASE DecideToWait(t)
  BY <1>1, <1>2, <1>5, LoopControl, BaseFromPureControl, Zenon DEF DecideToWait
<1>6. CASE Sleep(t)
  BY <1>1, <1>2, <1>6, LoopControl, BaseFromPureControl, Zenon DEF Sleep
<1>7. CASE SpuriousWakeup(t)
  BY <1>1, <1>2, <1>7, LoopControl, BaseFromPureControl, Zenon DEF SpuriousWakeup
<1>8. CASE LeaveLoop(t)
  BY <1>1, <1>2, <1>8, LoopControl, BaseFromPureControl, Zenon DEF LeaveLoop
<1> QED
  BY <1>3, <1>4, <1>5, <1>6, <1>7, <1>8 DEF LoopStep

\* So does AdvanceNode.
LEMMA BaseAdvance ==
  ASSUME BaseInv, NEW t \in Thread, AdvanceStep(t)
  PROVE  BaseInv'
<1> DEFINE n == cur[t]
<1>1. DataOK
  BY DEF BaseInv, TypeOK, DataOK
<1>2. \A x \in {"Advance", "Check", "Run", "Loop"} : x \in Place /\ x # "Pass"
  BY DEF Place, BusyAt, LockedAt, MainAt
<1>3. n \in Node
  <2>1. pc[t] \in {"Advance", "Check", "Run"}
    BY Zenon DEF AdvanceStep, AdvanceInitial, AdvanceBlocked, CheckStart, CheckDone,
       RunActionEmpty, ParkExpensiveNode, RunActionStart, RunDone, AdvanceSucceeded,
       AdvanceFailed, AdvanceCompleted, Advancing
  <2> QED
    BY <2>1, Zenon DEF BaseInv, CurInv, BusyAt
<1>4. \A x \in Progress : [progress EXCEPT ![n] = x] \in [Node -> Progress]
  BY <1>1, Zenon DEF DataOK
<1>5. \A S : S \subseteq Node => IsFiniteSet(S)
  BY <1>3, WokenNodes
<1>6. ASSUME NEW x \in {"Advance", "Check", "Run", "Loop"}, NEW c, Control(t, x, c),
             DataOK', UNCHANGED currentPass
      PROVE  BaseInv'
  <2>1. pc'[Main] = "Pass" => currentPass' + 1 < PassCount
    BY <1>2, <1>6, ControlStep DEF BaseInv, PlaceInv
  <2> QED
    BY <1>2, <1>6, <2>1, BaseFromControl
<1> HIDE DEF n
<1>7. CASE AdvanceInitial(t)
  <2> DEFINE fresh == {d \in Waits(n) : d \notin queued \cup active /\ progress[d] # "kBlocked"}
  <2>1. fresh \subseteq Node /\ IsFiniteSet(fresh)
    BY <1>3, <1>5, WokenNodes
  <2>2. /\ \E s \in Orderings(fresh) : queue' = queue \o s
        /\ queued' = queued \cup fresh
        /\ progress' = [progress EXCEPT ![n] = IF Waits(n) = {} THEN "kUnblocked" ELSE "kBlocked"]
        /\ active' = IF Waits(n) = {} THEN active ELSE active \ {n}
        /\ UNCHANGED <<result, waitList, expensiveRunning, countVars, signalled, buildResult>>
    BY <1>7, Zenon DEF AdvanceInitial, Waits, n
  <2> HIDE DEF fresh
  <2>3. queue' \in Seq(Node)
    <3>1. PICK s \in Orderings(fresh) : queue' = queue \o s
      BY <2>2
    <3>2. s \in Seq(Node)
      BY <2>1, OrderingsProp DEF BaseInv
    <3> QED
      BY <1>1, <3>1, <3>2 DEF DataOK
  <2>4. progress' \in [Node -> Progress]
    BY <1>4, <2>2 DEF Progress
  <2>5. queued' \in SUBSET Node /\ active' \in SUBSET Node
    BY <1>1, <2>1, <2>2 DEF DataOK
  <2>6. DataOK' /\ UNCHANGED currentPass
    BY <1>1, <2>2, <2>3, <2>4, <2>5, Zenon DEF DataOK, countVars
  <2> QED
    BY <1>6, <1>7, <2>6, AdvanceControl
<1>8. CASE AdvanceBlocked(t) \/ CheckDone(t)
  <2>1. progress' \in [Node -> Progress]
    BY <1>4, <1>8, Zenon DEF AdvanceBlocked, CheckDone, Progress, n
  <2>2. DataOK' /\ UNCHANGED currentPass
    BY <1>1, <1>8, <2>1, Zenon DEF DataOK, AdvanceBlocked, CheckDone, queueVars, countVars
  <2> QED
    BY <1>6, <1>8, <2>2, AdvanceControl
<1>9. CASE CheckStart(t)
  <2>1. DataOK' /\ UNCHANGED currentPass
    BY <1>1, <1>9, Zenon DEF DataOK, CheckStart, nodeVars, queueVars, countVars
  <2> QED
    BY <1>6, <1>9, <2>1, AdvanceControl, Zenon
<1>10. CASE RunActionEmpty(t)
  <2>1. progress' \in [Node -> Progress]
    BY <1>4, <1>10 DEF RunActionEmpty, Progress, n
  <2>2. /\ queued' \in SUBSET Node /\ active' \in SUBSET Node
        /\ queue' \in Seq(Node) /\ waitList' \in Seq(Node) /\ expensiveRunning' \in Int
    BY <1>10, AfterRunActionTypes DEF RunActionEmpty
  <2>3. DataOK' /\ UNCHANGED currentPass
    BY <1>1, <1>10, <2>1, <2>2, Zenon DEF DataOK, RunActionEmpty, countVars
  <2> QED
    BY <1>6, <1>10, <2>3, AdvanceControl, Zenon
<1>11. CASE ParkExpensiveNode(t)
  <2>1. queued' \in SUBSET Node /\ waitList' \in Seq(Node)
    BY <1>1, <1>3, <1>11 DEF ParkExpensiveNode, DataOK, n
  <2>2. DataOK' /\ UNCHANGED currentPass
    BY <1>1, <1>11, <2>1, Zenon DEF DataOK, ParkExpensiveNode, countVars
  <2> QED
    BY <1>6, <1>11, <2>2, AdvanceControl, Zenon
<1>12. CASE RunActionStart(t)
  <2>1. expensiveRunning' \in Int
    BY <1>1, <1>12 DEF RunActionStart, DataOK
  <2>2. DataOK' /\ UNCHANGED currentPass
    BY <1>1, <1>12, <2>1, Zenon DEF DataOK, RunActionStart, nodeVars, countVars
  <2> QED
    BY <1>6, <1>12, <2>2, AdvanceControl, Zenon
<1>13. CASE RunDone(t)
  <2>1. progress' \in [Node -> Progress]
    BY <1>4, <1>13 DEF RunDone, Progress, n
  <2>2. /\ queued' \in SUBSET Node /\ active' \in SUBSET Node
        /\ queue' \in Seq(Node) /\ waitList' \in Seq(Node) /\ expensiveRunning' \in Int
    <3>1. \E p : AfterRunAction(cur[t], p)
      BY <1>13 DEF RunDone
    <3> QED
      BY <3>1, AfterRunActionTypes
  <2>3. signalled' \in BOOLEAN
    BY <1>13, Zenon DEF RunDone
  <2>4. DataOK' /\ UNCHANGED currentPass
    BY <1>1, <1>13, <2>1, <2>2, <2>3, Zenon DEF DataOK, RunDone, countVars
  <2> QED
    BY <1>6, <1>13, <2>4, AdvanceControl
<1>14. CASE AdvanceSucceeded(t) \/ AdvanceFailed(t)
  <2>1. progress' \in [Node -> Progress] /\ result' \in [Node -> {0, 1}]
    BY <1>1, <1>4, <1>14, Zenon DEF AdvanceSucceeded, AdvanceFailed, Progress, DataOK, n
  <2>2. failed' \in Nat
    BY <1>1, <1>14 DEF AdvanceSucceeded, AdvanceFailed, DataOK, countVars
  <2>3. DataOK' /\ UNCHANGED currentPass
    BY <1>1, <1>14, <2>1, <2>2, Zenon DEF DataOK, AdvanceSucceeded, AdvanceFailed, queueVars, countVars
  <2> QED
    BY <1>6, <1>14, <2>3, AdvanceControl, Zenon
<1>15. CASE AdvanceCompleted(t)
  <2> DEFINE woken == ReadyWaiters(n)
  <2>1. woken \subseteq Node /\ IsFiniteSet(woken)
    BY <1>3, WokenNodes
  <2>2. /\ pending' = pending - 1
        /\ \E s \in Orderings(woken) : queue' = queue \o s
        /\ queued' = queued \cup woken
        /\ UNCHANGED <<progress, active, result, waitList, expensiveRunning, failed,
                       currentPass, quit, signalled, buildResult>>
    BY <1>15, Zenon DEF AdvanceCompleted, n
  <2> HIDE DEF woken
  <2>3. queue' \in Seq(Node)
    <3>1. PICK s \in Orderings(woken) : queue' = queue \o s
      BY <2>2
    <3>2. s \in Seq(Node)
      BY <2>1, OrderingsProp DEF BaseInv
    <3> QED
      BY <1>1, <3>1, <3>2 DEF DataOK
  <2>4. queued' \in SUBSET Node /\ pending' \in Int
    BY <1>1, <2>1, <2>2 DEF DataOK
  <2>5. DataOK' /\ UNCHANGED currentPass
    BY <1>1, <2>2, <2>3, <2>4, Zenon DEF DataOK
  <2> QED
    BY <1>6, <1>15, <2>5, AdvanceControl, Zenon
<1> QED
  BY <1>7, <1>8, <1>9, <1>10, <1>11, <1>12, <1>13, <1>14, <1>15 DEF AdvanceStep

\* So do the driver's thread and the signal handler.
LEMMA BaseDriver ==
  ASSUME BaseInv, DriverStep \/ SignalSet
  PROVE  BaseInv'
<1>1. DataOK /\ Main \in Thread /\ pc[Main] \in Place
  BY DEF BaseInv, TypeOK, DataOK, Thread
<1>2. MainAt \subseteq Place /\ "Lock" \in Place
  BY DEF Place
<1>3. signalled \in BOOLEAN /\ buildResult \in {"kOk", "kInterrupted", "kBuildError"}
  BY <1>1 DEF DataOK
<1>4. CASE StartPass
  <2> DEFINE nodes == NodesOfPass(currentPass + 1)
  <2>1. nodes \subseteq Node /\ IsFiniteSet(nodes)
    BY FinSubset, DagAssumption DEF NodesOfPass, BaseInv
  <2>2. /\ currentPass' = currentPass + 1
        /\ queued' = queued \cup nodes
        /\ queue' \in Orderings(nodes)
        /\ pending' = Cardinality(nodes)
        /\ failed' = 0
        /\ UNCHANGED <<progress, active, result, waitList, expensiveRunning, quit, signalled, buildResult>>
    BY <1>4, Zenon DEF StartPass
  <2>3. pc[Main] = "Pass" /\ Control(Main, "PassWake", NoNode)
    BY <1>4, DriverControl, Zenon DEF StartPass
  <2> HIDE DEF nodes
  <2>4. queue' \in Seq(Node)
    BY <2>1, <2>2, OrderingsProp DEF BaseInv
  <2>5. queued' \in SUBSET Node /\ failed' \in Nat
    BY <1>1, <2>1, <2>2 DEF DataOK
  <2>6. pending' \in Int
    BY <2>1, <2>2, FinCardinality DEF BaseInv
  <2>7. currentPass' \in -1 .. PassCount - 1
    BY <1>1, <2>2, <2>3, DagAssumption, SMTT(30) DEF DataOK, BaseInv, PlaceInv
  <2>8. DataOK'
    BY <1>1, <2>2, <2>4, <2>5, <2>6, <2>7, Zenon DEF DataOK
  <2>9. pc'[Main] # "Pass"
    BY <2>3, Zenon DEF Control
  <2> QED
    BY <1>1, <1>2, <2>3, <2>8, <2>9, BaseFromControl DEF MainAt
<1>5. CASE PassBroadcast
  BY <1>1, <1>2, <1>3, <1>5, DriverControl, BaseFromPureControl, Zenon DEF PassBroadcast
<1>6. CASE EndPass
  <2>1. /\ UNCHANGED <<nodeVars, queueVars, countVars>> /\ signalled' \in BOOLEAN
        /\ buildResult' \in {"kOk", "kInterrupted", "kBuildError"}
    BY <1>3, <1>6 DEF EndPass
  <2> QED
    BY <1>1, <1>2, <1>6, <2>1, DriverControl, BaseFromPureControl, Zenon DEF MainAt
<1>7. CASE QuitSignal
  <2>1. DataOK' /\ UNCHANGED currentPass
    BY <1>1, <1>7, Zenon DEF QuitSignal, DataOK, nodeVars, queueVars
  <2>2. Control(Main, "QuitWake", NoNode)
    BY <1>7, DriverControl, Zenon
  <2> QED
    BY <1>1, <1>2, <2>1, <2>2, BaseFromControl, Zenon DEF Control, MainAt
<1>8. CASE QuitBroadcast
  BY <1>1, <1>2, <1>3, <1>8, DriverControl, BaseFromPureControl, Zenon DEF QuitBroadcast, MainAt
<1>9. CASE JoinWorkers
  BY <1>1, <1>2, <1>3, <1>9, DriverControl, BaseFromPureControl, Zenon DEF JoinWorkers, MainAt
<1>10. CASE SignalSet
  <2>1. UNCHANGED <<nodeVars, queueVars, countVars, buildResult>> /\ signalled' \in BOOLEAN
    BY <1>10, Zenon DEF SignalSet
  <2>2. pc[Main] = "Pass" => currentPass + 1 < PassCount
    BY DEF BaseInv, PlaceInv
  <2> QED
    BY <1>1, <1>3, <1>10, <2>1, <2>2, DriverControl, BaseFromPureControl, Zenon
<1> QED
  BY <1>4, <1>5, <1>6, <1>7, <1>8, <1>9, <1>10 DEF DriverStep

\* Every step keeps the types, the mutex and the program counters in order.
LEMMA BaseStep == BaseInv /\ [Next]_vars => BaseInv'
<1> SUFFICES ASSUME BaseInv, [Next]_vars PROVE BaseInv'
  OBVIOUS
<1>1. CASE UNCHANGED vars
  BY <1>1, Zenon DEF vars, nodeVars, queueVars, countVars, BaseInv, TypeOK, LockInv, CurInv, PlaceInv, FiniteFacts
<1> QED
  BY <1>1, BaseLoop, BaseAdvance, BaseDriver DEF Next, Finished

=============================================================================
