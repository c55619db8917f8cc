---------------------------- MODULE SessionProofs ----------------------------
(***************************************************************************)
(* Second part of the proofs about Session: what the queue proofs say of   *)
(* every build of a session, which steps of it touch a file, and the       *)
(* theorems.  The limit on expensive jobs must not be in force: at the end *)
(* of a failed build it leaves nodes parked that have signed their inputs  *)
(* and not run.                                                            *)
(***************************************************************************)
EXTENDS SessionFiles, BuildQueueProofs

\* As many expensive jobs may run as there are threads, or there are none.
NoLimit == NoEmptyExpensive /\ (Expensive = {} \/ MaxExpensive = ThreadCount)

-----------------------------------------------------------------------------
(* The builds of a session are builds.                                      *)

\* An action runs only for a node that has one.
WorkInv == \A t \in Thread : pc[t] = "Run" => cur[t] \notin NoAction

\* A node that is to run is in the hands of a thread: it was never parked.
RunHeld == \A n \in Node : progress[n] = "kRunAction" => n \in Held

\* The invariant of the queue.
QueueInv == BaseInv /\ NodeInv /\ ExpensiveInv /\ WorkInv /\ RunHeld

\* While a thread is about to start an action, fewer are running than there are
\* threads.
LEMMA NeverParked ==
  ASSUME NoLimit, BaseInv, ExpensiveInv, NEW t \in Thread
  PROVE  ~ParkExpensiveNode(t)
<1> SUFFICES ASSUME ParkExpensiveNode(t) PROVE FALSE
  OBVIOUS
<1>1. pc[t] = "Advance" /\ Expensive # {} /\ expensiveRunning = ThreadCount
  BY Zenon DEF ParkExpensiveNode, Advancing, NoLimit
<1>2. expensiveRunning = Cardinality(Jobs)
  BY LimitAndWaker DEF ExpensiveInv
<1>3. IsFiniteSet(Worker) /\ Main \notin Worker
  BY ThreadAssumption
<1>4. IsFiniteSet(Thread) /\ Cardinality(Thread) = Cardinality(Worker) + 1
  BY <1>3, FS_AddElement DEF Thread
<1>5. IsFiniteSet(Thread \ {t}) /\ Cardinality(Thread \ {t}) = Cardinality(Thread) - 1
  BY <1>4, FS_RemoveElement
<1>6. Jobs \subseteq Thread \ {t}
  BY <1>1 DEF Jobs
<1>7. Cardinality(Jobs) <= Cardinality(Thread \ {t})
  BY <1>5, <1>6, FS_Subset
<1>8. Cardinality(Worker) \in Nat /\ Cardinality(Jobs) \in Nat
  BY <1>3, JobsFinite, FS_CardinalityType
<1> QED
  BY <1>1, <1>2, <1>4, <1>5, <1>7, <1>8 DEF ThreadCount

\* A step of thread t that lets go of no node that is to run.
LEMMA RunHeldStep ==
  ASSUME BaseInv, NodeInv, RunHeld, NEW t \in Thread, NEW x \in Place, NEW c, Control(t, x, c),
         pc[t] \in BusyAt => IF x \in BusyAt THEN c = cur[t] ELSE progress'[cur[t]] # "kRunAction",
         \A m \in Node : progress'[m] = "kRunAction" =>
           progress[m] = "kRunAction" \/ (m = cur[t] /\ pc[t] \in BusyAt)
  PROVE  RunHeld'
<1>1. Distinct /\ (pc[t] \in BusyAt => cur[t] \in Held)
  BY BusyThread DEF NodeInv, ExclusiveOwnership, Distinct
<1> SUFFICES ASSUME NEW m \in Node, progress'[m] = "kRunAction" PROVE m \in Held'
  BY DEF RunHeld
<1>2. m \in Held
  BY <1>1 DEF RunHeld
<1> QED
  BY <1>1, <1>2, HeldStep

\* Nothing is ever parked.
LEMMA RunHeldNext ==
  ASSUME NoLimit, BaseInv, NodeInv, ExpensiveInv, RunHeld, [Next]_vars
  PROVE  RunHeld'
<1> USE DEF BusyAt, LockedAt, MainAt, Place
<1>1. progress \in [Node -> Progress]
  BY DEF BaseInv, TypeOK
<1>2. CASE UNCHANGED vars \/ Finished
  BY <1>2, Zenon DEF Finished, vars, nodeVars, RunHeld, Held, Busy
<1>3. ASSUME NEW t \in Thread, LoopStep(t) \/ SpuriousWakeup(t)
      PROVE  RunHeld'
  <2>1. pc[t] \notin BusyAt /\ UNCHANGED progress
    BY <1>3 DEF LoopStep, Acquire, TakeNode, DecideToWait, Sleep, LeaveLoop, SpuriousWakeup, nodeVars
  <2>2. \E x \in Place : \E c : Control(t, x, c)
    BY <1>3, LoopControl DEF LoopStep
  <2> QED
    BY <2>1, <2>2, RunHeldStep
<1>4. ASSUME NEW t \in Thread, AdvanceStep(t)
      PROVE  RunHeld'
  <2>1. ~ParkExpensiveNode(t)
    BY NeverParked
  <2>2. pc[t] \in BusyAt /\ cur[t] \in Node
    <3>1. pc[t] \in BusyAt
      BY <1>4, Zenon DEF AdvanceStep, AdvanceInitial, AdvanceBlocked, CheckStart, CheckDone,
         RunActionEmpty, ParkExpensiveNode, RunActionStart, RunDone, AdvanceSucceeded,
         AdvanceFailed, AdvanceCompleted, Advancing
    <3> QED
      BY <3>1, BusyThread
  <2>3. \A m \in Node : m # cur[t] => progress'[m] = progress[m]
    BY <1>1, <1>4, <2>2, Zenon DEF AdvanceStep, AdvanceInitial, AdvanceBlocked, CheckStart, CheckDone,
       RunActionEmpty, ParkExpensiveNode, RunActionStart, RunDone, AdvanceSucceeded,
       AdvanceFailed, AdvanceCompleted, nodeVars
  <2>4. CASE AdvanceInitial(t) \/ AdvanceCompleted(t)
    <3>1. progress'[cur[t]] # "kRunAction"
      BY <1>1, <2>2, <2>4 DEF AdvanceInitial, AdvanceCompleted, Advancing, nodeVars
    <3>2. Control(t, "Advance", cur[t]) \/ Control(t, "Loop", NoNode)
      BY <2>4, AdvanceControl
    <3> QED
      BY <2>2, <2>3, <3>1, <3>2, RunHeldStep
  <2>5. CASE ~(AdvanceInitial(t) \/ AdvanceCompleted(t))
    <3>1. \E x \in {"Advance", "Check", "Run"} : Control(t, x, cur[t])
      BY <1>4, <2>1, <2>5, AdvanceControl DEF AdvanceStep
    <3> QED
      BY <2>2, <2>3, <3>1, RunHeldStep
  <2> QED
    BY <2>4, <2>5
<1>5. ASSUME DriverStep \/ SignalSet
      PROVE  RunHeld'
  <2>1. Main \in Thread /\ UNCHANGED progress
    BY <1>5 DEF DriverStep, StartPass, PassBroadcast, EndPass, QuitSignal, QuitBroadcast, JoinWorkers,
                SignalSet, nodeVars, Thread
  <2>2. pc[Main] \in Place
    BY <2>1 DEF BaseInv, TypeOK
  <2>3. CASE DriverStep
    <3>1. pc[Main] \notin BusyAt
      BY <2>3 DEF DriverStep, StartPass, PassBroadcast, EndPass, QuitSignal, QuitBroadcast, JoinWorkers
    <3>2. \E x \in Place : \E c : Control(Main, x, c)
      BY <2>3, DriverControl DEF DriverStep
    <3> QED
      BY <2>1, <3>1, <3>2, RunHeldStep
  <2>4. CASE SignalSet
    <3>1. Control(Main, pc[Main], cur[Main])
      BY <2>4, DriverControl
    <3> QED
      BY <2>1, <2>2, <3>1, RunHeldStep
  <2> QED
    BY <1>5, <2>3, <2>4
<1> QED
  BY <1>2, <1>3, <1>4, <1>5 DEF Next

\* A step of thread t to x with node c.
LEMMA WorkStep ==
  ASSUME BaseInv, WorkInv, NEW t \in Thread, NEW x, NEW c, Control(t, x, c),
         x = "Run" => c \notin NoAction
  PROVE  WorkInv'
<1>1. cur \in [Thread -> Node \cup {NoNode}] /\ cur' = [cur EXCEPT ![t] = c]
  BY DEF BaseInv, TypeOK, Control
<1>2. ASSUME NEW u \in Thread, pc'[u] = "Run" PROVE cur'[u] \notin NoAction
  BY <1>1, <1>2 DEF Control, WorkInv
<1> QED
  BY <1>2 DEF WorkInv

\* Every step of the queue.
LEMMA WorkNext == BaseInv /\ WorkInv /\ [Next]_vars => WorkInv'
<1> SUFFICES ASSUME BaseInv, WorkInv, [Next]_vars PROVE WorkInv'
  OBVIOUS
<1>1. CASE UNCHANGED vars
  BY <1>1 DEF vars, WorkInv
<1>2. ASSUME NEW t \in Thread, LoopStep(t) \/ SpuriousWakeup(t)
      PROVE  WorkInv'
  BY <1>2, LoopControl, WorkStep DEF LoopStep
<1>3. ASSUME NEW t \in Thread, AdvanceStep(t)
      PROVE  WorkInv'
  <2>1. \E x, c : Control(t, x, c) /\ (x = "Run" => c \notin NoAction)
    BY <1>3, AdvanceControl DEF AdvanceStep, RunActionStart
  <2> QED
    BY <2>1, WorkStep
<1>4. ASSUME DriverStep \/ SignalSet
      PROVE  WorkInv'
  <2>1. Main \in Thread /\ (pc[Main] = "Run" => cur[Main] \notin NoAction)
    BY DEF Thread, WorkInv
  <2> QED
    BY <1>4, <2>1, DriverControl, WorkStep DEF DriverStep
<1> QED
  BY <1>1, <1>2, <1>3, <1>4 DEF Next, Finished

\* The steps of Session are steps of the queue, or leave it alone, or start a
\* new one.
LEMMA StepOfQueue == [SessionNext]_sessionVars => [Next]_vars \/ Init'
<1> SUFFICES ASSUME [SessionNext]_sessionVars PROVE [Next]_vars \/ Init'
  OBVIOUS
<1>1. CASE BuildStep
  BY <1>1 DEF BuildStep, CheckInputSignature, StartAction, EndAction, QuietStep, Next, AdvanceStep
<1>2. FreshQueue => Init'
  BY DEF FreshQueue, Init
<1>3. CASE SaveAndStartAgain \/ CrashAndStartAgain
  BY <1>2, <1>3 DEF SaveAndStartAgain, CrashAndStartAgain
<1>4. CASE (\E n \in Node : Edit(n) \/ RemoveOutput(n)) \/ NoMoreSessions \/ UNCHANGED sessionVars
  BY <1>4 DEF Edit, RemoveOutput, NoMoreSessions, sessionVars
<1> QED
  BY <1>1, <1>3, <1>4 DEF SessionNext

\* A new queue is sound.
LEMMA QueueInit == Init => QueueInv
<1>1. Init => WorkInv /\ RunHeld
  BY DEF Init, WorkInv, RunHeld
<1> QED
  BY <1>1, QueueStarts DEF QueueInv

\* The same, after the step that starts it.
LEMMA QueueInitNext == Init' => QueueInv'
  BY QueueInit, PTL

\* What is known of a single build holds in all of them.
LEMMA QueueStep ==
  ASSUME NoLimit
  PROVE  QueueInv /\ [SessionNext]_sessionVars => QueueInv'
<1> SUFFICES ASSUME QueueInv, [SessionNext]_sessionVars PROVE QueueInv'
  OBVIOUS
<1>1. CASE [Next]_vars
  BY <1>1, BaseStep, NodeStep, ExpensiveStep, WorkNext, RunHeldNext DEF QueueInv, NoLimit
<1> QED
  BY <1>1, StepOfQueue, QueueInitNext

\* What SessionFiles supposes of the queue is so.
LEMMA QueueGivesFacts == QueueInv => QueueFacts /\ NothingParked
<1> SUFFICES ASSUME QueueInv PROVE QueueFacts /\ NothingParked
  OBVIOUS
<1>1. progress \in [Node -> Progress] /\ result \in [Node -> {0, 1}]
  BY DEF QueueInv, BaseInv, TypeOK
<1>2. QuietAtExit /\ ResultSound
  BY NodeImplies DEF QueueInv
<1>3. ASSUME NEW n \in Node, progress[n] \notin {"kInitial", "kBlocked"}, NEW d \in Deps[n]
      PROVE  Completed(d) /\ (~ContinueOnError => result[d] = 0)
  BY <1>3 DEF QueueInv, NodeInv, ReadyInv, FailInv, AllDependenciesReady
<1>4. ASSUME currentPass = -1, NEW n \in Node PROVE progress[n] = "kInitial"
  <2>1. PassOf[n] \in Int /\ PassOf[n] > -1
    BY DagAssumption
  <2> QED
    BY <1>4, <2>1 DEF QueueInv, NodeInv, PassBarrier
<1>5. NothingParked
  BY <1>2 DEF NothingParked, QuietAtExit, QueueInv, RunHeld, Held
<1> QED
  BY <1>1, <1>2, <1>3, <1>4, <1>5 DEF QueueFacts

-----------------------------------------------------------------------------
(* Which steps touch a file. *)

\* CheckInputSignature.
LEMMA SignEffect ==
  ASSUME QueueInv, NEW t \in Thread, CheckInputSignature(t)
  PROVE  SignStep(cur[t])
<1> DEFINE n == cur[t]
<1>1. pc[t] = "Check" /\ UNCHANGED result
  BY DEF CheckInputSignature, CheckDone
<1>2. n \in Node /\ progress[n] = "kUnblocked" /\ progress \in [Node -> Progress]
  BY <1>1 DEF QueueInv, BaseInv, TypeOK, CurInv, BusyAt, NodeInv, ThreadInv
<1>3. PICK y \in {"kRunAction", "kUpToDate"} : progress' = [progress EXCEPT ![n] = y]
  BY Zenon DEF CheckInputSignature, CheckDone
<1>4. y = IF MustRun(n, InputsOf(n)) THEN "kRunAction" ELSE "kUpToDate"
  BY <1>2, <1>3, Zenon DEF CheckInputSignature
<1> QED
  BY <1>1, <1>2, <1>3, <1>4, Zenon DEF SignStep, CheckInputSignature

\* The first half of RunAction.
LEMMA StartEffect ==
  ASSUME QueueInv, NEW t \in Thread, StartAction(t)
  PROVE  SpoilStep(cur[t])
<1> DEFINE n == cur[t]
<1>1. pc[t] = "Advance" /\ progress[n] = "kRunAction" /\ n \notin NoAction /\ UNCHANGED <<progress, result>>
  BY DEF StartAction, RunActionStart, Advancing, nodeVars
<1>2. n \in Node /\ progress \in [Node -> Progress]
  BY <1>1 DEF QueueInv, BaseInv, TypeOK, CurInv, BusyAt
<1>3. progress' = [progress EXCEPT ![n] = "kRunAction"]
  BY <1>1, <1>2
<1>4. \E f \in {disk[n], Missing, File(Garbage)} : disk' = [disk EXCEPT ![n] = f]
  BY Zenon DEF StartAction
<1> QED
  BY <1>1, <1>2, <1>3, <1>4, Zenon DEF SpoilStep, StartAction

\* The second half.
LEMMA EndEffect ==
  ASSUME QueueInv, NEW t \in Thread, EndAction(t)
  PROVE  SpoilStep(cur[t]) \/ MakeStep(cur[t])
<1> DEFINE n == cur[t]
<1>1. pc[t] = "Run" /\ UNCHANGED result
  BY DEF EndAction, RunDone
<1>2. n \in Node \ NoAction /\ progress[n] = "kRunAction" /\ progress \in [Node -> Progress]
  BY <1>1 DEF QueueInv, BaseInv, TypeOK, CurInv, BusyAt, NodeInv, ThreadInv, WorkInv
<1>3. PICK y \in {"kSucceeded", "kFailed"} : progress' = [progress EXCEPT ![n] = y]
  BY Zenon DEF EndAction, RunDone
<1>4. progress'[n] = y
  BY <1>2, <1>3
<1>5. CASE y = "kSucceeded"
  <2>1. disk' = [disk EXCEPT ![n] = File(InputsOf(n))]
    BY <1>4, <1>5 DEF EndAction
  <2> QED
    BY <1>1, <1>2, <1>3, <1>5, <2>1, Zenon DEF MakeStep, EndAction
<1>6. CASE y = "kFailed"
  <2>1. \E f \in {disk[n], Missing, File(Garbage)} : disk' = [disk EXCEPT ![n] = f]
    BY <1>4, <1>6, Zenon DEF EndAction
  <2> QED
    BY <1>1, <1>2, <1>3, <1>6, <2>1, Zenon DEF SpoilStep, EndAction
<1> QED
  BY <1>5, <1>6

\* The steps of the queue that touch no file move a node on without touching
\* what these proofs ask of it.
LEMMA StillEffect ==
  ASSUME QueueInv, UNCHANGED dataVars,
         (\E t \in Thread : QuietStep(t)) \/ DriverStep \/ SignalSet \/ UNCHANGED vars
  PROVE  StillFiles
<1>1. progress \in [Node -> Progress] /\ result \in [Node -> {0, 1}]
  BY DEF QueueInv, BaseInv, TypeOK
<1>2. ASSUME UNCHANGED <<progress, result>> PROVE StillFiles
  BY <1>1, <1>2 DEF StillFiles, Unsigned, Made, Completed
<1>3. ASSUME NEW n \in Node, NEW y \in {"kBlocked", "kUnblocked"}, progress[n] \in {"kInitial", "kBlocked"},
             progress' = [progress EXCEPT ![n] = y], UNCHANGED result
      PROVE  StillFiles
  BY <1>1, <1>3 DEF StillFiles, Unsigned, Made, Completed, Progress
<1>4. ASSUME NEW n \in NoAction, n \in Node, progress[n] = "kRunAction",
             progress' = [progress EXCEPT ![n] = "kSucceeded"], UNCHANGED result
      PROVE  StillFiles
  BY <1>1, <1>4 DEF StillFiles, Unsigned, Made, Completed, Progress
<1>5. ASSUME NEW n \in Node, progress[n] \in {"kSucceeded", "kUpToDate"},
             progress' = [progress EXCEPT ![n] = "kCompleted"], result' = [result EXCEPT ![n] = 0]
      PROVE  StillFiles
  BY <1>1, <1>5 DEF StillFiles, Unsigned, Made, Completed, Progress
<1>6. ASSUME NEW n \in Node, progress[n] = "kFailed",
             progress' = [progress EXCEPT ![n] = "kCompleted"], result' = [result EXCEPT ![n] = 1]
      PROVE  StillFiles
  BY <1>1, <1>6 DEF StillFiles, Unsigned, Made, Completed, Progress
<1>7. ASSUME NEW t \in Thread, QuietStep(t) PROVE StillFiles
  <2>1. pc[t] = "Advance" => cur[t] \in Node
    BY DEF QueueInv, BaseInv, CurInv, BusyAt
  <2>2. CASE LoopStep(t) \/ SpuriousWakeup(t) \/ CheckStart(t) \/ ParkExpensiveNode(t) \/ AdvanceCompleted(t)
    BY <1>2, <2>2, Zenon DEF LoopStep, Acquire, TakeNode, DecideToWait, Sleep, LeaveLoop, SpuriousWakeup,
                      CheckStart, ParkExpensiveNode, AdvanceCompleted, nodeVars
  <2>3. CASE AdvanceInitial(t)
    <3>1. PICK y \in {"kBlocked", "kUnblocked"} : progress' = [progress EXCEPT ![cur[t]] = y]
      BY <2>3, Zenon DEF AdvanceInitial
    <3> QED
      BY <1>3, <2>1, <2>3, <3>1, Zenon DEF AdvanceInitial, Advancing
  <2>4. CASE AdvanceBlocked(t)
    BY <1>3, <2>1, <2>4, Zenon DEF AdvanceBlocked, Advancing
  <2>5. CASE RunActionEmpty(t)
    BY <1>4, <2>1, <2>5, Zenon DEF RunActionEmpty, Advancing
  <2>6. CASE AdvanceSucceeded(t)
    BY <1>5, <2>1, <2>6, Zenon DEF AdvanceSucceeded, Advancing
  <2>7. CASE AdvanceFailed(t)
    BY <1>6, <2>1, <2>7, Zenon DEF AdvanceFailed, Advancing
  <2> QED
    BY <1>7, <2>2, <2>3, <2>4, <2>5, <2>6, <2>7 DEF QuietStep
<1>8. CASE DriverStep \/ SignalSet \/ UNCHANGED vars
  BY <1>2, <1>8, Zenon DEF DriverStep, StartPass, PassBroadcast, EndPass, QuitSignal, QuitBroadcast, JoinWorkers,
                    SignalSet, vars, nodeVars
<1> QED
  BY <1>7, <1>8

\* Which steps there are.
LEMMA Effects ==
  ASSUME QueueInv, [SessionNext]_sessionVars
  PROVE  FileStep
<1>1. ASSUME NEW t \in Thread, CheckInputSignature(t) \/ StartAction(t) \/ EndAction(t)
      PROVE  \E n \in Node : SignStep(n) \/ SpoilStep(n) \/ MakeStep(n)
  BY <1>1, SignEffect, StartEffect, EndEffect DEF SignStep, SpoilStep, MakeStep
<1>2. CASE UNCHANGED sessionVars
  BY <1>2, StillEffect DEF sessionVars, FileStep
<1>3. CASE NoMoreSessions
  BY <1>3, StillEffect DEF NoMoreSessions, sessionVars, FileStep
<1>4. CASE BuildStep
  BY <1>1, <1>4, StillEffect DEF BuildStep, FileStep
<1> QED
  BY <1>2, <1>3, <1>4 DEF SessionNext, FileStep

-----------------------------------------------------------------------------
(* The properties. *)

\* The inductive invariant.
SessionInv == QueueInv /\ DataInv /\ SignedInv /\ CleanInv /\ KillInv /\ SettledInv

\* It holds before the first build.
LEMMA SessionInvInit == SessionInit => SessionInv
<1> SUFFICES ASSUME SessionInit PROVE SessionInv
  OBVIOUS
<1>1. QueueInv
  BY QueueInit DEF SessionInit
<1>2. /\ \A n \in Node : Unsigned(n) /\ ~Made(n) /\ progress[n] = "kInitial"
      /\ \A n \in Node : saved[n].buildResult # 0 /\ disk[n] = Missing
      /\ session = 1 /\ ~settled
  BY DEF SessionInit, Init, Unsigned, Made, Completed, NoState
<1>3. DataInv
  BY <1>2, Files DEF SessionInit, DataInv
<1>4. SignedInv /\ CleanInv /\ SettledInv
  BY <1>2 DEF SignedInv, Signed, CleanInv, SettledInv
<1>5. KillInv
  <2> DEFINE R == {<<n, Missing>> : n \in NoAction}
  <2>1. Past({}) /\ Recorded({}, R)
    BY <1>2 DEF Past, Recorded
  <2>2. Known({}, R)
    <3>1. \A n \in Node : \A f : <<n, f>> \in R <=> n \in NoAction /\ f = Missing
      OBVIOUS
    <3> HIDE DEF R
    <3> QED
      BY <1>2, <3>1, DagAssumption DEF Known
  <2> QED
    BY <2>1, <2>2 DEF KillInv
<1> QED
  BY <1>1, <1>3, <1>4, <1>5 DEF SessionInv

\* Every step keeps it.
LEMMA SessionInvStep ==
  ASSUME NoLimit, NoMixing
  PROVE  SessionInv /\ [SessionNext]_sessionVars => SessionInv'
<1> SUFFICES ASSUME SessionInv, [SessionNext]_sessionVars PROVE SessionInv'
  OBVIOUS
<1>1. QueueInv /\ QueueInv' /\ QueueFacts /\ NothingParked /\ FileStep
  BY QueueStep, QueueGivesFacts, Effects DEF SessionInv
<1> QED
  BY <1>1, DataStep, SignedStep, CleanStep, KillStep, SettledStep DEF SessionInv

\* It holds in every state of every sequence of builds.
LEMMA SessionAlways ==
  ASSUME NoLimit, NoMixing
  PROVE  SessionSpec => []SessionInv
  BY SessionInvInit, SessionInvStep, PTL DEF SessionSpec

\* CheckInputSignature calls a target up to date only if its output was made,
\* by an action that went through, from the inputs as they are signed now: for
\* every DAG, with timestamps or digests, after any number of builds, whatever
\* was edited in the meantime, and with builds that were killed or outputs that
\* were removed.
THEOREM UpToDateIsBuiltHolds ==
  ASSUME NoLimit, NoMixing
  PROVE  SessionSpec => []UpToDateIsBuilt
<1>1. SessionInv => UpToDateIsBuilt
  BY DEF SessionInv, SignedInv, Signed, UpToDateIsBuilt
<1> QED
  BY <1>1, SessionAlways, PTL

\* A build that reports success, and under which no source changed, leaves
\* every output as its current inputs make it.
THEOREM SuccessMeansCurrentHolds ==
  ASSUME NoLimit, NoMixing
  PROVE  SessionSpec => []SuccessMeansCurrent
<1>1. SessionInv => SuccessMeansCurrent
  BY QueueGivesFacts, SuccessIsCurrent DEF SessionInv, SuccessMeansCurrent
<1> QED
  BY <1>1, SessionAlways, PTL

\* After such a build, and until something is touched, no build runs an action.
THEOREM NothingToDoHolds ==
  ASSUME NoLimit, NoMixing
  PROVE  SessionSpec => []NothingToDo
<1>1. SessionInv => NothingToDo
  <2> SUFFICES ASSUME SessionInv, settled, NEW t \in Thread, pc[t] = "Run" PROVE FALSE
    BY DEF NothingToDo
  <2>1. cur[t] \in Node /\ progress[cur[t]] = "kRunAction"
    BY DEF SessionInv, QueueInv, BaseInv, CurInv, BusyAt, NodeInv, ThreadInv
  <2> QED
    BY <2>1, Zenon DEF SessionInv, SettledInv, Unsigned, Made, Completed
<1> QED
  BY <1>1, SessionAlways, PTL

=============================================================================
