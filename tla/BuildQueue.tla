----------------------------- MODULE BuildQueue -----------------------------
(***************************************************************************)
(* The build queue of src/src/BuildQueue.cpp: the build threads, the one   *)
(* mutex (m_Lock) and condition variable (m_WorkAvailable) they share, the *)
(* FIFO of runnable nodes, the stack of parked expensive nodes, the state  *)
(* machine every node goes through, the pass loop of DriverBuild and the   *)
(* signal flag of SignalHandler.cpp.                                       *)
(*                                                                         *)
(* One action is one stretch of code between two points at which another   *)
(* thread can observe the queue.  A thread that holds m_Lock goes through  *)
(* the cases of AdvanceNode's switch one action at a time: only the signal *)
(* handler, a spurious wakeup or a broadcast made without the lock can     *)
(* come in between, exactly as in the program.                             *)
(*                                                                         *)
(* What a node's signature check and its action decide is left open here   *)
(* (CheckDone, RunDone); module Session decides it from files on disk.     *)
(***************************************************************************)
EXTENDS Integers, Sequences, FiniteSets, Functions

CONSTANTS
  Node,               \* entries of m_NodeState: the nodes selected for this build
  NoNode,             \* no node
  Deps,               \* Deps[n]: m_Dependencies of n
  PassOf,             \* PassOf[n]: m_PassIndex of n
  PassCount,          \* number of passes of the DAG
  Expensive,          \* nodes with kFlagExpensive
  NoAction,           \* nodes whose m_Action is empty
  Main,               \* build thread 0, which is the driver's thread
  Worker,             \* build threads 1 .. m_ThreadCount-1
  NoThread,           \* no thread
  MaxExpensiveCount,  \* the DAG's m_MaxExpensiveCount (negative: not given)
  ContinueOnError     \* kFlagContinueOnError, option -k

Thread == Worker \cup {Main}

ASSUME ThreadAssumption ==
  /\ IsFiniteSet(Worker)
  /\ Main \notin Worker
  /\ NoThread \notin Thread
  /\ MaxExpensiveCount \in Int
  /\ ContinueOnError \in BOOLEAN

\* The front end rejects a dependency on a node of a later pass, and
\* DriverPrepareNodes selects every dependency of a selected node.
ASSUME DagAssumption ==
  /\ IsFiniteSet(Node)
  /\ NoNode \notin Node
  /\ PassCount \in Nat
  /\ PassOf \in [Node -> 0 .. PassCount - 1]
  /\ Deps \in [Node -> SUBSET Node]
  /\ \A n \in Node : \A d \in Deps[n] : PassOf[d] <= PassOf[n]
  /\ Expensive \in SUBSET Node
  /\ NoAction \in SUBSET Node

VARIABLES
  progress,           \* m_Progress of every node
  queued,             \* nodes with kQueued set
  active,             \* nodes with kActive set
  result,             \* m_BuildResult of every node
  queue,              \* m_Queue between m_QueueReadIndex and m_QueueWriteIndex
  waitList,           \* m_ExpensiveWaitList, top of the stack last
  expensiveRunning,   \* m_ExpensiveRunning
  pending,            \* m_PendingNodeCount
  failed,             \* m_FailedNodeCount
  currentPass,        \* m_CurrentPassIndex
  quit,               \* m_QuitSignalled
  lock,               \* the holder of m_Lock
  pc,                 \* where every build thread is
  cur,                \* the node a thread advances (AdvanceNode's argument)
  signalled,          \* s_SignalInfo.m_Reason is set
  buildResult         \* DriverBuild's build_result

nodeVars  == <<progress, queued, active, result>>
queueVars == <<queue, waitList, expensiveRunning>>
countVars == <<pending, failed, currentPass, quit>>
vars == <<nodeVars, queueVars, countVars, lock, pc, cur, signalled, buildResult>>

Progress == {"kInitial", "kBlocked", "kUnblocked", "kRunAction",
             "kSucceeded", "kUpToDate", "kFailed", "kCompleted"}

(***************************************************************************)
(* Where a thread is.  Main only: Pass, PassWake (BuildQueueBuildNodeRange *)
(* before BuildLoop), Result (after it), Quit, QuitWake, Join, Done        *)
(* (BuildQueueDestroy).  Lock: blocked in MutexLock on the way into the    *)
(* loop.  Loop: at the head of BuildLoop's while.  Wait: about to call     *)
(* CondWait.  Asleep: inside CondWait.  Advance: in AdvanceNode's switch.  *)
(* Check, Run: in the unlocked part of CheckInputSignature, RunAction.     *)
(***************************************************************************)
BusyAt == {"Advance", "Check", "Run"}
LockedAt == {"Loop", "Wait", "Advance"}
MainAt == {"Pass", "PassWake", "Result", "Quit", "QuitWake", "Join", "Done"}
Place == BusyAt \cup LockedAt \cup MainAt \cup {"Lock", "Asleep", "Exited"}

-----------------------------------------------------------------------------
(* Helpers. *)

ThreadCount == Cardinality(Worker) + 1

\* DriverBuild's clamp of the DAG's limit on expensive jobs.
MaxExpensive ==
  CASE MaxExpensiveCount < 0           -> ThreadCount
    [] MaxExpensiveCount > ThreadCount -> ThreadCount
    [] MaxExpensiveCount = 0           -> 1
    [] OTHER                           -> MaxExpensiveCount

Completed(n) == progress[n] = "kCompleted"

AllDependenciesReady(n) == \A d \in Deps[n] : Completed(d)

\* The sequences that list every element of S once.  The order in which the
\* code walks a dependency or back-link array is the DAG's, hence arbitrary.
Orderings(S) == Bijection(1 .. Cardinality(S), S)

\* CondBroadcast: every sleeper has to get hold of the mutex again.
CondBroadcast(p) == [t \in Thread |-> IF p[t] = "Asleep" THEN "Lock" ELSE p[t]]

\* CondSignal: one sleeper wakes, if there is one.
CondSignal(p) ==
  IF \E t \in Thread : p[t] = "Asleep"
  THEN {[p EXCEPT ![t] = "Lock"] : t \in {u \in Thread : p[u] = "Asleep"}}
  ELSE {p}

\* What pc can be after WakeWaiters, which is called for a positive count only.
WakeWaiters(count, p) ==
  CASE count = 0 -> {p}
    [] count = 1 -> CondSignal(p)
    [] OTHER     -> {CondBroadcast(p)}

\* Slip: -k is ignored.
ShouldKeepBuilding_NoContinue(t) ==
  ~signalled /\ failed = 0 /\ ~quit /\ (t = Main => pending > 0)

ShouldKeepBuilding(t) ==
  /\ ~signalled
  /\ failed > 0 => ContinueOnError
  /\ ~quit
  /\ t = Main => pending > 0

\* Thread t is in AdvanceNode with a node whose progress is p.
Advancing(t, p) == pc[t] = "Advance" /\ progress[cur[t]] = p

NodesOfPass(p) == {n \in Node : PassOf[n] = p}

-----------------------------------------------------------------------------
(* BuildLoop. *)

\* MutexLock on entry of BuildLoop, or at the end of CondWait.
Acquire(t) ==
  /\ pc[t] = "Lock" /\ lock = NoThread
  /\ lock' = t
  /\ pc' = [pc EXCEPT ![t] = "Loop"]
  /\ UNCHANGED <<nodeVars, queueVars, countVars, cur, signalled, buildResult>>

\* NextNode takes the head of the queue.
TakeNode(t) ==
  /\ pc[t] = "Loop" /\ ShouldKeepBuilding(t)
  /\ queue # <<>>
  /\ queue' = Tail(queue)
  /\ queued' = queued \ {Head(queue)}
  /\ active' = active \cup {Head(queue)}
  /\ cur' = [cur EXCEPT ![t] = Head(queue)]
  /\ pc' = [pc EXCEPT ![t] = "Advance"]
  /\ UNCHANGED <<progress, result, waitList, expensiveRunning, countVars,
                 lock, signalled, buildResult>>

\* Nothing to take: the thread is going to wait, and still has the mutex.  A
\* signal that arrives now is broadcast before the thread sleeps.
DecideToWait(t) ==
  /\ pc[t] = "Loop" /\ ShouldKeepBuilding(t)
  /\ queue = <<>>
  /\ pc' = [pc EXCEPT ![t] = "Wait"]
  /\ UNCHANGED <<nodeVars, queueVars, countVars, lock, cur, signalled, buildResult>>

\* CondWait releases the mutex and sleeps in one step.
Sleep(t) ==
  /\ pc[t] = "Wait"
  /\ lock' = NoThread
  /\ pc' = [pc EXCEPT ![t] = "Asleep"]
  /\ UNCHANGED <<nodeVars, queueVars, countVars, cur, signalled, buildResult>>

SpuriousWakeup(t) ==
  /\ pc[t] = "Asleep"
  /\ pc' = [pc EXCEPT ![t] = "Lock"]
  /\ UNCHANGED <<nodeVars, queueVars, countVars, lock, cur, signalled, buildResult>>

LeaveLoop(t) ==
  /\ pc[t] = "Loop" /\ ~ShouldKeepBuilding(t)
  /\ lock' = NoThread
  /\ pc' = [pc EXCEPT ![t] = IF t = Main THEN "Result" ELSE "Exited"]
  /\ UNCHANGED <<nodeVars, queueVars, countVars, cur, signalled, buildResult>>

-----------------------------------------------------------------------------
(* AdvanceNode, one action per case of the switch. *)

\* SetupDependencies: the node blocks when a dependency is not completed, and
\* a dependency that nobody looks after is enqueued.
AdvanceInitial(t) ==
  LET n     == cur[t]
      waits == {d \in Deps[n] : ~Completed(d)}
      fresh == {d \in waits : d \notin queued \cup active /\ progress[d] # "kBlocked"}
  IN /\ Advancing(t, "kInitial")
     /\ \E s \in Orderings(fresh) : queue' = queue \o s
     /\ queued' = queued \cup fresh
     /\ progress' = [progress EXCEPT ![n] = IF waits = {} THEN "kUnblocked" ELSE "kBlocked"]
     /\ active' = IF waits = {} THEN active ELSE active \ {n}
     /\ cur' = IF waits = {} THEN cur ELSE [cur EXCEPT ![t] = NoNode]
     /\ pc' \in WakeWaiters(Cardinality(fresh),
                            IF waits = {} THEN pc ELSE [pc EXCEPT ![t] = "Loop"])
     /\ UNCHANGED <<result, waitList, expensiveRunning, countVars, lock, signalled, buildResult>>

AdvanceBlocked(t) ==
  /\ Advancing(t, "kBlocked")
  /\ progress' = [progress EXCEPT ![cur[t]] = "kUnblocked"]
  /\ UNCHANGED <<queued, active, result, queueVars, countVars, lock, pc, cur, signalled, buildResult>>

\* CheckInputSignature drops the mutex while it signs the inputs ...
CheckStart(t) ==
  /\ Advancing(t, "kUnblocked")
  /\ lock' = NoThread
  /\ pc' = [pc EXCEPT ![t] = "Check"]
  /\ UNCHANGED <<nodeVars, queueVars, countVars, cur, signalled, buildResult>>

\* ... and takes it again to report whether the action has to run.
CheckDone(t) ==
  /\ pc[t] = "Check" /\ lock = NoThread
  /\ \E next \in {"kRunAction", "kUpToDate"} :
        progress' = [progress EXCEPT ![cur[t]] = next]
  /\ lock' = t
  /\ pc' = [pc EXCEPT ![t] = "Advance"]
  /\ UNCHANGED <<queued, active, result, queueVars, countVars, cur, signalled, buildResult>>

\* Slip: a finished expensive job lets no parked one in.
AfterRunAction_NoUnpark(n, p) ==
  /\ expensiveRunning' = IF n \in Expensive THEN expensiveRunning - 1 ELSE expensiveRunning
  /\ pc' = p
  /\ UNCHANGED <<queued, active, queue, waitList>>

\* What AdvanceNode does once RunAction is over: an expensive node makes room
\* and UnparkExpensiveNode moves the node parked last to the queue, waking one
\* thread.  p is pc with the step of the calling thread already made.
AfterRunAction(n, p) ==
  IF n \notin Expensive
  THEN pc' = p /\ UNCHANGED <<queued, active, queueVars>>
  ELSE /\ expensiveRunning' = expensiveRunning - 1
       /\ IF waitList = <<>>
          THEN pc' = p /\ UNCHANGED <<queued, active, queue, waitList>>
          ELSE LET parked == waitList[Len(waitList)]
               IN /\ waitList' = SubSeq(waitList, 1, Len(waitList) - 1)
                  /\ queue' = Append(queue, parked)
                  /\ queued' = queued \cup {parked}
                  /\ active' = active \ {parked}
                  /\ pc' \in CondSignal(p)

\* A node without an action succeeds on the spot, before the expensive count.
RunActionEmpty(t) ==
  /\ Advancing(t, "kRunAction")
  /\ cur[t] \in NoAction
  /\ progress' = [progress EXCEPT ![cur[t]] = "kSucceeded"]
  /\ AfterRunAction(cur[t], pc)
  /\ UNCHANGED <<result, countVars, lock, cur, signalled, buildResult>>

\* The limit is reached: the node is parked, flagged queued but still active.
ParkExpensiveNode(t) ==
  /\ Advancing(t, "kRunAction")
  /\ cur[t] \in Expensive \ NoAction
  /\ expensiveRunning = MaxExpensive
  /\ queued' = queued \cup {cur[t]}
  /\ waitList' = Append(waitList, cur[t])
  /\ cur' = [cur EXCEPT ![t] = NoNode]
  /\ pc' = [pc EXCEPT ![t] = "Loop"]
  /\ UNCHANGED <<progress, active, result, queue, expensiveRunning, countVars,
                 lock, signalled, buildResult>>

\* Slip: the expensive job is not counted.
RunActionStart_NotCounted(t) ==
  /\ Advancing(t, "kRunAction")
  /\ cur[t] \notin NoAction
  /\ lock' = NoThread
  /\ pc' = [pc EXCEPT ![t] = "Run"]
  /\ UNCHANGED <<nodeVars, queueVars, countVars, cur, signalled, buildResult>>

\* RunAction drops the mutex and runs the pre-action and the action.
RunActionStart(t) ==
  /\ Advancing(t, "kRunAction")
  /\ cur[t] \notin NoAction
  /\ cur[t] \in Expensive => expensiveRunning # MaxExpensive
  /\ expensiveRunning' = expensiveRunning + (IF cur[t] \in Expensive THEN 1 ELSE 0)
  /\ lock' = NoThread
  /\ pc' = [pc EXCEPT ![t] = "Run"]
  /\ UNCHANGED <<nodeVars, queue, waitList, countVars, cur, signalled, buildResult>>

\* The action is over.  A child killed by a signal counts as a failure and, by
\* SignalSet, stops the build.
RunDone(t) ==
  /\ pc[t] = "Run" /\ lock = NoThread
  /\ lock' = t
  /\ \E outcome \in {"succeeded", "failed", "signalled"} :
       LET p == [pc EXCEPT ![t] = "Advance"]
       IN /\ progress' = [progress EXCEPT ![cur[t]] =
                            IF outcome = "succeeded" THEN "kSucceeded" ELSE "kFailed"]
          /\ signalled' = (signalled \/ outcome = "signalled")
          /\ AfterRunAction(cur[t], IF outcome = "signalled" THEN CondBroadcast(p) ELSE p)
  /\ UNCHANGED <<result, countVars, cur, buildResult>>

AdvanceSucceeded(t) ==
  /\ Advancing(t, "kSucceeded") \/ Advancing(t, "kUpToDate")
  /\ result' = [result EXCEPT ![cur[t]] = 0]
  /\ progress' = [progress EXCEPT ![cur[t]] = "kCompleted"]
  /\ UNCHANGED <<queued, active, queueVars, countVars, lock, pc, cur, signalled, buildResult>>

AdvanceFailed(t) ==
  /\ Advancing(t, "kFailed")
  /\ failed' = failed + 1
  /\ pc' = CondBroadcast(pc)
  /\ result' = [result EXCEPT ![cur[t]] = 1]
  /\ progress' = [progress EXCEPT ![cur[t]] = "kCompleted"]
  /\ UNCHANGED <<queued, active, queueVars, pending, currentPass, quit, lock, cur,
                 signalled, buildResult>>

\* Slip: one finished dependency is enough.
ReadyWaiters_AnyDependency(n) ==
  {w \in NodesOfPass(currentPass) : n \in Deps[w] /\ w \notin queued \cup active}

\* Slip: the flags are not looked at.
ReadyWaiters_NoFlags(n) ==
  {w \in NodesOfPass(currentPass) : n \in Deps[w] /\ AllDependenciesReady(w)}

\* Slip: the pass index is off by one.
ReadyWaiters_WrongPass(n) ==
  {w \in NodesOfPass(currentPass + 1) :
      n \in Deps[w] /\ AllDependenciesReady(w) /\ w \notin queued \cup active}

\* The waiters UnblockWaiters enqueues when n is completed.
ReadyWaiters(n) ==
  {w \in NodesOfPass(currentPass) :
      /\ n \in Deps[w]
      /\ AllDependenciesReady(w)
      /\ w \notin queued \cup active}

\* Slip: only threads that find work are woken.
AdvanceCompleted_NoBroadcast(t) ==
  LET woken == ReadyWaiters(cur[t])
  IN /\ Advancing(t, "kCompleted")
     /\ pending' = pending - 1
     /\ \E s \in Orderings(woken) : queue' = queue \o s
     /\ queued' = queued \cup woken
     /\ cur' = [cur EXCEPT ![t] = NoNode]
     /\ pc' \in WakeWaiters(Cardinality(woken), [pc EXCEPT ![t] = "Loop"])
     /\ UNCHANGED <<progress, active, result, waitList, expensiveRunning, failed,
                    currentPass, quit, lock, signalled, buildResult>>

\* The broadcast after UnblockWaiters subsumes the wakeup inside it.  A
\* completed node stays flagged active.
AdvanceCompleted(t) ==
  LET woken == ReadyWaiters(cur[t])
  IN /\ Advancing(t, "kCompleted")
     /\ pending' = pending - 1
     /\ \E s \in Orderings(woken) : queue' = queue \o s
     /\ queued' = queued \cup woken
     /\ cur' = [cur EXCEPT ![t] = NoNode]
     /\ pc' = CondBroadcast([pc EXCEPT ![t] = "Loop"])
     /\ UNCHANGED <<progress, active, result, waitList, expensiveRunning, failed,
                    currentPass, quit, lock, signalled, buildResult>>

-----------------------------------------------------------------------------
(* The driver's thread: DriverBuild's pass loop, BuildQueueBuildNodeRange   *)
(* and BuildQueueDestroy.                                                   *)

\* All nodes of the pass are queued, whether their dependencies are ready or not.
StartPass ==
  LET nodes == NodesOfPass(currentPass + 1)
  IN /\ pc[Main] = "Pass" /\ lock = NoThread
     /\ currentPass' = currentPass + 1
     /\ queued' = queued \cup nodes
     /\ queue' \in Orderings(nodes)
     /\ pending' = Cardinality(nodes)
     /\ failed' = 0
     /\ pc' = [pc EXCEPT ![Main] = "PassWake"]
     /\ UNCHANGED <<progress, active, result, waitList, expensiveRunning, quit,
                    lock, cur, signalled, buildResult>>

PassBroadcast ==
  /\ pc[Main] = "PassWake"
  /\ pc' = CondBroadcast([pc EXCEPT ![Main] = "Lock"])
  /\ UNCHANGED <<nodeVars, queueVars, countVars, lock, cur, signalled, buildResult>>

\* Slip: with -k a failed pass counts as built.
EndPass_ContinueMeansOk ==
  /\ pc[Main] = "Result"
  /\ buildResult' = CASE signalled  -> "kInterrupted"
                      [] ~signalled /\ failed > 0 /\ ~ContinueOnError -> "kBuildError"
                      [] OTHER -> "kOk"
  /\ pc' = [pc EXCEPT ![Main] =
              IF buildResult' = "kOk" /\ currentPass + 1 < PassCount THEN "Pass" ELSE "Quit"]
  /\ UNCHANGED <<nodeVars, queueVars, countVars, lock, cur, signalled>>

\* The end of BuildQueueBuildNodeRange, which reads m_FailedNodeCount without
\* the mutex, and the condition of DriverBuild's loop.
EndPass ==
  /\ pc[Main] = "Result"
  /\ buildResult' = CASE signalled  -> "kInterrupted"
                      [] ~signalled /\ failed > 0 -> "kBuildError"
                      [] OTHER -> "kOk"
  /\ pc' = [pc EXCEPT ![Main] =
              IF buildResult' = "kOk" /\ currentPass + 1 < PassCount THEN "Pass" ELSE "Quit"]
  /\ UNCHANGED <<nodeVars, queueVars, countVars, lock, cur, signalled>>

QuitSignal ==
  /\ pc[Main] = "Quit" /\ lock = NoThread
  /\ quit' = TRUE
  /\ pc' = [pc EXCEPT ![Main] = "QuitWake"]
  /\ UNCHANGED <<nodeVars, queueVars, pending, failed, currentPass, lock, cur,
                 signalled, buildResult>>

QuitBroadcast ==
  /\ pc[Main] = "QuitWake"
  /\ pc' = CondBroadcast([pc EXCEPT ![Main] = "Join"])
  /\ UNCHANGED <<nodeVars, queueVars, countVars, lock, cur, signalled, buildResult>>

JoinWorkers ==
  /\ pc[Main] = "Join"
  /\ \A t \in Worker : pc[t] = "Exited"
  /\ pc' = [pc EXCEPT ![Main] = "Done"]
  /\ UNCHANGED <<nodeVars, queueVars, countVars, lock, cur, signalled, buildResult>>

\* SignalSet on the signal handler's thread: it has s_SignalMutex, not m_Lock.
\* The thread waits for one signal and then returns.
SignalSet ==
  /\ ~signalled
  /\ pc[Main] # "Done"
  /\ signalled' = TRUE
  /\ pc' = CondBroadcast(pc)
  /\ UNCHANGED <<nodeVars, queueVars, countVars, lock, cur, buildResult>>

-----------------------------------------------------------------------------

\* After BuildQueueInit: the workers are on their way into BuildLoop.
Init ==
  /\ progress = [n \in Node |-> "kInitial"]
  /\ result = [n \in Node |-> 0]
  /\ queued = {} /\ active = {}
  /\ queue = <<>> /\ waitList = <<>> /\ expensiveRunning = 0
  /\ pending = 0 /\ failed = 0 /\ currentPass = -1 /\ quit = FALSE
  /\ lock = NoThread
  /\ pc = [t \in Thread |-> IF t # Main THEN "Lock"
                            ELSE IF PassCount > 0 THEN "Pass" ELSE "Quit"]
  /\ cur = [t \in Thread |-> NoNode]
  /\ signalled = FALSE
  /\ buildResult = "kOk"

LoopStep(t) ==
  Acquire(t) \/ TakeNode(t) \/ DecideToWait(t) \/ Sleep(t) \/ LeaveLoop(t)

AdvanceStep(t) ==
  \/ AdvanceInitial(t) \/ AdvanceBlocked(t) \/ CheckStart(t) \/ CheckDone(t)
  \/ RunActionEmpty(t) \/ ParkExpensiveNode(t) \/ RunActionStart(t) \/ RunDone(t)
  \/ AdvanceSucceeded(t) \/ AdvanceFailed(t) \/ AdvanceCompleted(t)

DriverStep ==
  StartPass \/ PassBroadcast \/ EndPass \/ QuitSignal \/ QuitBroadcast \/ JoinWorkers

\* The process is about to leave DriverBuild.
Finished == pc[Main] = "Done" /\ UNCHANGED vars

Next ==
  \/ \E t \in Thread : LoopStep(t) \/ AdvanceStep(t) \/ SpuriousWakeup(t)
  \/ DriverStep
  \/ SignalSet
  \/ Finished

Spec == Init /\ [][Next]_vars

-----------------------------------------------------------------------------
(* Fairness.  The scheduler runs every build thread, a mutex that stays     *)
(* free is acquired by a thread that asks for it, and a child process ends. *)
(* Nothing is assumed of SignalSet; spurious wakeups are finitely many.     *)

Fairness ==
  /\ \A t \in Thread : WF_vars(LoopStep(t) \/ AdvanceStep(t))
  /\ WF_vars(DriverStep)
  /\ <>[][\A t \in Thread : ~SpuriousWakeup(t)]_vars

FairSpec == Spec /\ Fairness

-----------------------------------------------------------------------------
(* Properties. *)

\* The threads that are in AdvanceNode, and the nodes they advance.
Busy == {t \in Thread : pc[t] \in BusyAt}
Held == {cur[t] : t \in Busy}

TypeOK ==
  /\ progress \in [Node -> Progress]
  /\ queued \in SUBSET Node /\ active \in SUBSET Node
  /\ result \in [Node -> {0, 1}]
  /\ queue \in Seq(Node) /\ waitList \in Seq(Node)
  /\ expensiveRunning \in Int
  /\ pending \in Int /\ failed \in Nat
  /\ currentPass \in -1 .. PassCount - 1
  /\ quit \in BOOLEAN
  /\ lock \in Thread \cup {NoThread}
  /\ pc \in [Thread -> Place]
  /\ cur \in [Thread -> Node \cup {NoNode}]
  /\ signalled \in BOOLEAN
  /\ buildResult \in {"kOk", "kInterrupted", "kBuildError"}

\* No thread signs the inputs of a node or runs its action before all the
\* node's dependencies are completed; unless -k was given, none of them may
\* have failed (SetupDependencies, UnblockWaiters, ShouldKeepBuilding).
DependenciesFirst ==
  \A t \in Thread : pc[t] \in {"Check", "Run"} =>
    \A d \in Deps[cur[t]] : Completed(d) /\ (result[d] = 1 => ContinueOnError)

\* A node is in one place only: in the hands of one thread, once in the queue,
\* or once in the wait list.  RunAction and CheckInputSignature work on a node
\* without the mutex, so a second owner would be a data race.
ExclusiveOwnership ==
  /\ \A t, u \in Busy : cur[t] = cur[u] => t = u
  /\ IsInjective(queue) /\ IsInjective(waitList)
  /\ Held \cap (Range(queue) \cup Range(waitList)) = {}
  /\ Range(queue) \cap Range(waitList) = {}

\* A node of the running pass that is not finished is never forgotten: it is
\* queued, parked, held, or it waits for a dependency that is still to report
\* (the hand-over between SetupDependencies and UnblockWaiters).
NoLostNode ==
  \A n \in NodesOfPass(currentPass) :
    \/ Completed(n)
    \/ n \in Range(queue) \cup Range(waitList) \cup Held
    \/ progress[n] = "kBlocked" /\ \E d \in Deps[n] : ~Completed(d) \/ d \in Held

\* Passes are barriers: a node of a later pass is untouched, and the nodes of
\* earlier passes have all been completed without an error.
PassBarrier ==
  \A n \in Node :
    /\ PassOf[n] > currentPass => progress[n] = "kInitial" /\ n \notin queued \cup active
    /\ PassOf[n] < currentPass => Completed(n) /\ result[n] = 0 /\ n \notin Held

\* m_ExpensiveRunning counts the expensive actions that are running, and they
\* are never more than the limit (RunAction, AdvanceNode).
ExpensiveLimit ==
  /\ expensiveRunning = Cardinality({t \in Thread : pc[t] = "Run" /\ cur[t] \in Expensive})
  /\ expensiveRunning <= MaxExpensive

\* A parked node never waits for nobody: while the wait list is not empty as
\* many expensive nodes as the limit allows run or are on their way back from
\* the wait list (UnparkExpensiveNode moves one node per finished job).
ParkedHasWaker ==
  waitList # <<>> =>
     expensiveRunning + Cardinality({n \in Expensive \cap (Range(queue) \cup Held) :
          progress[n] = "kRunAction" /\ \A t \in Thread : pc[t] = "Run" => cur[t] # n})
       >= MaxExpensive

\* m_PendingNodeCount is the number of nodes of the pass that have not been
\* through UnblockWaiters: the main thread leaves its loop on it.
PendingExact ==
  currentPass >= 0 =>
    pending = Cardinality({n \in NodesOfPass(currentPass) : ~Completed(n) \/ n \in Held})

\* The CHECKs of NextNode, AdvanceNode and Enqueue on the flags and progress of
\* the node they are given hold whenever the code gets there.
AssertionsHold ==
  /\ Range(queue) \subseteq queued \ active
  /\ Held \subseteq active \ queued
  /\ expensiveRunning >= 0
  /\ \A t \in Thread : Advancing(t, "kBlocked") => AllDependenciesReady(cur[t])
  /\ \A n \in Range(queue) : ~Completed(n) /\ PassOf[n] = currentPass

\* DriverBuild reports success only if every selected node is completed with
\* result 0, and an error only if some node failed.
ResultSound ==
  pc[Main] \in {"Quit", "QuitWake", "Join", "Done"} =>
    /\ buildResult = "kOk" => \A n \in Node : Completed(n) /\ result[n] = 0
    /\ buildResult = "kBuildError" => \E n \in Node : Completed(n) /\ result[n] = 1

\* CHECK(queue->m_ExpensiveRunning >= 0) in AdvanceNode, on its own.
ExpensiveCountNotNegative == expensiveRunning >= 0

\* When BuildQueueDestroy has joined the workers no node is half-way through:
\* what DriverSaveBuildState reads is final.  A node left in kRunAction is an
\* expensive one whose action was never started.
QuietAtExit ==
  pc[Main] = "Done" =>
    /\ Busy = {}
    /\ \A n \in Node : progress[n] \in {"kInitial", "kBlocked", "kRunAction", "kCompleted"}
    /\ \A n \in Node : progress[n] = "kRunAction" => n \in Expensive

\* With -k, errors do not keep any node of the pass from being completed.
KeepGoing ==
  pc[Main] = "Result" /\ ~signalled /\ ContinueOnError =>
    \A n \in NodesOfPass(currentPass) : Completed(n)

\* The build always ends: no wakeup is lost for good, whatever the order in
\* which jobs finish, fail, are parked or a signal arrives.
Terminates == <>(pc[Main] = "Done")

-----------------------------------------------------------------------------
(* The queue implements BuildOrder.  Only the mutex's holder sees a node    *)
(* between the end of its action and kCompleted, so the node counts as      *)
(* finished as soon as its outcome is known.                                *)

StageOf(n) ==
  CASE progress[n] \in {"kInitial", "kBlocked"} -> "waiting"
    [] progress[n] = "kUnblocked" -> "checking"
    [] progress[n] = "kRunAction" ->
         IF \E t \in Thread : pc[t] = "Run" /\ cur[t] = n THEN "running" ELSE "checking"
    [] progress[n] \in {"kSucceeded", "kUpToDate"} -> "ok"
    [] progress[n] = "kFailed" -> "failed"
    [] OTHER -> IF result[n] = 0 THEN "ok" ELSE "failed"

Order == INSTANCE BuildOrder WITH
           Limit <- MaxExpensive, pass <- currentPass,
           stage <- [n \in Node |-> StageOf(n)]

\* Whatever the threads do, every node is checked at most once and run at most
\* once, in an order, and within the limits, that BuildOrder allows.
ImplementsBuildOrder == Order!Spec

=============================================================================
