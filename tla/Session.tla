------------------------------ MODULE Session ------------------------------
(***************************************************************************)
(* A sequence of builds of one DAG.  BuildQueue is composed with the files *)
(* on disk and with the state file that DriverSaveBuildState leaves for    *)
(* the next build: here the signature check of CheckInputSignature decides *)
(* from them, and RunAction changes them.                                  *)
(*                                                                         *)
(* Every node with an action has one output and reads one source file and  *)
(* the outputs of its dependencies.  A file on disk is what it was made    *)
(* from and a stamp: under timestamps the stamp tells apart the builds     *)
(* that wrote the file, under content digests it is always the same.  Two  *)
(* files are then equal exactly when their signatures are.                 *)
(***************************************************************************)
EXTENDS BuildQueue

CONSTANTS
  Precious,      \* nodes with kFlagPreciousOutputs
  Overwrite,     \* nodes with kFlagOverwriteOutputs
  MaxEdits,      \* bound: sources have versions 0 .. MaxEdits
  MaxSessions,   \* bound: how many builds there are
  Regimes        \* under which circumstances the builds may take place

ASSUME SessionAssumption ==
  /\ Precious \in SUBSET Node /\ Overwrite \in SUBSET Node
  /\ MaxEdits \in Nat /\ MaxSessions \in Nat
  /\ Regimes \subseteq [digest : BOOLEAN, crash : BOOLEAN, remove : BOOLEAN]

\* regime.digest: files are signed by content (ContentDigestExtensions);
\* regime.crash: the process may be killed before it saves its state;
\* regime.remove: outputs may be removed by hand, by --clean or by --rebuild.
VARIABLES
  regime,     \* the circumstances, which do not change
  source,     \* the version of every node's source file
  disk,       \* the content of every node's output
  inputSig,   \* m_InputSignature of every node in this build
  saved,      \* the state file: what it has for every node
  session,    \* number of this build
  settled     \* history: the last build went well and nothing was touched since

dataVars == <<regime, source, disk, inputSig, saved, session, settled>>
sessionVars == <<vars, dataVars>>

NotSigned == <<"not signed">>
Nothing   == <<"nothing">>
Garbage   == <<"garbage">>

\* A file written in this build, and a file that is not there.
File(content) == [madeFrom |-> content, stamp |-> IF regime.digest THEN 0 ELSE session]
Missing == [madeFrom |-> Nothing, stamp |-> 0]

\* No entry in the state file.
NoState == [buildResult |-> -1, inputSignature |-> NotSigned]

\* ComputeFileSignature over the inputs of n.
InputsOf(n) == <<source[n], [d \in Deps[n] |-> disk[d]]>>

-----------------------------------------------------------------------------

OutputFilesMissing(n) == n \notin NoAction /\ disk[n] = Missing

\* Slip: a failure in the last build is forgotten.
MustRun_NoResult(n, sig) ==
  saved[n] = NoState \/ saved[n].inputSignature # sig \/ OutputFilesMissing(n)

\* Slip: changed inputs are not noticed.
MustRun_NoSignature(n, sig) ==
  saved[n] = NoState \/ saved[n].buildResult # 0 \/ OutputFilesMissing(n)

\* The decision at the end of CheckInputSignature.
MustRun(n, sig) ==
  \/ saved[n] = NoState
  \/ saved[n].inputSignature # sig
  \/ saved[n].buildResult # 0
  \/ OutputFilesMissing(n)

CheckInputSignature(t) ==
  LET n == cur[t]
      sig == InputsOf(n)
  IN /\ CheckDone(t)
     /\ progress'[n] = IF MustRun(n, sig) THEN "kRunAction" ELSE "kUpToDate"
     /\ inputSig' = [inputSig EXCEPT ![n] = sig]
     /\ UNCHANGED <<regime, source, disk, saved, session, settled>>

\* RunAction removes the old output, unless it is to be overwritten, and the
\* command starts writing at some time.
StartAction(t) ==
  /\ RunActionStart(t)
  /\ \E now \in {File(Garbage), IF cur[t] \in Overwrite THEN disk[cur[t]] ELSE Missing} :
       disk' = [disk EXCEPT ![cur[t]] = now]
  /\ UNCHANGED <<regime, source, inputSig, saved, session, settled>>

\* A failed action leaves no output behind unless the output is precious.  That
\* includes the failures before the command is started: RunAction cannot make
\* the output's directory only when the output is not there either.
EndAction(t) ==
  LET n == cur[t]
  IN /\ RunDone(t)
     /\ disk' = [disk EXCEPT ![n] =
                   CASE progress'[n] = "kSucceeded" -> File(InputsOf(n))
                     [] progress'[n] = "kFailed" /\ n \in Precious -> disk[n]
                     [] OTHER -> Missing]
     /\ UNCHANGED <<regime, source, inputSig, saved, session, settled>>

\* Steps of the build queue that touch no file.
QuietStep(t) ==
  \/ LoopStep(t) \/ SpuriousWakeup(t) \/ AdvanceInitial(t) \/ AdvanceBlocked(t) \/ CheckStart(t)
  \/ RunActionEmpty(t) \/ ParkExpensiveNode(t)
  \/ AdvanceSucceeded(t) \/ AdvanceFailed(t) \/ AdvanceCompleted(t)

BuildStep ==
  \/ \E t \in Thread : CheckInputSignature(t) \/ StartAction(t) \/ EndAction(t)
  \/ (\E t \in Thread : QuietStep(t)) /\ UNCHANGED dataVars
  \/ DriverStep /\ UNCHANGED dataVars
  \/ SignalSet /\ UNCHANGED dataVars

-----------------------------------------------------------------------------

\* Slip: only unfinished nodes get a new entry.
SavedState_KeepsOld(n) ==
  IF progress[n] \in {"kInitial", "kBlocked", "kCompleted"}
  THEN saved[n]
  ELSE [buildResult |-> result[n], inputSignature |-> inputSig[n]]

\* What DriverSaveBuildState writes for n: the old entry if the node computed
\* no signature in this build, otherwise the result and signature it has.
SavedState(n) ==
  IF progress[n] \in {"kInitial", "kBlocked"}
  THEN saved[n]
  ELSE [buildResult |-> result[n], inputSignature |-> inputSig[n]]

\* Since the nodes signed their inputs, no input has changed.
SourcesUnchanged == \A n \in Node : inputSig[n] = InputsOf(n)

\* DriverInit, DriverInitData and DriverPrepareNodes of the next build.
FreshQueue ==
  /\ progress' = [n \in Node |-> "kInitial"]
  /\ result' = [n \in Node |-> 0]
  /\ queued' = {} /\ active' = {}
  /\ queue' = <<>> /\ waitList' = <<>> /\ expensiveRunning' = 0
  /\ pending' = 0 /\ failed' = 0 /\ currentPass' = -1 /\ quit' = FALSE
  /\ lock' = NoThread
  /\ pc' = [t \in Thread |-> IF t # Main THEN "Lock"
                             ELSE IF PassCount > 0 THEN "Pass" ELSE "Quit"]
  /\ cur' = [t \in Thread |-> NoNode]
  /\ signalled' = FALSE
  /\ buildResult' = "kOk"
  /\ inputSig' = [n \in Node |-> NotSigned]
  /\ session' = session + 1

\* The build is over, DriverSaveBuildState renames the new state file into
\* place, and the next build is started.
SaveAndStartAgain ==
  /\ pc[Main] = "Done" /\ session < MaxSessions
  /\ saved' = [n \in Node |-> SavedState(n)]
  /\ settled' = (settled \/ (buildResult = "kOk" /\ SourcesUnchanged))
  /\ FreshQueue
  /\ UNCHANGED <<regime, source, disk>>

\* The process is killed, or a second signal ends it when BuildQueueDestroy
\* unblocks signals: the state file stays as it was.
CrashAndStartAgain ==
  /\ regime.crash /\ session < MaxSessions
  /\ FreshQueue
  /\ settled' = FALSE
  /\ UNCHANGED <<regime, source, disk, saved>>

\* A source is edited at any time, during a build as well.  It does not go back
\* to an earlier version.
Edit(n) ==
  /\ source[n] < MaxEdits
  /\ source' = [source EXCEPT ![n] = source[n] + 1]
  /\ settled' = FALSE
  /\ UNCHANGED <<vars, regime, disk, inputSig, saved, session>>

\* An output is removed while no build runs, or by DriverCleanOutputs before
\* the build begins.
RemoveOutput(n) ==
  /\ regime.remove
  /\ pc[Main] = "Pass" /\ currentPass = -1
  /\ \A t \in Worker : pc[t] = "Lock"
  /\ disk[n] # Missing
  /\ disk' = [disk EXCEPT ![n] = Missing]
  /\ settled' = FALSE
  /\ UNCHANGED <<vars, regime, source, inputSig, saved, session>>

SessionInit ==
  /\ Init
  /\ regime \in Regimes
  /\ source = [n \in Node |-> 0]
  /\ disk = [n \in Node |-> Missing]
  /\ inputSig = [n \in Node |-> NotSigned]
  /\ saved = [n \in Node |-> NoState]
  /\ session = 1
  /\ settled = FALSE

\* The last build within the bound is over.
NoMoreSessions == pc[Main] = "Done" /\ session = MaxSessions /\ UNCHANGED sessionVars

SessionNext ==
  \/ BuildStep \/ SaveAndStartAgain \/ CrashAndStartAgain
  \/ \E n \in Node : Edit(n) \/ RemoveOutput(n)
  \/ NoMoreSessions

SessionSpec == SessionInit /\ [][SessionNext]_sessionVars

-----------------------------------------------------------------------------

\* A target is considered up to date only if its output was made, by an action
\* that went through, from the inputs as they are signed now
\* (CheckInputSignature against what DriverSaveBuildState wrote).
UpToDateIsBuilt ==
  \A n \in Node \ NoAction : progress[n] = "kUpToDate" => disk[n].madeFrom = inputSig[n]

\* After a build that reported success, and with no file touched since it
\* signed its inputs, the next build runs no action.
NothingToDo ==
  settled => \A t \in Thread : pc[t] # "Run"

\* When a build reports success and no source changed under it, every output on
\* disk is what its current inputs make it, all the way down to the sources.
SuccessMeansCurrent ==
  pc[Main] = "Done" /\ buildResult = "kOk" /\ SourcesUnchanged =>
    \A n \in Node \ NoAction : disk[n].madeFrom = InputsOf(n)

=============================================================================
