---------------------------- MODULE SessionFiles ----------------------------
(***************************************************************************)
(* First part of the proofs about Session: what the files on disk and the  *)
(* state file have to do with one another, from one step to the next.  Of  *)
(* the build queue only what QueueFacts says is used here; SessionProofs   *)
(* shows it.                                                               *)
(***************************************************************************)
EXTENDS Session, TLAPS

-----------------------------------------------------------------------------
(* What is supposed. *)

\* A history in which builds are killed has no removals and no -k.
NoMixing == \A r \in Regimes : r.crash => ~r.remove /\ ~ContinueOnError

\* No node is left between kRunAction and its action when the build ends.
NothingParked == pc[Main] = "Done" => \A n \in Node : progress[n] # "kRunAction"

\* What the queue guarantees in every state.
QueueFacts ==
  /\ progress \in [Node -> Progress] /\ result \in [Node -> {0, 1}]
  /\ \A n \in Node : progress[n] \notin {"kInitial", "kBlocked"} =>
       \A d \in Deps[n] : Completed(d) /\ (~ContinueOnError => result[d] = 0)
  /\ currentPass = -1 => \A n \in Node : progress[n] = "kInitial"
  /\ QuietAtExit /\ ResultSound

-----------------------------------------------------------------------------
(* Where a node is in this build. *)

Unsigned(n) == progress[n] \in {"kInitial", "kBlocked", "kUnblocked"}
Made(n) == \/ progress[n] \in {"kSucceeded", "kUpToDate"}
           \/ Completed(n) /\ result[n] = 0

\* The files n's dependencies have left.
DepFiles(n) == [d \in Deps[n] |-> disk[d]]

\* c is a signature that ComputeFileSignature can have computed for n by now.
IsSignature(n, c) ==
  /\ c = <<c[1], c[2]>>
  /\ c[1] \in Nat /\ c[1] <= source[n]
  /\ c[2] = [d \in Deps[n] |-> c[2][d]]

IsFile(f) ==
  /\ f = [madeFrom |-> f.madeFrom, stamp |-> f.stamp]
  /\ f.stamp \in Nat /\ f.stamp <= session
  /\ regime.digest => f.stamp = 0

DataInv ==
  /\ regime \in Regimes
  /\ source \in [Node -> Nat]
  /\ session \in Nat
  /\ disk = [n \in Node |-> disk[n]]
  /\ inputSig = [n \in Node |-> inputSig[n]]
  /\ saved = [n \in Node |-> saved[n]]
  /\ \A n \in Node : IsFile(disk[n]) /\ (n \in NoAction => disk[n] = Missing)
  /\ \A n \in Node : saved[n].buildResult = 0 => IsSignature(n, saved[n].inputSignature)

\* What a node signed in this build is still so but for its source, and so is
\* what its output was made from.
Signed(n) ==
  /\ ~Unsigned(n) => IsSignature(n, inputSig[n]) /\ inputSig[n][2] = DepFiles(n)
  /\ Made(n) /\ n \notin NoAction =>
       /\ IsSignature(n, disk[n].madeFrom)
       /\ inputSig[n][1] <= disk[n].madeFrom[1]
       /\ disk[n].madeFrom[2] = DepFiles(n)
  /\ progress[n] = "kUpToDate" /\ n \notin NoAction => disk[n].madeFrom = inputSig[n]

SignedInv == \A n \in Node : Signed(n)

\* Without kills: a node that has not signed its inputs has the output that the
\* state file tells of, or none, or its source has changed since.
CleanInv ==
  ~regime.crash =>
    \A n \in Node \ NoAction : Unsigned(n) /\ saved[n].buildResult = 0 =>
      \/ disk[n] = Missing
      \/ disk[n].madeFrom = saved[n].inputSignature
      \/ saved[n].inputSignature[1] < source[n]

-----------------------------------------------------------------------------
(* With kills.  P is a set of pairs of a node and a file its output will    *)
(* never be again, R one of pairs of a node and a file it once was.         *)

\* Made from c, the output of n is out of date for good.
Outdated(P, n, c) ==
  c[1] < source[n] \/ \E d \in Deps[n] : <<d, c[2][d]>> \in P

Past(P) ==
  \A n \in Node : \A f : <<n, f>> \in P =>
    /\ n \notin NoAction
    /\ disk[n] # f
    /\ f.stamp \in Nat /\ IsSignature(n, f.madeFrom)
    /\ Outdated(P, n, f.madeFrom) \/ (~regime.digest /\ f.stamp < session)

Known(P, R) ==
  \A n \in Node :
    /\ n \in NoAction => \A f : <<n, f>> \in R <=> f = Missing
    /\ n \notin NoAction => \A f : <<n, f>> \in R =>
         /\ IsFile(f) /\ IsSignature(n, f.madeFrom)
         /\ \A d \in Deps[n] : <<d, f.madeFrom[2][d]>> \in R
         /\ Made(n) => disk[n] = f \/ <<n, f>> \in P
         /\ ~regime.digest /\ f.stamp = session => Made(n) /\ disk[n] = f
    /\ n \notin NoAction /\ Made(n) => <<n, disk[n]>> \in R

Recorded(P, R) ==
  \A n \in Node \ NoAction : saved[n].buildResult = 0 =>
    LET c == saved[n].inputSignature
    IN /\ \A d \in Deps[n] : <<d, c[2][d]>> \in R
       /\ disk[n].madeFrom = c \/ Outdated(P, n, c)
       /\ progress[n] = "kRunAction" => Outdated(P, n, c)

KillInv == regime.crash => \E P, R : Past(P) /\ Known(P, R) /\ Recorded(P, R)

SettledInv ==
  settled => \A n \in Node :
    /\ saved[n] = [buildResult |-> 0, inputSignature |-> InputsOf(n)]
    /\ n \notin NoAction => disk[n] # Missing
    /\ Unsigned(n) \/ (Made(n) /\ inputSig[n] = InputsOf(n))

-----------------------------------------------------------------------------
(* What a step means for the nodes and their files. *)

\* CheckInputSignature signs n's inputs and decides.
SignStep(n) ==
  /\ n \in Node /\ progress[n] = "kUnblocked"
  /\ progress' = [progress EXCEPT ![n] =
                    IF MustRun(n, InputsOf(n)) THEN "kRunAction" ELSE "kUpToDate"]
  /\ inputSig' = [inputSig EXCEPT ![n] = InputsOf(n)]
  /\ UNCHANGED <<result, regime, source, disk, saved, session, settled>>

\* n's action is started, or fails: the output is what it was, or not there, or
\* half-written.
SpoilStep(n) ==
  /\ n \in Node \ NoAction /\ progress[n] = "kRunAction"
  /\ \E y \in {"kRunAction", "kFailed"} : progress' = [progress EXCEPT ![n] = y]
  /\ \E f \in {disk[n], Missing, File(Garbage)} : disk' = [disk EXCEPT ![n] = f]
  /\ UNCHANGED <<result, regime, source, inputSig, saved, session, settled>>

\* n's action goes through.
MakeStep(n) ==
  /\ n \in Node \ NoAction /\ progress[n] = "kRunAction"
  /\ progress' = [progress EXCEPT ![n] = "kSucceeded"]
  /\ disk' = [disk EXCEPT ![n] = File(InputsOf(n))]
  /\ UNCHANGED <<result, regime, source, inputSig, saved, session, settled>>

\* No file changes, and no node with an action gets further than its action.
StillFiles ==
  /\ UNCHANGED dataVars
  /\ progress' \in [Node -> Progress]
  /\ \A n \in Node :
       /\ Unsigned(n)' <=> Unsigned(n)
       /\ Made(n) => Made(n)'
       /\ n \notin NoAction => (Made(n)' => Made(n))
       /\ progress'[n] = "kUpToDate" => progress[n] = "kUpToDate"
       /\ progress'[n] = "kRunAction" => progress[n] = "kRunAction"

\* The steps of Session.
FileStep ==
  \/ \E n \in Node : SignStep(n) \/ SpoilStep(n) \/ MakeStep(n) \/ Edit(n) \/ RemoveOutput(n)
  \/ StillFiles \/ SaveAndStartAgain \/ CrashAndStartAgain

-----------------------------------------------------------------------------
(* Signatures and files. *)

\* What ComputeFileSignature computes.
LEMMA InputsSign ==
  ASSUME NEW n \in Node, source \in [Node -> Nat]
  PROVE  /\ IsSignature(n, InputsOf(n))
         /\ InputsOf(n)[1] = source[n] /\ InputsOf(n)[2] = DepFiles(n)
  BY DEF IsSignature, InputsOf, DepFiles

\* Two signatures are the same when they sign the same files.
LEMMA SameSignature ==
  ASSUME NEW n \in Node, NEW b, NEW c, IsSignature(n, b), IsSignature(n, c),
         b[1] = c[1], \A d \in Deps[n] : b[2][d] = c[2][d]
  PROVE  b = c
<1>1. [d \in Deps[n] |-> b[2][d]] = [d \in Deps[n] |-> c[2][d]]
  OBVIOUS
<1> QED
  BY <1>1 DEF IsSignature

\* Nothing signs a missing or a half-written file.
LEMMA NoSignature ==
  ASSUME NEW n, NEW c, IsSignature(n, c)
  PROVE  c # Nothing /\ c # Garbage
<1>1. Len(<<c[1], c[2]>>) = 2 /\ Len(Nothing) = 1 /\ Len(Garbage) = 1
  BY DEF Nothing, Garbage
<1> QED
  BY <1>1 DEF IsSignature

\* A signature remains one.
LEMMA SignatureKept ==
  ASSUME NEW n \in Node, NEW c, IsSignature(n, c), source \in [Node -> Nat], source' \in [Node -> Nat],
         source[n] <= source'[n]
  PROVE  IsSignature(n, c)'
  BY DEF IsSignature

\* The files that can be on disk.
LEMMA Files ==
  ASSUME session \in Nat, NEW c
  PROVE  IsFile(File(c)) /\ IsFile(Missing) /\ File(c).madeFrom = c /\ Missing.madeFrom = Nothing
  BY DEF IsFile, File, Missing

\* The dependencies of a node that is past kBlocked are completed, and without
\* -k they have succeeded.
LEMMA DependenciesMade ==
  ASSUME QueueFacts, NEW n \in Node, progress[n] \notin {"kInitial", "kBlocked"}, NEW d \in Deps[n]
  PROVE  d \in Node /\ Completed(d) /\ (~ContinueOnError => Made(d))
  BY DagAssumption DEF QueueFacts, Made

\* DriverSaveBuildState finds no node between kBlocked and the end of its check.
LEMMA SavedNodes ==
  ASSUME QueueFacts, pc[Main] = "Done", NEW n \in Node
  PROVE  progress[n] \in {"kInitial", "kBlocked", "kRunAction", "kCompleted"}
  BY DEF QueueFacts, QuietAtExit

\* Types, after any step.
LEMMA DataStep ==
  ASSUME QueueFacts, DataInv, SignedInv, FileStep
  PROVE  DataInv'
<1>1. /\ regime \in Regimes /\ source \in [Node -> Nat] /\ session \in Nat
      /\ disk = [n \in Node |-> disk[n]] /\ inputSig = [n \in Node |-> inputSig[n]]
      /\ saved = [n \in Node |-> saved[n]]
  BY DEF DataInv
<1>2. ASSUME UNCHANGED <<regime, source, session, saved>>, inputSig' = [n \in Node |-> inputSig'[n]],
             NEW m \in Node \ NoAction, NEW f, IsFile(f), disk' = [disk EXCEPT ![m] = f]
      PROVE  DataInv'
  <2>1. disk' = [n \in Node |-> disk'[n]] /\ \A n \in Node : disk'[n] = IF n = m THEN f ELSE disk[n]
    BY <1>1, <1>2
  <2>2. \A n \in Node : IsFile(disk[n])' /\ (n \in NoAction => disk'[n] = Missing)
    BY <1>2, <2>1 DEF DataInv, IsFile, Missing
  <2>3. \A n \in Node : saved'[n].buildResult = 0 => IsSignature(n, saved[n].inputSignature)'
    BY <1>2 DEF DataInv, IsSignature
  <2> QED
    BY <1>1, <1>2, <2>1, <2>2, <2>3 DEF DataInv
<1>3. ASSUME UNCHANGED <<regime, disk, session, saved>>, inputSig' = [n \in Node |-> inputSig'[n]],
             source' \in [Node -> Nat], \A n \in Node : source[n] <= source'[n]
      PROVE  DataInv'
  <2>1. \A n \in Node : IsFile(disk[n])' /\ (n \in NoAction => disk'[n] = Missing)
    BY <1>3 DEF DataInv, IsFile, Missing
  <2>2. \A n \in Node : saved'[n].buildResult = 0 => IsSignature(n, saved[n].inputSignature)'
    BY <1>1, <1>3, SignatureKept DEF DataInv
  <2> QED
    BY <1>1, <1>3, <2>1, <2>2 DEF DataInv
<1>4. ASSUME NEW m \in Node, SignStep(m) PROVE DataInv'
  <2>1. inputSig' = [n \in Node |-> inputSig'[n]]
    BY <1>1, <1>4 DEF SignStep
  <2> QED
    BY <1>1, <1>3, <1>4, <2>1 DEF SignStep
<1>5. ASSUME NEW m \in Node, SpoilStep(m) \/ MakeStep(m) PROVE DataInv'
  <2>1. m \in Node \ NoAction /\ UNCHANGED <<regime, source, session, saved, inputSig>>
    BY <1>5 DEF SpoilStep, MakeStep
  <2>2. \E f : IsFile(f) /\ disk' = [disk EXCEPT ![m] = f]
    BY <1>1, <1>5, Files DEF SpoilStep, MakeStep, DataInv
  <2> QED
    BY <1>1, <1>2, <2>1, <2>2
<1>6. ASSUME NEW m \in Node, Edit(m) PROVE DataInv'
  BY <1>1, <1>3, <1>6 DEF Edit
<1>7. ASSUME NEW m \in Node, RemoveOutput(m) PROVE DataInv'
  <2>1. m \in Node \ NoAction /\ disk' = [disk EXCEPT ![m] = Missing]
    BY <1>7 DEF RemoveOutput, DataInv
  <2> QED
    BY <1>1, <1>2, <1>7, <2>1, Files DEF RemoveOutput
<1>8. CASE StillFiles
  BY <1>1, <1>3, <1>8 DEF StillFiles, dataVars
<1>9. ASSUME SaveAndStartAgain \/ CrashAndStartAgain PROVE DataInv'
  <2>1. UNCHANGED <<regime, source, disk>> /\ session' = session + 1 /\ inputSig' = [n \in Node |-> NotSigned]
    BY <1>9 DEF SaveAndStartAgain, CrashAndStartAgain, FreshQueue
  <2>2. saved' = [n \in Node |-> SavedState(n)] \/ UNCHANGED saved
    BY <1>9 DEF SaveAndStartAgain, CrashAndStartAgain
  <2>3. \A n \in Node : IsFile(disk[n])' /\ (n \in NoAction => disk'[n] = Missing)
    BY <1>1, <2>1 DEF DataInv, IsFile, Missing
  <2>4. ASSUME NEW n \in Node, saved'[n].buildResult = 0
        PROVE  IsSignature(n, saved[n].inputSignature)'
    <3>1. IsSignature(n, saved'[n].inputSignature)
      <4>1. CASE saved'[n] = saved[n]
        BY <2>4, <4>1 DEF DataInv
      <4>2. CASE saved'[n] # saved[n]
        <5>1. SaveAndStartAgain /\ saved'[n] = SavedState(n)
          BY <1>1, <1>9, <4>2 DEF SaveAndStartAgain, CrashAndStartAgain
        <5>2. ~Unsigned(n)
          BY <4>2, <5>1, SavedNodes DEF SavedState, SaveAndStartAgain, Unsigned
        <5>3. saved'[n].inputSignature = inputSig[n]
          BY <5>1, <5>2 DEF SavedState, Unsigned
        <5> QED
          BY <5>2, <5>3 DEF SignedInv, Signed
      <4> QED
        BY <4>1, <4>2
    <3> QED
      BY <1>1, <2>1, <3>1, SignatureKept
  <2> QED
    BY <1>1, <2>1, <2>2, <2>3, <2>4 DEF DataInv
<1> QED
  BY <1>4, <1>5, <1>6, <1>7, <1>8, <1>9 DEF FileStep

-----------------------------------------------------------------------------
(* Within one build. *)

\* An action changes its own output, which no node that is past kBlocked reads.
LEMMA DepFilesKept ==
  ASSUME QueueFacts, NEW n \in Node, progress[n] \notin {"kInitial", "kBlocked"},
         NEW m \in Node, progress[m] = "kRunAction", NEW f, disk' = [disk EXCEPT ![m] = f],
         disk = [k \in Node |-> disk[k]]
  PROVE  DepFiles(n)' = DepFiles(n)
<1>1. \A d \in Deps[n] : d \in Node /\ d # m
  BY DependenciesMade DEF Completed
<1>2. \A d \in Deps[n] : disk'[d] = disk[d]
  BY <1>1
<1> QED
  BY <1>2 DEF DepFiles

\* A target is found up to date only when it is: because of what the state file
\* and the disk have to do with one another.
LEMMA UpToDateSound ==
  ASSUME QueueFacts, DataInv, CleanInv, KillInv, NEW n \in Node \ NoAction, Unsigned(n),
         ~MustRun(n, InputsOf(n))
  PROVE  disk[n].madeFrom = InputsOf(n)
<1>1. /\ saved[n].inputSignature = InputsOf(n) /\ saved[n].buildResult = 0 /\ disk[n] # Missing
  BY DEF MustRun, OutputFilesMissing
<1>2. source[n] \in Nat /\ InputsOf(n)[1] = source[n] /\ InputsOf(n)[2] = DepFiles(n)
  BY InputsSign DEF DataInv
<1>3. ~(saved[n].inputSignature[1] < source[n])
  BY <1>1, <1>2
<1>4. CASE ~regime.crash
  BY <1>1, <1>3, <1>4 DEF CleanInv
<1>5. CASE regime.crash
  <2>1. PICK P, R : Past(P) /\ Known(P, R) /\ Recorded(P, R)
    BY <1>5 DEF KillInv
  <2>2. ~Outdated(P, n, saved[n].inputSignature)
    <3>1. ASSUME NEW d \in Deps[n], <<d, InputsOf(n)[2][d]>> \in P PROVE FALSE
      <4>1. d \in Node /\ <<d, disk[d]>> \in P
        BY <1>2, <3>1, DagAssumption DEF DepFiles
      <4> QED
        BY <2>1, <4>1 DEF Past
    <3> QED
      BY <1>1, <1>3, <3>1, Zenon DEF Outdated
  <2> QED
    BY <1>1, <2>1, <2>2 DEF Recorded
<1> QED
  BY <1>4, <1>5

\* What the nodes have signed in this build.
LEMMA SignedStep ==
  ASSUME QueueFacts, DataInv, SignedInv, CleanInv, KillInv, FileStep
  PROVE  SignedInv'
<1> SUFFICES ASSUME NEW n \in Node PROVE Signed(n)'
  BY DEF SignedInv
<1>1. /\ source \in [Node -> Nat] /\ disk = [k \in Node |-> disk[k]] /\ inputSig = [k \in Node |-> inputSig[k]]
      /\ progress \in [Node -> Progress] /\ session \in Nat
  BY DEF DataInv, QueueFacts
<1>2. Signed(n)
  BY DEF SignedInv
<1>3. ASSUME UNCHANGED <<source, inputSig, result>>, disk'[n] = disk[n], progress'[n] = progress[n],
             progress[n] \in {"kInitial", "kBlocked"} \/ DepFiles(n)' = DepFiles(n)
      PROVE  Signed(n)'
  BY <1>2, <1>3 DEF Signed, Unsigned, Made, Completed, IsSignature
<1>4. ASSUME NEW m \in Node, SignStep(m) PROVE Signed(n)'
  <2>1. UNCHANGED <<source, disk, result>> /\ DepFiles(n)' = DepFiles(n)
    BY <1>4 DEF SignStep, DepFiles
  <2>2. CASE n # m
    <3>1. inputSig'[n] = inputSig[n] /\ progress'[n] = progress[n]
      BY <1>1, <1>4, <2>2 DEF SignStep
    <3> QED
      BY <1>2, <2>1, <3>1 DEF Signed, Unsigned, Made, Completed, IsSignature
  <2>3. CASE n = m
    <3>1. inputSig'[n] = InputsOf(n) /\ progress'[n] = IF MustRun(n, InputsOf(n)) THEN "kRunAction" ELSE "kUpToDate"
      BY <1>1, <1>4, <2>3 DEF SignStep
    <3>2. /\ IsSignature(n, inputSig[n])' /\ inputSig'[n][2] = DepFiles(n)' /\ inputSig'[n][1] \in Nat
      BY <1>1, <2>1, <3>1, InputsSign DEF IsSignature
    <3>3. progress'[n] = "kUpToDate" /\ n \notin NoAction => disk'[n].madeFrom = inputSig'[n]
      <4>1. Unsigned(n)
        BY <1>4, <2>3 DEF SignStep, Unsigned
      <4> QED
        BY <2>1, <3>1, <4>1, UpToDateSound
    <3>4. Made(n)' => progress'[n] = "kUpToDate"
      BY <3>1 DEF Made, Completed
    <3> QED
      BY <3>2, <3>3, <3>4 DEF Signed, IsSignature
  <2> QED
    BY <2>2, <2>3
<1>5. ASSUME NEW m \in Node, SpoilStep(m) \/ MakeStep(m) PROVE Signed(n)'
  <2>1. /\ progress[m] = "kRunAction" /\ UNCHANGED <<source, inputSig, result>>
    BY <1>5 DEF SpoilStep, MakeStep
  <2>2. PICK f : disk' = [disk EXCEPT ![m] = f]
    BY <1>5 DEF SpoilStep, MakeStep
  <2>3. progress[n] \notin {"kInitial", "kBlocked"} => DepFiles(n)' = DepFiles(n)
    BY <1>1, <2>1, <2>2, DepFilesKept
  <2>4. CASE n # m
    <3>1. disk'[n] = disk[n] /\ progress'[n] = progress[n]
      BY <1>1, <1>5, <2>2, <2>4 DEF SpoilStep, MakeStep
    <3> QED
      BY <1>3, <2>1, <2>3, <3>1
  <2>5. CASE n = m
    <3>1. IsSignature(n, inputSig[n])' /\ inputSig'[n][2] = DepFiles(n)' /\ inputSig'[n][1] <= source[n]
      BY <1>2, <2>1, <2>3, <2>5 DEF Signed, Unsigned, IsSignature
    <3>2. CASE SpoilStep(m)
      <4>1. progress'[n] \in {"kRunAction", "kFailed"}
        BY <1>1, <2>5, <3>2 DEF SpoilStep
      <4> QED
        BY <3>1, <4>1 DEF Signed, Made, Completed
    <3>3. CASE MakeStep(m)
      <4>1. progress'[n] = "kSucceeded" /\ disk'[n].madeFrom = InputsOf(n)
        BY <1>1, <2>5, <3>3, Files DEF MakeStep
      <4>2. IsSignature(n, disk[n].madeFrom)' /\ disk'[n].madeFrom[1] = source[n]
            /\ disk'[n].madeFrom[2] = DepFiles(n)'
        BY <1>1, <2>1, <2>3, <2>5, <4>1, InputsSign DEF IsSignature
      <4> QED
        BY <3>1, <4>1, <4>2 DEF Signed
    <3> QED
      BY <1>5, <3>2, <3>3
  <2> QED
    BY <2>4, <2>5
<1>6. ASSUME NEW m \in Node, Edit(m) PROVE Signed(n)'
  <2>1. source' \in [Node -> Nat] /\ source[n] <= source'[n]
        /\ UNCHANGED <<progress, result, disk, inputSig>> /\ DepFiles(n)' = DepFiles(n)
    BY <1>1, <1>6 DEF Edit, vars, nodeVars, DepFiles
  <2>2. \A c : IsSignature(n, c) => IsSignature(n, c)'
    BY <1>1, <2>1, SignatureKept
  <2> QED
    BY <1>2, <2>1, <2>2 DEF Signed, Unsigned, Made, Completed
<1>7. ASSUME NEW m \in Node, RemoveOutput(m) PROVE Signed(n)'
  <2>1. progress[n] = "kInitial" /\ UNCHANGED progress
    BY <1>7 DEF RemoveOutput, vars, nodeVars, QueueFacts
  <2> QED
    BY <2>1 DEF Signed, Unsigned, Made, Completed
<1>8. CASE StillFiles
  <2>1. /\ UNCHANGED <<source, disk, inputSig>> /\ DepFiles(n)' = DepFiles(n)
        /\ Unsigned(n)' <=> Unsigned(n)
        /\ n \notin NoAction => (Made(n)' => Made(n))
        /\ progress'[n] = "kUpToDate" => progress[n] = "kUpToDate"
    BY <1>8 DEF StillFiles, dataVars, DepFiles
  <2> QED
    BY <1>2, <2>1 DEF Signed, IsSignature
<1>9. ASSUME SaveAndStartAgain \/ CrashAndStartAgain PROVE Signed(n)'
  <2>1. progress'[n] = "kInitial"
    BY <1>9 DEF SaveAndStartAgain, CrashAndStartAgain, FreshQueue
  <2> QED
    BY <2>1 DEF Signed, Unsigned, Made, Completed
<1> QED
  BY <1>4, <1>5, <1>6, <1>7, <1>8, <1>9 DEF FileStep

-----------------------------------------------------------------------------
(* From one build to the next. *)

\* The output of a node that was made in this build is what the node signed, or
\* the node's source has changed since it did.
LEMMA MadeFromSigned ==
  ASSUME QueueFacts, DataInv, SignedInv, NEW n \in Node \ NoAction, Made(n)
  PROVE  disk[n].madeFrom = inputSig[n] \/ inputSig[n][1] < source[n]
<1> DEFINE b == disk[n].madeFrom
           c == inputSig[n]
<1>1. /\ IsSignature(n, b) /\ c[1] <= b[1] /\ b[2] = DepFiles(n)
      /\ IsSignature(n, c) /\ c[2] = DepFiles(n)
  BY DEF SignedInv, Signed, Made, Unsigned, Completed
<1>2. b[1] \in Nat /\ c[1] \in Nat /\ b[1] <= source[n] /\ source[n] \in Nat
  BY <1>1 DEF IsSignature, DataInv
<1>3. CASE b[1] = c[1]
  BY <1>1, <1>3, SameSignature
<1>4. CASE b[1] # c[1]
  BY <1>1, <1>2, <1>4
<1> QED
  BY <1>3, <1>4

\* What DriverSaveBuildState says of a node that is in order.
LEMMA SavedEntry ==
  ASSUME QueueFacts, NothingParked, SaveAndStartAgain, NEW n \in Node, saved'[n].buildResult = 0
  PROVE  \/ Unsigned(n) /\ saved'[n] = saved[n]
         \/ Made(n) /\ saved'[n].inputSignature = inputSig[n]
<1>1. pc[Main] = "Done" /\ saved'[n] = SavedState(n)
  BY DEF SaveAndStartAgain
<1>2. progress[n] \in {"kInitial", "kBlocked", "kCompleted"}
  BY <1>1, SavedNodes DEF NothingParked
<1>3. CASE progress[n] \in {"kInitial", "kBlocked"}
  BY <1>1, <1>3 DEF SavedState, Unsigned
<1>4. CASE progress[n] = "kCompleted"
  BY <1>1, <1>4 DEF SavedState, Made, Completed
<1> QED
  BY <1>2, <1>3, <1>4

\* What the next build may rely on when no build is killed.
LEMMA CleanStep ==
  ASSUME QueueFacts, DataInv, SignedInv, CleanInv, NothingParked, FileStep
  PROVE  CleanInv'
<1> SUFFICES ASSUME ~regime'.crash, NEW n \in Node \ NoAction, Unsigned(n)', saved'[n].buildResult = 0
             PROVE  \/ disk'[n] = Missing
                    \/ disk'[n].madeFrom = saved'[n].inputSignature
                    \/ saved'[n].inputSignature[1] < source'[n]
  BY DEF CleanInv
<1>1. /\ source \in [Node -> Nat] /\ disk = [k \in Node |-> disk[k]] /\ progress \in [Node -> Progress]
  BY DEF DataInv, QueueFacts
<1>2. ASSUME ~regime.crash, Unsigned(n), saved'[n] = saved[n], disk'[n] = disk[n] \/ disk'[n] = Missing,
             source' = source
      PROVE  \/ disk'[n] = Missing
             \/ disk'[n].madeFrom = saved'[n].inputSignature
             \/ saved'[n].inputSignature[1] < source'[n]
  BY <1>2 DEF CleanInv
<1>3. ASSUME NEW m \in Node, SignStep(m)
      PROVE  Unsigned(n) /\ UNCHANGED <<regime, saved, disk, source>>
  <2>1. progress' = [progress EXCEPT ![m] = IF MustRun(m, InputsOf(m)) THEN "kRunAction" ELSE "kUpToDate"]
    BY <1>3 DEF SignStep
  <2>2. n # m
    BY <1>1, <2>1 DEF Unsigned
  <2> QED
    BY <1>1, <1>3, <2>1, <2>2 DEF SignStep, Unsigned
<1>4. ASSUME NEW m \in Node, SpoilStep(m) \/ MakeStep(m)
      PROVE  Unsigned(n) /\ disk'[n] = disk[n] /\ UNCHANGED <<regime, saved, source>>
  <2>1. n # m
    BY <1>1, <1>4 DEF SpoilStep, MakeStep, Unsigned
  <2> QED
    BY <1>1, <1>4, <2>1 DEF SpoilStep, MakeStep, Unsigned
<1>5. ASSUME NEW m \in Node, Edit(m)
      PROVE  \/ disk'[n] = Missing
             \/ disk'[n].madeFrom = saved'[n].inputSignature
             \/ saved'[n].inputSignature[1] < source'[n]
  <2>1. /\ UNCHANGED <<regime, progress, saved, disk>>
        /\ source' = [source EXCEPT ![m] = source[m] + 1]
    BY <1>5 DEF Edit, vars, nodeVars
  <2>2. source[n] \in Nat /\ source'[n] \in Nat /\ source[n] <= source'[n]
    BY <1>1, <2>1
  <2>3. Unsigned(n) /\ saved[n].buildResult = 0 /\ saved[n].inputSignature[1] \in Nat
    BY <2>1, Zenon DEF Unsigned, DataInv, IsSignature
  <2> QED
    BY <2>1, <2>2, <2>3 DEF CleanInv
<1>6. ASSUME NEW m \in Node, RemoveOutput(m)
      PROVE  /\ Unsigned(n) /\ UNCHANGED <<regime, saved, source>>
             /\ disk'[n] = disk[n] \/ disk'[n] = Missing
  BY <1>1, <1>6 DEF RemoveOutput, vars, nodeVars, Unsigned
<1>7. CASE StillFiles
  BY <1>2, <1>7 DEF StillFiles, dataVars
<1>8. CASE CrashAndStartAgain
  BY <1>8 DEF CrashAndStartAgain
<1>9. CASE SaveAndStartAgain
  <2>1. UNCHANGED <<regime, source, disk>>
    BY <1>9 DEF SaveAndStartAgain
  <2>2. CASE Unsigned(n) /\ saved'[n] = saved[n]
    BY <1>2, <2>1, <2>2
  <2>3. CASE Made(n) /\ saved'[n].inputSignature = inputSig[n]
    BY <2>1, <2>3, MadeFromSigned
  <2> QED
    BY <1>9, <2>2, <2>3, SavedEntry
<1> QED
  BY <1>2, <1>3, <1>4, <1>5, <1>6, <1>7, <1>8, <1>9 DEF FileStep

\* Files and sources that are not touched sign the same.
LEMMA InputsKept ==
  ASSUME UNCHANGED <<source, disk>>, NEW n
  PROVE  InputsOf(n)' = InputsOf(n)
  BY DEF InputsOf

\* A build that reported success, and whose inputs did not change, has made
\* every output from the inputs as they are.
LEMMA SuccessIsCurrent ==
  ASSUME QueueFacts, DataInv, SignedInv, pc[Main] = "Done", buildResult = "kOk", SourcesUnchanged,
         NEW n \in Node
  PROVE  /\ Completed(n) /\ result[n] = 0
         /\ n \notin NoAction => disk[n].madeFrom = InputsOf(n) /\ disk[n] # Missing
<1>1. Completed(n) /\ result[n] = 0
  BY DEF QueueFacts, ResultSound
<1>2. Made(n) /\ source \in [Node -> Nat] /\ inputSig[n] = InputsOf(n) /\ session \in Nat
  BY <1>1 DEF Made, DataInv, SourcesUnchanged
<1>3. inputSig[n][1] = source[n] /\ source[n] \in Nat
  BY <1>2, InputsSign
<1>4. n \notin NoAction => disk[n].madeFrom = InputsOf(n)
  BY <1>2, <1>3, MadeFromSigned
<1>5. IsSignature(n, InputsOf(n))
  BY <1>2, InputsSign
<1>6. InputsOf(n) # Nothing
  BY <1>5, NoSignature
<1> QED
  BY <1>1, <1>2, <1>4, <1>6, Files

\* While nothing is touched after such a build, every further build finds every
\* node up to date.
LEMMA SettledStep ==
  ASSUME QueueFacts, DataInv, SignedInv, SettledInv, FileStep
  PROVE  SettledInv'
<1> SUFFICES ASSUME settled', NEW n \in Node
             PROVE  /\ saved'[n] = [buildResult |-> 0, inputSignature |-> InputsOf(n)']
                    /\ n \notin NoAction => disk'[n] # Missing
                    /\ Unsigned(n)' \/ (Made(n)' /\ inputSig'[n] = InputsOf(n)')
  BY Zenon DEF SettledInv
<1>1. /\ disk = [k \in Node |-> disk[k]] /\ inputSig = [k \in Node |-> inputSig[k]]
      /\ progress \in [Node -> Progress]
  BY DEF DataInv, QueueFacts
<1>2. settled => /\ saved[n] = [buildResult |-> 0, inputSignature |-> InputsOf(n)]
                 /\ n \notin NoAction => disk[n] # Missing
                 /\ Unsigned(n) \/ (Made(n) /\ inputSig[n] = InputsOf(n))
  BY DEF SettledInv
<1>3. ASSUME NEW m \in Node, SignStep(m)
      PROVE  /\ InputsOf(n)' = InputsOf(n) /\ UNCHANGED <<saved, disk>> /\ settled
             /\ Unsigned(n)' \/ (Made(n)' /\ inputSig'[n] = InputsOf(n))
  <2>1. UNCHANGED <<source, disk, saved, settled, result>> /\ InputsOf(n)' = InputsOf(n)
    BY <1>3, InputsKept, Zenon DEF SignStep
  <2>2. CASE n # m
    BY <1>1, <1>2, <1>3, <2>1, <2>2 DEF SignStep, Unsigned, Made, Completed
  <2>3. CASE n = m
    <3>1. ~MustRun(n, InputsOf(n))
      BY <1>2, <2>1 DEF MustRun, NoState, OutputFilesMissing
    <3> QED
      BY <1>1, <1>3, <2>1, <2>3, <3>1 DEF SignStep, Made
  <2> QED
    BY <2>1, <2>2, <2>3
<1>4. ASSUME NEW m \in Node, SpoilStep(m) \/ MakeStep(m) PROVE FALSE
  <2>1. progress[m] = "kRunAction" /\ settled
    BY <1>4, Zenon DEF SpoilStep, MakeStep
  <2> QED
    BY <2>1, Zenon DEF SettledInv, Unsigned, Made, Completed
<1>5. ASSUME NEW m \in Node, Edit(m) \/ RemoveOutput(m) PROVE FALSE
  BY <1>5 DEF Edit, RemoveOutput
<1>6. CASE StillFiles
  BY <1>2, <1>6, InputsKept DEF StillFiles, dataVars
<1>7. CASE CrashAndStartAgain
  BY <1>7 DEF CrashAndStartAgain
<1>8. CASE SaveAndStartAgain
  <2>1. /\ UNCHANGED <<source, disk>> /\ pc[Main] = "Done" /\ saved'[n] = SavedState(n) /\ Unsigned(n)'
        /\ settled \/ (buildResult = "kOk" /\ SourcesUnchanged)
    BY <1>8, Zenon DEF SaveAndStartAgain, FreshQueue, Unsigned
  <2>2. InputsOf(n)' = InputsOf(n)
    BY <2>1, InputsKept
  <2>3. CASE settled
    <3>1. progress[n] \in {"kInitial", "kBlocked"} \/ (Completed(n) /\ result[n] = 0)
      BY <1>2, <2>1, <2>3, SavedNodes DEF Unsigned, Made, Completed
    <3> QED
      BY <1>2, <2>1, <2>2, <2>3, <3>1 DEF SavedState, Unsigned, Completed
  <2>4. CASE buildResult = "kOk" /\ SourcesUnchanged
    <3>1. Completed(n) /\ result[n] = 0 /\ inputSig[n] = InputsOf(n) /\ (n \notin NoAction => disk[n] # Missing)
      BY <2>1, <2>4, SuccessIsCurrent DEF SourcesUnchanged
    <3> QED
      BY <2>1, <2>2, <3>1 DEF SavedState, Completed
  <2> QED
    BY <2>1, <2>3, <2>4
<1> QED
  BY <1>2, <1>3, <1>4, <1>5, <1>6, <1>7, <1>8 DEF FileStep

-----------------------------------------------------------------------------
(* Builds that are killed. *)

\* The current inputs of a node are not out of date.
LEMMA InputsNotOutdated ==
  ASSUME NEW P, Past(P), source \in [Node -> Nat], NEW n \in Node
  PROVE  ~Outdated(P, n, InputsOf(n))
<1>1. InputsOf(n)[1] = source[n] /\ source[n] \in Nat /\ InputsOf(n)[2] = DepFiles(n)
  BY InputsSign
<1>2. ASSUME NEW d \in Deps[n], <<d, InputsOf(n)[2][d]>> \in P PROVE FALSE
  <2>1. d \in Node /\ <<d, disk[d]>> \in P
    BY <1>1, <1>2, DagAssumption DEF DepFiles
  <2> QED
    BY <2>1 DEF Past
<1>3. ~(InputsOf(n)[1] < source[n])
  BY <1>1
<1> QED
  BY <1>2, <1>3, Zenon DEF Outdated

\* Once the dependencies of a node have been made, whatever its inputs differ
\* from is out of date.
LEMMA DifferentIsOutdated ==
  ASSUME NEW P, NEW R, Known(P, R), DataInv, NEW n \in Node, NEW c, IsSignature(n, c), c # InputsOf(n),
         \A d \in Deps[n] : <<d, c[2][d]>> \in R /\ (d \in NoAction \/ Made(d))
  PROVE  Outdated(P, n, c)
<1>1. source \in [Node -> Nat] /\ source[n] \in Nat /\ c[1] \in Nat /\ c[1] <= source[n]
  BY DEF DataInv, IsSignature
<1>2. /\ IsSignature(n, InputsOf(n)) /\ InputsOf(n)[1] = source[n]
      /\ InputsOf(n)[2] = DepFiles(n)
  BY <1>1, InputsSign
<1>3. CASE c[1] # source[n]
  BY <1>1, <1>3 DEF Outdated
<1>4. CASE c[1] = source[n]
  <2>1. PICK d \in Deps[n] : c[2][d] # InputsOf(n)[2][d]
    BY <1>2, <1>4, SameSignature
  <2>2. d \in Node /\ c[2][d] # disk[d] /\ <<d, c[2][d]>> \in R
    BY <1>2, <2>1, DagAssumption DEF DepFiles
  <2>3. d \notin NoAction
    BY <2>2, Zenon DEF Known, DataInv
  <2>4. <<d, c[2][d]>> \in P
    BY <2>2, <2>3, Zenon DEF Known
  <2> QED
    BY <2>4 DEF Outdated
<1> QED
  BY <1>3, <1>4

\* What n's dependencies have left is known.
LEMMA DependenciesKnown ==
  ASSUME NEW P, NEW R, Known(P, R), DataInv, NEW n \in Node,
         \A d \in Deps[n] : d \in NoAction \/ Made(d)
  PROVE  \A d \in Deps[n] : <<d, DepFiles(n)[d]>> \in R
<1> SUFFICES ASSUME NEW d \in Deps[n] PROVE <<d, disk[d]>> \in R
  BY DEF DepFiles
<1>1. d \in Node
  BY DagAssumption
<1> QED
  BY <1>1 DEF Known, DataInv

\* Time passes, and no output changes: what is past stays past.
LEMMA PastKept ==
  ASSUME NEW P, Past(P), DataInv, UNCHANGED <<regime, disk>>, source' \in [Node -> Nat],
         \A n \in Node : source[n] <= source'[n], session' \in Nat, session <= session'
  PROVE  /\ Past(P)'
         /\ \A n \in Node : \A c : IsSignature(n, c) /\ Outdated(P, n, c) => Outdated(P, n, c)'
<1>1. source \in [Node -> Nat] /\ session \in Nat
  BY DEF DataInv
<1>2. \A n \in Node : \A c : IsSignature(n, c) /\ Outdated(P, n, c) => Outdated(P, n, c)'
  BY <1>1 DEF IsSignature, Outdated
<1>3. ASSUME NEW n \in Node, NEW f, <<n, f>> \in P
      PROVE  /\ n \notin NoAction /\ disk'[n] # f /\ f.stamp \in Nat /\ IsSignature(n, f.madeFrom)'
             /\ Outdated(P, n, f.madeFrom)' \/ (~regime'.digest /\ f.stamp < session')
  <2>1. /\ n \notin NoAction /\ disk'[n] # f /\ f.stamp \in Nat /\ IsSignature(n, f.madeFrom)
        /\ Outdated(P, n, f.madeFrom) \/ (~regime'.digest /\ f.stamp < session)
    BY <1>3 DEF Past
  <2> QED
    BY <1>1, <1>2, <2>1, SignatureKept
<1> QED
  BY <1>2, <1>3 DEF Past

\* A node with an action is made: its new output g is known from now on, and
\* whatever else it once was is past.
LEMMA NewlyMade ==
  ASSUME QueueFacts, DataInv, NEW P, NEW R, Past(P), Known(P, R), Recorded(P, R),
         NEW m \in Node \ NoAction, NEW g, disk' = [disk EXCEPT ![m] = g],
         g = File(InputsOf(m)) \/ (g = disk[m] /\ g.madeFrom = InputsOf(m)),
         g = disk[m] \/ progress[m] = "kRunAction",
         \A d \in Deps[m] : d \in NoAction \/ Made(d),
         ~Made(m), Made(m)', progress'[m] # "kRunAction",
         \A n \in Node \ {m} : (Made(n)' <=> Made(n)) /\ progress'[n] = progress[n],
         UNCHANGED <<regime, source, saved, session>>
  PROVE  \E P2, R2 : Past(P2)' /\ Known(P2, R2)' /\ Recorded(P2, R2)'
<1> DEFINE P2 == P \cup {q \in R : \E f : q = <<m, f>> /\ f # g}
           R2 == R \cup {<<m, g>>}
<1>1. /\ source \in [Node -> Nat] /\ session \in Nat /\ disk = [n \in Node |-> disk[n]]
      /\ g.madeFrom = InputsOf(m) /\ IsFile(g) /\ IsSignature(m, g.madeFrom) /\ g.madeFrom[2] = DepFiles(m)
  BY Files, InputsSign DEF DataInv
<1>2. /\ \A n \in Node : disk'[n] = IF n = m THEN g ELSE disk[n]
      /\ \A n \in Node : \A c : IsSignature(n, c)' <=> IsSignature(n, c)
      /\ \A f : IsFile(f)' <=> IsFile(f)
  BY <1>1 DEF IsSignature, IsFile
<1>3. /\ \A n \in Node : \A f : <<n, f>> \in P2 <=> <<n, f>> \in P \/ (n = m /\ <<m, f>> \in R /\ f # g)
      /\ \A n \in Node : \A f : <<n, f>> \in R2 <=> <<n, f>> \in R \/ (n = m /\ f = g)
  OBVIOUS
<1> HIDE DEF P2, R2
<1>4. \A n \in Node : \A c : Outdated(P, n, c) => Outdated(P2, n, c)'
  BY <1>3, DagAssumption, Zenon DEF Outdated
<1>5. ASSUME NEW f, <<m, f>> \in R
      PROVE  /\ IsFile(f) /\ IsSignature(m, f.madeFrom)
             /\ \A d \in Deps[m] : <<d, f.madeFrom[2][d]>> \in R
             /\ ~regime.digest => f.stamp < session
  <2>1. /\ IsFile(f) /\ IsSignature(m, f.madeFrom)
        /\ \A d \in Deps[m] : <<d, f.madeFrom[2][d]>> \in R
        /\ ~regime.digest => f.stamp # session
    BY <1>5, Zenon DEF Known
  <2> QED
    BY <1>1, <2>1 DEF IsFile
<1>6. ASSUME NEW f, <<m, f>> \in R, f # g
      PROVE  Outdated(P, m, f.madeFrom) \/ (~regime.digest /\ f.stamp < session)
  <2>1. CASE regime.digest
    <3>1. f.madeFrom # InputsOf(m)
      BY <1>1, <1>5, <1>6, <2>1 DEF IsFile
    <3> QED
      BY <1>5, <1>6, <3>1, DifferentIsOutdated, Zenon
  <2> QED
    BY <1>5, <1>6, <2>1, Zenon
<1>7. Past(P2)'
  <2> SUFFICES ASSUME NEW n \in Node, NEW f, <<n, f>> \in P2
               PROVE  /\ n \notin NoAction /\ disk'[n] # f /\ f.stamp \in Nat /\ IsSignature(n, f.madeFrom)'
                      /\ Outdated(P2, n, f.madeFrom)' \/ (~regime'.digest /\ f.stamp < session')
    BY DEF Past
  <2>1. CASE <<n, f>> \in P
    <3>1. /\ n \notin NoAction /\ disk[n] # f /\ f.stamp \in Nat /\ IsSignature(n, f.madeFrom)
          /\ Outdated(P, n, f.madeFrom) \/ (~regime.digest /\ f.stamp < session)
      BY <2>1 DEF Past
    <3>2. f = File(InputsOf(m)) => f.madeFrom = InputsOf(m) /\ (~regime.digest => f.stamp = session)
      BY DEF File
    <3>3. n = m => f # File(InputsOf(m))
      BY <1>1, <3>1, <3>2, InputsNotOutdated
    <3> QED
      BY <1>2, <1>4, <3>1, <3>3
  <2>2. CASE n = m /\ <<m, f>> \in R /\ f # g
    BY <1>2, <1>4, <1>5, <1>6, <2>2 DEF IsFile
  <2> QED
    BY <1>3, <2>1, <2>2, Zenon
<1>8. Known(P2, R2)'
  <2> SUFFICES ASSUME NEW n \in Node
               PROVE  /\ n \in NoAction => \A f : <<n, f>> \in R2 <=> f = Missing
                      /\ n \notin NoAction => \A f : <<n, f>> \in R2 =>
                           /\ IsFile(f)' /\ IsSignature(n, f.madeFrom)'
                           /\ \A d \in Deps[n] : <<d, f.madeFrom[2][d]>> \in R2
                           /\ Made(n)' => disk'[n] = f \/ <<n, f>> \in P2
                           /\ ~regime'.digest /\ f.stamp = session' => Made(n)' /\ disk'[n] = f
                      /\ n \notin NoAction /\ Made(n)' => <<n, disk'[n]>> \in R2
    BY Zenon DEF Known, Missing
  <2>1. CASE n # m
    <3>1. disk'[n] = disk[n] /\ (Made(n)' <=> Made(n)) /\ \A d \in Deps[n] : d \in Node
      BY <1>2, <2>1, DagAssumption
    <3>2. ASSUME NEW f, n \notin NoAction, <<n, f>> \in R2
          PROVE  /\ IsFile(f)' /\ IsSignature(n, f.madeFrom)'
                 /\ \A d \in Deps[n] : <<d, f.madeFrom[2][d]>> \in R2
                 /\ Made(n)' => disk'[n] = f \/ <<n, f>> \in P2
                 /\ ~regime'.digest /\ f.stamp = session' => Made(n)' /\ disk'[n] = f
      <4>1. <<n, f>> \in R
        BY <1>3, <2>1, <3>2
      <4>2. /\ IsFile(f) /\ IsSignature(n, f.madeFrom)
            /\ \A d \in Deps[n] : <<d, f.madeFrom[2][d]>> \in R
            /\ Made(n) => disk[n] = f \/ <<n, f>> \in P
            /\ ~regime.digest /\ f.stamp = session => Made(n) /\ disk[n] = f
        BY <3>2, <4>1, Zenon DEF Known
      <4> QED
        BY <1>2, <1>3, <3>1, <4>2, Zenon
    <3>3. ASSUME NEW f PROVE <<n, f>> \in R2 <=> <<n, f>> \in R
      BY <1>3, <2>1
    <3>4. n \in NoAction => \A f : <<n, f>> \in R2 <=> f = Missing
      <4>1. n \in NoAction => \A f : <<n, f>> \in R <=> f = Missing
        BY Zenon DEF Known
      <4> QED
        BY <3>3, <4>1
    <3>5. n \notin NoAction /\ Made(n)' => <<n, disk'[n]>> \in R2
      BY <3>1, <3>3, Zenon DEF Known
    <3> QED
      BY <3>2, <3>4, <3>5, Zenon
  <2>2. CASE n = m
    <3>1. \A d \in Deps[m] : d \in Node /\ <<d, g.madeFrom[2][d]>> \in R
      BY <1>1, DependenciesKnown, DagAssumption
    <3>2. ASSUME NEW f, <<n, f>> \in R2
          PROVE  /\ IsFile(f)' /\ IsSignature(n, f.madeFrom)'
                 /\ \A d \in Deps[n] : <<d, f.madeFrom[2][d]>> \in R2
                 /\ Made(n)' => disk'[n] = f \/ <<n, f>> \in P2
                 /\ ~regime'.digest /\ f.stamp = session' => Made(n)' /\ disk'[n] = f
      <4>1. CASE f = g
        BY <1>1, <1>2, <1>3, <2>2, <3>1, <4>1
      <4>2. CASE f # g
        <5>1. <<m, f>> \in R /\ <<n, f>> \in P2
          BY <1>3, <2>2, <3>2, <4>2
        <5>2. ~regime.digest => f.stamp # session
          BY <1>1, <1>5, <5>1 DEF IsFile
        <5> QED
          BY <1>2, <1>3, <1>5, <2>2, <3>1, <5>1, <5>2, Zenon
      <4> QED
        BY <4>1, <4>2, Zenon
    <3>3. <<n, disk'[n]>> \in R2
      BY <1>2, <1>3, <2>2, Zenon
    <3> QED
      BY <2>2, <3>2, <3>3, Zenon
  <2> QED
    BY <2>1, <2>2, Zenon
<1>9. Recorded(P2, R2)'
  <2> SUFFICES ASSUME NEW n \in Node \ NoAction, saved'[n].buildResult = 0
               PROVE  /\ \A d \in Deps[n] : <<d, saved'[n].inputSignature[2][d]>> \in R2
                      /\ disk'[n].madeFrom = saved'[n].inputSignature \/ Outdated(P2, n, saved[n].inputSignature)'
                      /\ progress'[n] = "kRunAction" => Outdated(P2, n, saved[n].inputSignature)'
    BY Zenon DEF Recorded
  <2> DEFINE c == saved[n].inputSignature
  <2>1. saved'[n].inputSignature = c /\ (Outdated(P, n, c) => Outdated(P2, n, saved[n].inputSignature)')
    BY <1>4, Zenon
  <2>2. /\ \A d \in Deps[n] : d \in Node /\ <<d, c[2][d]>> \in R
        /\ disk[n].madeFrom = c \/ Outdated(P, n, c)
        /\ progress[n] = "kRunAction" => Outdated(P, n, c)
    BY DagAssumption, Zenon DEF Recorded
  <2> QED
    BY <1>2, <1>3, <2>1, <2>2, Zenon
<1> QED
  BY <1>7, <1>8, <1>9

\* No output changes, and no node with an action gets made: what is known and
\* recorded is so afterwards, too.
LEMMA KillStill ==
  ASSUME DataInv, NEW P, NEW R, Past(P), Known(P, R), Recorded(P, R),
         UNCHANGED <<regime, disk, saved, session>>,
         source' \in [Node -> Nat], \A n \in Node : source[n] <= source'[n],
         \A n \in Node \ NoAction : Made(n)' <=> Made(n),
         \A n \in Node \ NoAction : saved[n].buildResult = 0 /\ progress'[n] = "kRunAction" =>
            Outdated(P, n, saved[n].inputSignature)
  PROVE  Past(P)' /\ Known(P, R)' /\ Recorded(P, R)'
<1>1. session \in Nat /\ source \in [Node -> Nat]
  BY DEF DataInv
<1>2. /\ Past(P)'
      /\ \A n \in Node : \A c : IsSignature(n, c) /\ Outdated(P, n, c) => Outdated(P, n, c)'
  BY <1>1, PastKept
<1>3. /\ \A n \in Node : \A c : IsSignature(n, c) => IsSignature(n, c)'
      /\ \A f : IsFile(f) => IsFile(f)'
  BY <1>1, SignatureKept DEF IsFile
<1>4. Known(P, R)'
  BY <1>3, Zenon DEF Known, Missing
<1>5. Recorded(P, R)'
  <2> SUFFICES ASSUME NEW n \in Node \ NoAction, saved'[n].buildResult = 0
               PROVE  /\ \A d \in Deps[n] : <<d, saved'[n].inputSignature[2][d]>> \in R
                      /\ disk'[n].madeFrom = saved'[n].inputSignature \/ Outdated(P, n, saved[n].inputSignature)'
                      /\ progress'[n] = "kRunAction" => Outdated(P, n, saved[n].inputSignature)'
    BY Zenon DEF Recorded
  <2>1. IsSignature(n, saved[n].inputSignature) /\ saved'[n].inputSignature = saved[n].inputSignature
    BY DEF DataInv
  <2>2. Outdated(P, n, saved[n].inputSignature) => Outdated(P, n, saved[n].inputSignature)'
    BY <1>2, <2>1, Zenon
  <2> QED
    BY <2>1, <2>2, Zenon DEF Recorded
<1> QED
  BY <1>2, <1>4, <1>5, Zenon

\* The next build is started.
LEMMA KillRestart ==
  ASSUME QueueFacts, DataInv, SignedInv, NothingParked, ~ContinueOnError,
         NEW P, NEW R, Past(P), Known(P, R), Recorded(P, R), SaveAndStartAgain \/ CrashAndStartAgain
  PROVE  Past(P)' /\ Known(P, R)' /\ Recorded(P, R)'
<1>1. /\ session \in Nat /\ source \in [Node -> Nat] /\ session' = session + 1
      /\ UNCHANGED <<regime, source, disk>>
      /\ \A n \in Node : progress'[n] = "kInitial" /\ ~Made(n)'
  BY DEF DataInv, SaveAndStartAgain, CrashAndStartAgain, FreshQueue, Made, Completed
<1>2. Past(P)'
  BY <1>1, PastKept
<1>3. /\ \A n \in Node : \A c : IsSignature(n, c) => IsSignature(n, c)'
      /\ \A f : IsFile(f) => IsFile(f)' /\ f.stamp # session'
  BY <1>1, SignatureKept DEF IsFile
<1>4. Known(P, R)'
  BY <1>1, <1>3, Zenon DEF Known, Missing
<1>5. Recorded(P, R)'
  <2> SUFFICES ASSUME NEW n \in Node \ NoAction, saved'[n].buildResult = 0
               PROVE  /\ \A d \in Deps[n] : <<d, saved'[n].inputSignature[2][d]>> \in R
                      /\ disk[n].madeFrom = saved'[n].inputSignature \/ Outdated(P, n, saved'[n].inputSignature)
    BY <1>1, Zenon DEF Recorded, Outdated
  <2>1. CASE saved'[n] = saved[n]
    BY <2>1, Zenon DEF Recorded
  <2>2. CASE Made(n) /\ saved'[n].inputSignature = inputSig[n]
    <3>1. progress[n] \notin {"kInitial", "kBlocked"} /\ inputSig[n][2] = DepFiles(n)
      BY <2>2, Zenon DEF Made, Completed, SignedInv, Signed, Unsigned
    <3>2. \A d \in Deps[n] : <<d, DepFiles(n)[d]>> \in R
      BY <3>1, DependenciesMade, DependenciesKnown
    <3> QED
      BY <2>2, <3>1, <3>2, MadeFromSigned, Zenon DEF Outdated
  <2> QED
    BY <2>1, <2>2, SavedEntry, Zenon DEF CrashAndStartAgain
<1> QED
  BY <1>2, <1>4, <1>5

\* What the next build may rely on when builds may be killed.
LEMMA KillStep ==
  ASSUME QueueFacts, DataInv, SignedInv, CleanInv, KillInv, NothingParked, NoMixing,
         FileStep
  PROVE  KillInv'
<1>1. /\ source \in [Node -> Nat] /\ disk = [k \in Node |-> disk[k]] /\ progress \in [Node -> Progress]
      /\ regime \in Regimes
  BY DEF DataInv, QueueFacts
<1>2. regime' = regime
  BY DEF FileStep, SignStep, SpoilStep, MakeStep, Edit, RemoveOutput, StillFiles, dataVars,
                 SaveAndStartAgain, CrashAndStartAgain
<1> SUFFICES ASSUME regime.crash
             PROVE  \E P, R : Past(P)' /\ Known(P, R)' /\ Recorded(P, R)'
  BY <1>2 DEF KillInv
<1>3. ~regime.remove /\ ~ContinueOnError
  BY <1>1 DEF NoMixing
<1>4. PICK P, R : Past(P) /\ Known(P, R) /\ Recorded(P, R)
  BY DEF KillInv
<1>5. ASSUME NEW m \in Node, SignStep(m)
      PROVE  \E P2, R2 : Past(P2)' /\ Known(P2, R2)' /\ Recorded(P2, R2)'
  <2>1. /\ progress[m] = "kUnblocked" /\ UNCHANGED <<result, regime, source, disk, saved, session>>
        /\ progress' = [progress EXCEPT ![m] = IF MustRun(m, InputsOf(m)) THEN "kRunAction" ELSE "kUpToDate"]
    BY <1>5 DEF SignStep
  <2>2. \A n \in Node \ {m} : progress'[n] = progress[n] /\ (Made(n)' <=> Made(n))
    BY <1>1, <2>1 DEF Made, Completed
  <2>3. \A d \in Deps[m] : Made(d)
    BY <1>3, <2>1, DependenciesMade
  <2>4. CASE MustRun(m, InputsOf(m)) \/ m \in NoAction
    <3>1. m \notin NoAction => (Made(m)' <=> Made(m))
      BY <1>1, <2>1, <2>4 DEF Made, Completed
    <3>2. ASSUME m \notin NoAction, saved[m].buildResult = 0 PROVE Outdated(P, m, saved[m].inputSignature)
      <4>1. /\ IsSignature(m, saved[m].inputSignature)
            /\ \A d \in Deps[m] : <<d, saved[m].inputSignature[2][d]>> \in R
            /\ disk[m].madeFrom = saved[m].inputSignature \/ Outdated(P, m, saved[m].inputSignature)
        BY <1>4, <3>2 DEF DataInv, Recorded
      <4>2. CASE disk[m] = Missing
        BY <4>1, <4>2, NoSignature DEF Missing
      <4>3. CASE saved[m].inputSignature # InputsOf(m)
        BY <1>4, <2>3, <4>1, <4>3, DifferentIsOutdated
      <4>4. saved[m] # NoState
        BY <3>2 DEF NoState
      <4> QED
        BY <2>4, <3>2, <4>2, <4>3, <4>4, Zenon DEF MustRun, OutputFilesMissing
    <3>3. \A n \in Node \ NoAction : saved[n].buildResult = 0 /\ progress'[n] = "kRunAction" =>
            Outdated(P, n, saved[n].inputSignature)
      BY <1>4, <2>2, <3>2 DEF Recorded
    <3>4. \A n \in Node : source[n] <= source'[n]
      BY <1>1, <2>1
    <3>5. \A n \in Node \ NoAction : Made(n)' <=> Made(n)
      BY <2>2, <3>1
    <3> QED
      BY <1>1, <1>4, <2>1, <3>3, <3>4, <3>5, KillStill
  <2>5. CASE ~MustRun(m, InputsOf(m)) /\ m \notin NoAction
    <3>1. disk[m].madeFrom = InputsOf(m) /\ disk' = [disk EXCEPT ![m] = disk[m]]
      BY <1>1, <2>1, <2>5, UpToDateSound DEF Unsigned
    <3>2. ~Made(m) /\ Made(m)' /\ progress'[m] # "kRunAction"
      BY <1>1, <2>1, <2>5 DEF Made, Completed
    <3> QED
      BY <1>4, <2>1, <2>2, <2>3, <2>5, <3>1, <3>2, NewlyMade, Zenon
  <2> QED
    BY <2>4, <2>5
<1>6. ASSUME NEW m \in Node, MakeStep(m)
      PROVE  \E P2, R2 : Past(P2)' /\ Known(P2, R2)' /\ Recorded(P2, R2)'
  <2>1. /\ m \in Node \ NoAction /\ progress[m] = "kRunAction" /\ UNCHANGED <<result, regime, source, saved, session>>
        /\ progress' = [progress EXCEPT ![m] = "kSucceeded"] /\ disk' = [disk EXCEPT ![m] = File(InputsOf(m))]
    BY <1>6 DEF MakeStep
  <2>2. \A n \in Node \ {m} : progress'[n] = progress[n] /\ (Made(n)' <=> Made(n))
    BY <1>1, <2>1 DEF Made, Completed
  <2>3. \A d \in Deps[m] : Made(d)
    BY <1>3, <2>1, DependenciesMade
  <2>4. ~Made(m) /\ Made(m)' /\ progress'[m] # "kRunAction"
    BY <1>1, <2>1 DEF Made, Completed
  <2> QED
    BY <1>4, <2>1, <2>2, <2>3, <2>4, NewlyMade, Zenon
<1>7. ASSUME NEW m \in Node, SpoilStep(m)
      PROVE  Past(P)' /\ Known(P, R)' /\ Recorded(P, R)'
  <2>1. /\ m \in Node \ NoAction /\ progress[m] = "kRunAction" /\ UNCHANGED <<result, regime, source, saved, session>>
        /\ session \in Nat
    BY <1>7 DEF SpoilStep, DataInv
  <2>2. PICK f \in {disk[m], Missing, File(Garbage)} : disk' = [disk EXCEPT ![m] = f]
    BY <1>7, Zenon DEF SpoilStep
  <2>3. \A n \in Node : (Made(n)' <=> Made(n)) /\ (progress'[n] = "kRunAction" => progress[n] = "kRunAction")
    BY <1>1, <1>7, <2>1 DEF SpoilStep, Made, Completed
  <2>4. /\ \A n \in Node : \A c : (IsSignature(n, c)' <=> IsSignature(n, c)) /\ (Outdated(P, n, c)' <=> Outdated(P, n, c))
        /\ \A g : IsFile(g)' <=> IsFile(g)
        /\ \A n \in Node : disk'[n] = IF n = m THEN f ELSE disk[n]
    BY <1>1, <2>1, <2>2 DEF IsSignature, Outdated, IsFile
  <2>5. Past(P)'
    <3>1. ASSUME NEW g, <<m, g>> \in P PROVE g # f
      <4>1. IsSignature(m, g.madeFrom) /\ g # disk[m]
        BY <1>4, <3>1 DEF Past
      <4>2. g # Missing /\ g # File(Garbage)
        BY <2>1, <4>1, Files, NoSignature
      <4> QED
        BY <4>1, <4>2
    <3> QED
      BY <1>4, <2>1, <2>4, <3>1, Zenon DEF Past
  <2>6. Known(P, R)'
    <3>1. ~Made(m) /\ ~Made(m)'
      BY <2>1, <2>3 DEF Made, Completed
    <3> QED
      BY <1>4, <2>1, <2>3, <2>4, <3>1, Zenon DEF Known, Missing
  <2>7. Recorded(P, R)'
    BY <1>4, <2>1, <2>3, <2>4, Zenon DEF Recorded
  <2> QED
    BY <2>5, <2>6, <2>7
<1>8. ASSUME NEW m \in Node, Edit(m)
      PROVE  Past(P)' /\ Known(P, R)' /\ Recorded(P, R)'
  <2>1. /\ UNCHANGED <<regime, disk, saved, session, progress, result>> /\ source' \in [Node -> Nat]
        /\ \A n \in Node : source[n] <= source'[n]
    BY <1>1, <1>8 DEF Edit, vars, nodeVars
  <2>2. /\ \A n \in Node \ NoAction : Made(n)' <=> Made(n)
        /\ \A n \in Node \ NoAction : saved[n].buildResult = 0 /\ progress'[n] = "kRunAction" =>
             Outdated(P, n, saved[n].inputSignature)
    BY <1>4, <2>1, Zenon DEF Made, Completed, Recorded
  <2> QED
    BY <1>4, <2>1, <2>2, KillStill, Zenon
<1>9. ASSUME StillFiles
      PROVE  Past(P)' /\ Known(P, R)' /\ Recorded(P, R)'
  <2>1. /\ UNCHANGED <<regime, disk, saved, session, source>>
        /\ \A n \in Node : source[n] <= source'[n]
    BY <1>1, <1>9 DEF StillFiles, dataVars
  <2>2. /\ \A n \in Node \ NoAction : Made(n)' <=> Made(n)
        /\ \A n \in Node \ NoAction : saved[n].buildResult = 0 /\ progress'[n] = "kRunAction" =>
             Outdated(P, n, saved[n].inputSignature)
    BY <1>4, <1>9, Zenon DEF StillFiles, Recorded
  <2> QED
    BY <1>1, <1>4, <2>1, <2>2, KillStill
<1>10. \A m \in Node : ~RemoveOutput(m)
  BY <1>3 DEF RemoveOutput
<1>11. CASE SaveAndStartAgain \/ CrashAndStartAgain
  BY <1>3, <1>4, <1>11, KillRestart
<1> QED
  BY <1>5, <1>6, <1>7, <1>8, <1>9, <1>10, <1>11 DEF FileStep

=============================================================================
