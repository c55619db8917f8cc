---------------------------- MODULE DriverProofs ----------------------------
(***************************************************************************)
(* Proofs about Driver, for every sequence of build scripts, any number of *)
(* invocations and any options, with kills and failing writes.             *)
(***************************************************************************)
EXTENDS Driver, TLAPS

-----------------------------------------------------------------------------
(* What is supposed. *)

\* The process is not killed while it writes the DAG file in place.
WholeDag == "write" \notin Kills

\* Some script makes p an output of n, or an output or auxiliary output.
OutOf(n, p)  == \E k \in DOMAIN Dag : n \in Dag[k].nodes /\ p \in Dag[k].out[n]
PathOf(n, p) == \E k \in DOMAIN Dag : n \in Dag[k].nodes /\ p \in Dag[k].out[n] \cup Dag[k].aux[n]

\* What one guid has as an output no other guid ever writes.
OwnOutputs == \A n, m \in Node : \A p : OutOf(n, p) /\ PathOf(m, p) => n = m

\* A guid has the same outputs in all scripts.
StableOutputs ==
  \A j, k \in DOMAIN Dag : \A n \in Dag[j].nodes \cap Dag[k].nodes : Dag[j].out[n] = Dag[k].out[n]

\* All scripts have p as an output, or only one guid ever writes it.
Always(p) == \A k \in DOMAIN Dag : p \in Outputs(Dag[k])
KeptOrOwned == \A p : Always(p) \/ \A n, m \in Node : PathOf(n, p) /\ PathOf(m, p) => n = m

-----------------------------------------------------------------------------
(* The DAG, and what is in memory. *)

Places == {"idle", "dag", "compile", "write", "loaded", "stale", "prepare", "clean", "build",
           "save", "leave"}
Statuses == {"blocked", "upToDate", "built", "failed"}

\* The DAG file is absent, torn while it is being written, or that of a script
\* at the time of that script.
FreshInv ==
  /\ at \in Places
  /\ edits \in DOMAIN Dag
  /\ \/ dagFile = None
     \/ dagFile = Torn /\ at = "write"
     \/ \E k \in 1 .. edits : dagFile = [text |-> k, time |-> k]
  /\ at = "compile" => json = edits
  /\ Loaded \/ at = "write" => dag = [text |-> edits, time |-> edits]

\* The state in memory is that of the file, and the selected nodes are nodes of
\* the DAG.
MemoryInv ==
  /\ at \in {"stale", "prepare", "clean", "build", "save"} => old = stateFile
  /\ at \in {"clean", "build", "save"} => DOMAIN progress \subseteq Current.nodes
  /\ at = "clean" => \A n \in DOMAIN progress : progress[n] = "blocked"
  /\ progress \in [DOMAIN progress -> Statuses]

\* The entries of a state file: signatures are not from the future, and paths
\* are those some script has for the node.
StateInv ==
  /\ source \in Nat
  /\ DOMAIN stateFile \subseteq Node
  /\ \A n \in DOMAIN stateFile :
       /\ stateFile[n].signature \in Nat /\ stateFile[n].signature <= source
       /\ \A p \in stateFile[n].out \cup stateFile[n].aux : PathOf(n, p)

\* After every step.
LEMMA FreshStep ==
  ASSUME WholeDag, FreshInv, [DriverNext]_driverVars
  PROVE  FreshInv'
<1> USE DEF FreshInv, Loaded, Places, Goto, diskVars
<1>1. edits \in Nat /\ edits >= 1 /\ DOMAIN Dag = 1 .. Len(Dag) /\ Len(Dag) \in Nat
  BY DagAssumption
<1>2. ASSUME UNCHANGED <<edits, dagFile>>, at # "write", at' \in Places \ {"compile", "write"},
             Loaded' => Loaded /\ UNCHANGED dag
      PROVE  FreshInv'
  BY <1>2
<1>3. CASE UseExistingDag
  BY <1>1, <1>3 DEF UseExistingDag, SignaturesMatch, None, Torn
<1>4. CASE RunExternalTool \/ CompileDag \/ WriteDag
  BY <1>1, <1>4 DEF RunExternalTool, CompileDag, WriteDag
<1>5. CASE Leave \/ Kill
  <2>1. /\ at' = "idle" /\ at # "write"
        /\ UNCHANGED <<edits, dagFile>>
    BY <1>5 DEF Leave, Kill, Destroy, WholeDag
  <2> QED
    BY <1>2, <2>1
<1>6. CASE EditScript \/ EditSource
  BY <1>1, <1>6 DEF EditScript, EditSource
<1>7. CASE Start \/ InitData \/ RemoveStaleOutputs \/ PrepareNodes \/ CleanOutputs \/ EndBuild \/ SaveBuildState
  BY <1>2, <1>7 DEF Start, InitData, RemoveStaleOutputs, PrepareNodes, CleanOutputs, EndBuild, SaveBuildState
<1>9. ASSUME NEW n \in DOMAIN progress, UpToDate(n) \/ RunAction(n)
      PROVE  FreshInv'
  BY <1>2, <1>9 DEF UpToDate, RunAction
<1>8. CASE UNCHANGED driverVars
  BY <1>8 DEF driverVars
<1> QED
  BY <1>3, <1>4, <1>5, <1>6, <1>7, <1>8, <1>9 DEF DriverNext

\* What is in memory, after every step.
LEMMA MemoryStep ==
  ASSUME MemoryInv, [DriverNext]_driverVars
  PROVE  MemoryInv'
<1> USE DEF MemoryInv, Goto, diskVars
<1>1. ASSUME UNCHANGED <<old, stateFile, dag, progress>>,
             at' \in {"stale", "prepare", "clean", "build", "save"} =>
               at \in {"stale", "prepare", "clean", "build", "save"},
             at' \in {"clean", "build", "save"} => at \in {"clean", "build", "save"},
             at' = "clean" => at = "clean"
      PROVE  MemoryInv'
  BY <1>1 DEF Current
<1>2. CASE Start \/ RemoveStaleOutputs \/ CleanOutputs \/ EndBuild
  BY <1>1, <1>2 DEF Start, RemoveStaleOutputs, CleanOutputs, EndBuild
<1>3. CASE UseExistingDag \/ RunExternalTool \/ CompileDag \/ WriteDag \/ InitData \/ SaveBuildState
  BY <1>3 DEF UseExistingDag, RunExternalTool, CompileDag, WriteDag, InitData, SaveBuildState
<1>4. CASE PrepareNodes
  <2>1. PICK S \in SUBSET Current.nodes : progress' = [n \in S |-> "blocked"]
    BY <1>4, Zenon DEF PrepareNodes, Reachable
  <2>2. DOMAIN progress' = S /\ progress' \in [S -> Statuses] /\ \A n \in S : progress'[n] = "blocked"
    BY <2>1 DEF Statuses
  <2> QED
    BY <1>4, <2>2 DEF PrepareNodes, Current
<1>5. CASE Leave \/ Kill
  <2>1. at' = "idle" /\ progress' = NoNodes
    BY <1>5 DEF Leave, Kill, Destroy
  <2> QED
    BY <2>1 DEF NoNodes, Statuses
<1>6. CASE EditScript \/ EditSource \/ UNCHANGED driverVars
  BY <1>1, <1>6 DEF EditScript, EditSource, driverVars
<1>7. ASSUME NEW n \in DOMAIN progress, UpToDate(n) \/ RunAction(n)
      PROVE  MemoryInv'
  <2>1. PICK y \in Statuses : progress' = [progress EXCEPT ![n] = y]
    BY <1>7 DEF UpToDate, RunAction, Statuses
  <2>2. DOMAIN progress' = DOMAIN progress /\ progress' \in [DOMAIN progress -> Statuses]
    BY <2>1
  <2> QED
    BY <1>7, <2>2 DEF UpToDate, RunAction, Current
<1> QED
  BY <1>2, <1>3, <1>4, <1>5, <1>6, <1>7 DEF DriverNext

\* The entries that DriverSaveBuildState writes, one by one.
LEMMA SavedEntries ==
  ASSUME FreshInv, MemoryInv, StateInv, at = "save", stateFile' = MergedState
  PROVE  /\ DOMAIN stateFile' \subseteq Node
         /\ \A n \in Node : n \in DOMAIN stateFile' <=>
              IF n \in DOMAIN progress THEN progress[n] # "blocked" \/ n \in DOMAIN stateFile
                                      ELSE n \in DOMAIN stateFile \cap Dag[edits].nodes
         /\ \A n \in DOMAIN stateFile' :
              /\ n \in DOMAIN progress /\ progress[n] = "blocked" => stateFile'[n] = stateFile[n]
              /\ n \in DOMAIN progress /\ progress[n] # "blocked" =>
                   stateFile'[n] = [result |-> IF progress[n] = "failed" THEN 1 ELSE 0, signature |-> source,
                                    out |-> Dag[edits].out[n], aux |-> Dag[edits].aux[n]]
              /\ n \notin DOMAIN progress =>
                   stateFile'[n] = [result |-> stateFile[n].result, signature |-> stateFile[n].signature,
                                    out |-> Dag[edits].out[n], aux |-> Dag[edits].aux[n]]
<1>1. old = stateFile /\ Current = Dag[edits]
  BY DEF MemoryInv, FreshInv, Loaded, Current
<1> DEFINE S == {m \in Node : IF m \in DOMAIN progress THEN SaveNew(m) ELSE SaveOld(m)}
<1>2. DOMAIN stateFile' = S
  BY DEF MergedState
<1>3. \A n \in Node : n \in S <=>
              IF n \in DOMAIN progress THEN progress[n] # "blocked" \/ n \in DOMAIN stateFile
                                      ELSE n \in DOMAIN stateFile \cap Dag[edits].nodes
  BY <1>1 DEF SaveNew, SaveOld
<1>4. \A n \in S : stateFile'[n] =
              IF n \notin DOMAIN progress THEN Entry(n, old[n].result, old[n].signature)
              ELSE IF progress[n] = "blocked" THEN old[n]
              ELSE Entry(n, IF progress[n] = "failed" THEN 1 ELSE 0, source)
  BY DEF MergedState
<1>5. S \subseteq Node
  OBVIOUS
<1> HIDE DEF S
<1>6. ASSUME NEW n \in S
      PROVE  /\ n \in DOMAIN progress /\ progress[n] = "blocked" => stateFile'[n] = stateFile[n]
             /\ n \in DOMAIN progress /\ progress[n] # "blocked" =>
                  stateFile'[n] = [result |-> IF progress[n] = "failed" THEN 1 ELSE 0, signature |-> source,
                                   out |-> Dag[edits].out[n], aux |-> Dag[edits].aux[n]]
             /\ n \notin DOMAIN progress =>
                  stateFile'[n] = [result |-> stateFile[n].result, signature |-> stateFile[n].signature,
                                   out |-> Dag[edits].out[n], aux |-> Dag[edits].aux[n]]
  BY <1>1, <1>4 DEF Entry
<1> QED
  BY <1>2, <1>3, <1>5, <1>6, Zenon

\* The state file, after every step.
LEMMA StateStep ==
  ASSUME FreshInv, MemoryInv, StateInv, [DriverNext]_driverVars
  PROVE  StateInv'
<1> USE DEF StateInv, Goto, diskVars
<1>1. ASSUME UNCHANGED stateFile, source' \in Nat, source' >= source
      PROVE  StateInv'
  BY <1>1
<1>2. CASE SaveBuildState /\ stateFile' = MergedState
  <2>1. at = "save" /\ UNCHANGED source
    BY <1>2 DEF SaveBuildState
  <2>2. DOMAIN progress \subseteq Dag[edits].nodes
    BY <2>1 DEF MemoryInv, FreshInv, Loaded, Current
  <2>3. edits \in DOMAIN Dag
    BY DEF FreshInv
  <2>4. ASSUME NEW n \in DOMAIN stateFile', NEW p \in stateFile'[n].out \cup stateFile'[n].aux
        PROVE  PathOf(n, p)
    <3>1. n \in DOMAIN progress \/ n \in Dag[edits].nodes
      BY <1>2, <2>1, SavedEntries
    <3>2. CASE stateFile'[n] = stateFile[n] /\ n \in DOMAIN stateFile
      BY <2>4, <3>2
    <3>3. CASE p \in Dag[edits].out[n] \cup Dag[edits].aux[n]
      BY <2>2, <2>3, <3>1, <3>3 DEF PathOf
    <3> QED
      BY <1>2, <2>1, <2>4, <3>2, <3>3, SavedEntries
  <2>5. ASSUME NEW n \in DOMAIN stateFile'
        PROVE  stateFile'[n].signature \in Nat /\ stateFile'[n].signature <= source
    BY <1>2, <2>1, SavedEntries
  <2> QED
    BY <1>2, <2>1, <2>4, <2>5, SavedEntries
<1>3. CASE EditSource
  BY <1>1, <1>3 DEF EditSource
<1>4. CASE UNCHANGED <<stateFile, source>>
  BY <1>1, <1>4
<1>5. UNCHANGED <<stateFile, source>> \/ EditSource \/ (SaveBuildState /\ stateFile' = MergedState)
  BY Zenon DEF DriverNext, Start, UseExistingDag, RunExternalTool, CompileDag, WriteDag, InitData, RemoveStaleOutputs,
         PrepareNodes, CleanOutputs, UpToDate, RunAction, EndBuild, SaveBuildState, Leave, Kill, Destroy,
         EditScript, driverVars
<1> QED
  BY <1>2, <1>3, <1>4, <1>5

-----------------------------------------------------------------------------
(* What a step means for the files. *)

Late == {"prepare", "clean", "build", "save"}

\* The nodes whose action has run in this build.
Written == {n \in DOMAIN progress : at \in {"build", "save"} /\ progress[n] \in {"built", "failed"}}

\* Nothing happens to the files and the state file.
QuietStep ==
  /\ UNCHANGED <<files, stateFile, source>> /\ (forgotten' <=> forgotten)
  /\ Written' = Written /\ \A n \in Written : progress'[n] = progress[n]
  /\ at' \in Late => at \in Late /\ edits' = edits

\* The build's result does not reach the state file.
LostStep ==
  /\ UNCHANGED <<files, stateFile, source>>
  /\ forgotten' /\ Written' = {} /\ at' \notin Late

\* n's action succeeds or fails.
WriteStep(n) ==
  LET paths == Dag[edits].out[n] \cup Dag[edits].aux[n]
  IN /\ n \in DOMAIN progress /\ n \in Dag[edits].nodes /\ progress[n] = "blocked"
     /\ UNCHANGED <<stateFile, source, forgotten, at, edits>>
     /\ \/ /\ files' = Without(files, paths) \cup {[path |-> p, by |-> n, source |-> source] : p \in paths}
           /\ progress' = [progress EXCEPT ![n] = "built"]
        \/ /\ files' = Without(files, Dag[edits].out[n])
           /\ progress' = [progress EXCEPT ![n] = "failed"]
     /\ at = "build" /\ Written' = Written \cup {n} /\ n \notin Written

\* The state file is written.
SaveStep ==
  /\ at = "save" /\ stateFile' = MergedState /\ at' = "leave"
  /\ UNCHANGED <<files, source, forgotten>>

\* RunAction.
LEMMA RunEffect ==
  ASSUME FreshInv, MemoryInv, NEW n \in DOMAIN progress, RunAction(n)
  PROVE  WriteStep(n)
<1>1. at = "build" /\ progress[n] = "blocked" /\ Current = Dag[edits]
  BY DEF RunAction, Ready, FreshInv, Loaded, Current
<1>2. n \in Dag[edits].nodes /\ progress \in [DOMAIN progress -> Statuses]
  BY <1>1 DEF MemoryInv
<1>3. PICK y \in {"built", "failed"} : progress' = [progress EXCEPT ![n] = y]
  BY DEF RunAction
<1>4. Written' = Written \cup {n} /\ n \notin Written
  BY <1>1, <1>2, <1>3 DEF RunAction, Written
<1> QED
  BY <1>1, <1>2, <1>4, Zenon DEF RunAction, WriteStep

\* Which steps there are.
LEMMA Effects ==
  ASSUME FreshInv, MemoryInv, [DriverNext]_driverVars
  PROVE  \/ QuietStep \/ LostStep \/ RemoveStaleOutputs \/ CleanOutputs \/ SaveStep \/ EditSource
         \/ \E n \in DOMAIN progress : WriteStep(n)
<1> USE DEF Goto, diskVars
<1>1. ASSUME UNCHANGED <<files, stateFile, source, edits>>, forgotten' <=> forgotten,
             at \notin {"build", "save"}, at' \notin {"build", "save"}, at' \in Late => at \in Late
      PROVE  QuietStep
  BY <1>1 DEF QuietStep, Written
<1>2. CASE Start \/ UseExistingDag \/ RunExternalTool \/ CompileDag \/ WriteDag \/ InitData
  BY <1>1, <1>2 DEF Start, UseExistingDag, RunExternalTool, CompileDag, WriteDag, InitData, Late
<1>3. CASE PrepareNodes
  <2>1. \A n \in DOMAIN progress' : progress'[n] = "blocked"
    BY <1>3 DEF PrepareNodes
  <2>2. Written' = {} /\ Written = {}
    BY <1>3, <2>1 DEF PrepareNodes, Written
  <2> QED
    BY <1>3, <2>2 DEF PrepareNodes, QuietStep, Late
<1>4. ASSUME NEW n \in DOMAIN progress, UpToDate(n)
      PROVE  QuietStep
  <2>1. /\ progress \in [DOMAIN progress -> Statuses] /\ progress[n] = "blocked"
        /\ progress' = [progress EXCEPT ![n] = "upToDate"]
        /\ UNCHANGED <<at, files, stateFile, source, forgotten, edits>>
    BY <1>4 DEF MemoryInv, UpToDate, Ready
  <2>2. Written' = Written /\ \A m \in Written : progress'[m] = progress[m]
    BY <2>1 DEF Written
  <2> QED
    BY <2>1, <2>2 DEF QuietStep
<1>5. CASE EndBuild
  BY <1>5 DEF EndBuild, QuietStep, Written, Late
<1>6. CASE SaveBuildState
  BY <1>6 DEF SaveBuildState, SaveStep, LostStep, Written, Late
<1>7. CASE Leave
  BY <1>1, <1>7 DEF Leave, Destroy, Late
<1>8. CASE Kill
  <2>1. at \in {"build", "save"} => LostStep
    BY <1>8, Zenon DEF Kill, Destroy, LostStep, Written, Late
  <2>2. at \notin {"build", "save"} => (forgotten' <=> forgotten)
    BY <1>8, Zenon DEF Kill
  <2> QED
    BY <1>1, <1>8, <2>1, <2>2 DEF Kill, Destroy, Late
<1>9. CASE EditScript
  BY <1>9 DEF EditScript, QuietStep, Written, Late
<1>10. CASE UNCHANGED driverVars
  BY <1>10 DEF driverVars, QuietStep, Written
<1> QED
  BY <1>2, <1>3, <1>4, <1>5, <1>6, <1>7, <1>8, <1>9, <1>10, RunEffect DEF DriverNext

-----------------------------------------------------------------------------
(* Outputs and the entries that vouch for them. *)

\* A file under an output's path was written by the node it belongs to.
OwnerInv ==
  \A f \in files :
    /\ f = [path |-> f.path, by |-> f.by, source |-> f.source]
    /\ \A n \in Node : OutOf(n, f.path) => f.by = n

\* The entry of n says that its outputs were made from the sources as they are.
Vouches(n) == n \in DOMAIN stateFile /\ stateFile[n].result = 0 /\ stateFile[n].signature = source

\* What a selected node's progress says of its outputs.
ProgressInv ==
  at \in {"build", "save"} =>
    \A n \in DOMAIN progress :
      /\ progress[n] = "upToDate" => Vouches(n) /\ \A p \in Dag[edits].out[n] : Exists(p)
      /\ progress[n] = "built" =>
           \A p \in Dag[edits].out[n] : [path |-> p, by |-> n, source |-> source] \in files

\* With the same outputs in all scripts: an entry that vouches for an output is
\* right even if builds were forgotten since it was written.
StableInv ==
  StableOutputs =>
    \A f \in files : \A n \in Node :
      OutOf(n, f.path) /\ (Vouches(n) \/ n \in Written) => f.source = source

\* As long as no build was forgotten: what exists of a node's outputs, old ones
\* included, its entry knows of, until its action runs.
RecordInv ==
  ~forgotten =>
    /\ \A f \in files : \A n \in Node : OutOf(n, f.path) =>
         /\ n \in Written /\ progress[n] = "built" => f.source = source
         /\ n \notin Written => /\ n \in DOMAIN stateFile
                                /\ f.path \in stateFile[n].out \cup stateFile[n].aux
                                /\ Vouches(n) => f.source = source
    /\ at \in Late => \A f \in files : \A n \in Node : OutOf(n, f.path) =>
         n \in Dag[edits].nodes /\ f.path \in Dag[edits].out[n] \cup Dag[edits].aux[n]

\* The files after n's action.
LEMMA AfterWrite ==
  ASSUME NEW n, WriteStep(n), progress \in [DOMAIN progress -> Statuses]
  PROVE  /\ \A f \in files' :
              \/ f \in files /\ f.path \notin Dag[edits].out[n]
                 /\ (progress'[n] = "built" => f.path \notin Dag[edits].out[n] \cup Dag[edits].aux[n])
              \/ progress'[n] = "built" /\ f.path \in Dag[edits].out[n] \cup Dag[edits].aux[n]
                 /\ f = [path |-> f.path, by |-> n, source |-> source]
         /\ \A f \in files : f.path \notin Dag[edits].out[n] \cup Dag[edits].aux[n] => f \in files'
         /\ progress'[n] = "built" => \A p \in Dag[edits].out[n] : [path |-> p, by |-> n, source |-> source] \in files'
<1> DEFINE out == Dag[edits].out[n]
           paths == out \cup Dag[edits].aux[n]
<1>1. n \in DOMAIN progress
  BY DEF WriteStep
<1>2. CASE /\ files' = Without(files, paths) \cup {[path |-> p, by |-> n, source |-> source] : p \in paths}
           /\ progress' = [progress EXCEPT ![n] = "built"]
  <2>1. progress'[n] = "built"
    BY <1>1, <1>2
  <2> QED
    BY <1>2, <2>1 DEF Without
<1>3. CASE files' = Without(files, out) /\ progress' = [progress EXCEPT ![n] = "failed"]
  <2>1. progress'[n] = "failed"
    BY <1>1, <1>3
  <2> QED
    BY <1>3, <2>1 DEF Without
<1> QED
  BY <1>2, <1>3, Zenon DEF WriteStep

\* A node of the DAG owns its outputs and has its paths.
LEMMA CurrentPaths ==
  ASSUME FreshInv, NEW n \in Dag[edits].nodes
  PROVE  /\ n \in Node
         /\ \A p \in Dag[edits].out[n] : OutOf(n, p)
         /\ \A p \in Dag[edits].out[n] \cup Dag[edits].aux[n] : PathOf(n, p)
         /\ StableOutputs => \A p : OutOf(n, p) => p \in Dag[edits].out[n]
<1>1. edits \in DOMAIN Dag
  BY DEF FreshInv
<1>2. n \in Node
  BY <1>1, DagAssumption
<1> QED
  BY <1>1, <1>2 DEF OutOf, PathOf, StableOutputs

\* Files keep their owners.
LEMMA OwnerStep ==
  ASSUME OwnOutputs, FreshInv, MemoryInv, OwnerInv, [DriverNext]_driverVars
  PROVE  OwnerInv'
<1>1. ASSUME files' \subseteq files
      PROVE  OwnerInv'
  BY <1>1 DEF OwnerInv
<1>2. CASE QuietStep \/ LostStep \/ SaveStep \/ EditSource
  BY <1>1, <1>2 DEF QuietStep, LostStep, SaveStep, EditSource
<1>3. CASE RemoveStaleOutputs \/ CleanOutputs
  BY <1>1, <1>3 DEF RemoveStaleOutputs, CleanOutputs, Without
<1>4. ASSUME NEW n \in DOMAIN progress, WriteStep(n)
      PROVE  OwnerInv'
  <2>1. n \in Dag[edits].nodes /\ progress \in [DOMAIN progress -> Statuses]
    BY <1>4 DEF WriteStep, MemoryInv
  <2>2. ASSUME NEW f \in files', f \notin files
        PROVE  /\ f = [path |-> f.path, by |-> f.by, source |-> f.source] /\ f.by = n
               /\ PathOf(n, f.path)
    BY <1>4, <2>1, <2>2, AfterWrite, CurrentPaths
  <2>3. ASSUME NEW f \in files', f \notin files, NEW m \in Node, OutOf(m, f.path)
        PROVE  f.by = m
    BY <2>1, <2>2, <2>3, CurrentPaths DEF OwnOutputs
  <2> QED
    BY <2>2, <2>3 DEF OwnerInv
<1> QED
  BY <1>2, <1>3, <1>4, Effects

\* What progress says stays so until the build is over.
LEMMA ProgressStep ==
  ASSUME OwnOutputs, FreshInv, MemoryInv, ProgressInv, [DriverNext]_driverVars
  PROVE  ProgressInv'
<1> USE DEF Goto, diskVars
<1>1. ASSUME at' \in {"build", "save"} => \A n \in DOMAIN progress' : progress'[n] = "blocked"
      PROVE  ProgressInv'
  BY <1>1 DEF ProgressInv
<1>2. CASE \/ Start \/ UseExistingDag \/ RunExternalTool \/ CompileDag \/ WriteDag \/ InitData
           \/ RemoveStaleOutputs \/ SaveBuildState \/ Leave \/ Kill \/ EditScript \/ EditSource
  BY <1>1, <1>2, Zenon DEF Start, UseExistingDag, RunExternalTool, CompileDag, WriteDag, InitData, RemoveStaleOutputs,
                    SaveBuildState, Leave, Kill, Destroy, EditScript, EditSource
<1>3. CASE PrepareNodes \/ CleanOutputs
  BY <1>1, <1>3 DEF PrepareNodes, CleanOutputs, MemoryInv
<1>4. CASE EndBuild \/ UNCHANGED driverVars
  <2>1. UNCHANGED <<progress, files, stateFile, source, edits>> /\ (at' \in {"build", "save"} => at \in {"build", "save"})
    BY <1>4 DEF EndBuild, driverVars
  <2> QED
    BY <2>1 DEF ProgressInv, Vouches, Exists
<1>5. ASSUME NEW n \in DOMAIN progress, UpToDate(n)
      PROVE  ProgressInv'
  <2>1. /\ progress \in [DOMAIN progress -> Statuses] /\ at = "build"
        /\ progress' = [progress EXCEPT ![n] = "upToDate"]
        /\ UNCHANGED <<files, stateFile, source, edits>>
    BY <1>5 DEF MemoryInv, UpToDate
  <2>2. old = stateFile /\ Current = Dag[edits]
    BY <2>1 DEF MemoryInv, FreshInv, Loaded, Current
  <2>3. Vouches(n) /\ \A p \in Dag[edits].out[n] : Exists(p)
    BY <1>5, <2>2 DEF UpToDate, MustRun, Vouches
  <2> QED
    BY <2>1, <2>3 DEF ProgressInv, Vouches, Exists
<1>6. ASSUME NEW n \in DOMAIN progress, WriteStep(n)
      PROVE  ProgressInv'
  <2>1. /\ n \in Dag[edits].nodes /\ progress \in [DOMAIN progress -> Statuses] /\ at = "build"
        /\ UNCHANGED <<stateFile, source, edits>> /\ DOMAIN progress \subseteq Dag[edits].nodes
    BY <1>6 DEF WriteStep, MemoryInv, FreshInv, Loaded, Current
  <2>2. /\ DOMAIN progress' = DOMAIN progress /\ progress'[n] \in {"built", "failed"}
        /\ \A m \in DOMAIN progress : m # n => progress'[m] = progress[m]
    BY <1>6, <2>1 DEF WriteStep
  <2>3. ASSUME NEW m \in DOMAIN progress, m # n, NEW p \in Dag[edits].out[m]
        PROVE  p \notin Dag[edits].out[n] \cup Dag[edits].aux[n]
    BY <2>1, <2>3, CurrentPaths DEF OwnOutputs
  <2>4. ASSUME NEW m \in DOMAIN progress, m # n, NEW p \in Dag[edits].out[m]
        PROVE  /\ Exists(p) => Exists(p)'
               /\ [path |-> p, by |-> m, source |-> source] \in files => [path |-> p, by |-> m, source |-> source] \in files'
    <3>1. \A f \in files : f.path = p => f \in files'
      BY <1>6, <2>1, <2>3, <2>4, AfterWrite
    <3> QED
      BY <3>1 DEF Exists
  <2>5. \A m : Vouches(m)' <=> Vouches(m)
    BY <2>1 DEF Vouches
  <2>6. progress'[n] = "built" => \A p \in Dag[edits].out[n] : [path |-> p, by |-> n, source |-> source] \in files'
    BY <1>6, <2>1, AfterWrite
  <2>7. ASSUME NEW m \in DOMAIN progress, m # n
        PROVE  /\ progress'[m] = "upToDate" => Vouches(m)' /\ \A p \in Dag[edits].out[m] : Exists(p)'
               /\ progress'[m] = "built" =>
                    \A p \in Dag[edits].out[m] : [path |-> p, by |-> m, source |-> source] \in files'
    BY <2>1, <2>2, <2>4, <2>5, <2>7, Zenon DEF ProgressInv
  <2> QED
    BY <2>1, <2>2, <2>6, <2>7 DEF ProgressInv
<1> QED
  BY <1>2, <1>3, <1>4, <1>5, <1>6, RunEffect DEF DriverNext

\* DriverSaveBuildState vouches for nothing that was not built or vouched for.
LEMMA SavedVouches ==
  ASSUME FreshInv, MemoryInv, StateInv, ProgressInv, SaveStep, NEW n \in Node, Vouches(n)'
  PROVE  (Vouches(n) /\ n \notin Written) \/ (n \in Written /\ progress[n] = "built")
<1>1. /\ at = "save" /\ stateFile' = MergedState /\ UNCHANGED source /\ n \in DOMAIN stateFile'
      /\ stateFile'[n].result = 0 /\ stateFile'[n].signature = source
      /\ progress \in [DOMAIN progress -> Statuses]
  BY DEF SaveStep, Vouches, MemoryInv
<1>2. CASE n \notin DOMAIN progress
  BY <1>1, <1>2, SavedEntries DEF Vouches, Written
<1>3. CASE n \in DOMAIN progress /\ progress[n] = "blocked"
  BY <1>1, <1>3, SavedEntries DEF Vouches, Written
<1>4. CASE n \in DOMAIN progress /\ progress[n] # "blocked"
  <2>1. progress[n] # "failed"
    BY <1>1, <1>4, SavedEntries
  <2>2. progress[n] = "built" \/ progress[n] = "upToDate"
    BY <1>1, <1>4, <2>1 DEF Statuses
  <2> QED
    BY <1>1, <1>4, <2>2 DEF ProgressInv, Written
<1> QED
  BY <1>2, <1>3, <1>4

\* Where nothing is written no action has run.
LEMMA NotWritten ==
  ASSUME MemoryInv
  PROVE  /\ at \notin {"build", "save"} => Written = {}
         /\ at' \notin {"build", "save"} => Written' = {}
         /\ CleanOutputs => Written' = {}
  BY DEF Written, CleanOutputs, MemoryInv, Goto

\* Another source version: no entry vouches for anything.
LEMMA EditedVouches ==
  ASSUME StateInv, EditSource, NEW n
  PROVE  ~Vouches(n)'
<1>1. /\ source \in Nat /\ source' = source + 1 /\ stateFile' = stateFile
      /\ n \in DOMAIN stateFile => stateFile[n].signature \in Nat /\ stateFile[n].signature <= source
  BY DEF StateInv, EditSource
<1> QED
  BY <1>1 DEF Vouches

\* With stable outputs entries stay right.
LEMMA StableStep ==
  ASSUME OwnOutputs, FreshInv, MemoryInv, StateInv, ProgressInv, StableInv, [DriverNext]_driverVars
  PROVE  StableInv'
<1> SUFFICES ASSUME StableOutputs, NEW f \in files', NEW n \in Node, OutOf(n, f.path),
                    Vouches(n)' \/ n \in Written'
             PROVE  f.source = source'
  BY DEF StableInv
<1>1. f \in files /\ (Vouches(n) \/ n \in Written) => f.source = source
  BY DEF StableInv
<1>2. CASE QuietStep \/ LostStep
  BY <1>1, <1>2 DEF QuietStep, LostStep, Vouches
<1>3. CASE RemoveStaleOutputs \/ CleanOutputs
  <2>1. f \in files /\ UNCHANGED <<stateFile, source>>
    BY <1>3 DEF RemoveStaleOutputs, CleanOutputs, Without
  <2>2. n \notin Written'
    BY <1>3, NotWritten DEF RemoveStaleOutputs, Goto
  <2> QED
    BY <1>1, <2>1, <2>2 DEF Vouches
<1>4. ASSUME NEW m \in DOMAIN progress, WriteStep(m)
      PROVE  f.source = source'
  <2>1. /\ m \in Dag[edits].nodes /\ progress \in [DOMAIN progress -> Statuses]
        /\ UNCHANGED <<stateFile, source>> /\ Written' = Written \cup {m}
    BY <1>4 DEF WriteStep, MemoryInv
  <2>2. CASE n = m
    BY <1>4, <2>1, <2>2, AfterWrite, CurrentPaths
  <2>3. CASE n # m
    <3>1. f.path \notin Dag[edits].out[m] \cup Dag[edits].aux[m]
      BY <2>1, <2>3, CurrentPaths DEF OwnOutputs
    <3>2. f \in files
      BY <1>4, <2>1, <3>1, AfterWrite
    <3> QED
      BY <1>1, <2>1, <2>3, <3>2 DEF Vouches
  <2> QED
    BY <2>2, <2>3
<1>5. CASE SaveStep
  <2>1. n \notin Written' /\ UNCHANGED <<files, source>>
    BY <1>5, NotWritten DEF SaveStep
  <2> QED
    BY <1>1, <1>5, <2>1, SavedVouches
<1>6. CASE EditSource
  BY <1>6, EditedVouches, NotWritten DEF EditSource
<1> QED
  BY <1>2, <1>3, <1>4, <1>5, <1>6, Effects

\* What exists stays recorded as long as every build's result is saved.
LEMMA RecordStep ==
  ASSUME OwnOutputs, FreshInv, FreshInv', MemoryInv, StateInv, ProgressInv, RecordInv, [DriverNext]_driverVars
  PROVE  RecordInv'
<1> DEFINE Held(f, n) ==
             /\ n \in Written /\ progress[n] = "built" => f.source = source
             /\ n \notin Written => /\ n \in DOMAIN stateFile
                                    /\ f.path \in stateFile[n].out \cup stateFile[n].aux
                                    /\ Vouches(n) => f.source = source
           Listed(f, n) ==
             at \in Late => n \in Dag[edits].nodes /\ f.path \in Dag[edits].out[n] \cup Dag[edits].aux[n]
<1> SUFFICES ASSUME ~forgotten', NEW f \in files', NEW n \in Node, OutOf(n, f.path)
             PROVE  Held(f, n)' /\ Listed(f, n)'
  BY DEF RecordInv
<1>1. ~forgotten /\ f \in files => Held(f, n) /\ Listed(f, n)
  BY DEF RecordInv
<1>2. CASE QuietStep
  BY <1>1, <1>2 DEF QuietStep, Vouches
<1>3. CASE LostStep
  BY <1>3 DEF LostStep
<1>4. CASE CleanOutputs
  <2>1. /\ f \in files /\ UNCHANGED <<stateFile, source, forgotten, edits>> /\ at = "clean"
        /\ Written = {} /\ Written' = {}
    BY <1>4, NotWritten DEF CleanOutputs, Without
  <2> QED
    BY <1>1, <2>1 DEF Vouches, Late
<1>5. CASE RemoveStaleOutputs
  <2>1. /\ f \in files /\ UNCHANGED <<stateFile, source, forgotten, edits>> /\ at = "stale"
        /\ Written = {} /\ Written' = {} /\ f.path \notin StaleFiles
    BY <1>5, NotWritten DEF RemoveStaleOutputs, Without, Goto
  <2>2. n \in DOMAIN stateFile /\ f.path \in stateFile[n].out \cup stateFile[n].aux
    BY <1>1, <2>1
  <2>3. f.path \in Outputs(Dag[edits])
    BY <2>1, <2>2 DEF StaleFiles, Recorded, MemoryInv, FreshInv, Loaded, Current
  <2>4. PICK m \in Dag[edits].nodes : f.path \in Dag[edits].out[m] \cup Dag[edits].aux[m]
    BY <2>3 DEF Outputs
  <2>5. m = n
    BY <2>4, CurrentPaths DEF OwnOutputs
  <2> QED
    BY <1>1, <2>1, <2>4, <2>5 DEF Vouches
<1>6. ASSUME NEW m \in DOMAIN progress, WriteStep(m)
      PROVE  Held(f, n)' /\ Listed(f, n)'
  <2>1. /\ m \in Dag[edits].nodes /\ progress \in [DOMAIN progress -> Statuses]
        /\ UNCHANGED <<stateFile, source, forgotten, edits, at>> /\ Written' = Written \cup {m}
        /\ at = "build"
    BY <1>6 DEF WriteStep, MemoryInv
  <2>2. CASE n = m
    <3>1. f \notin files => /\ f.path \in Dag[edits].out[m] \cup Dag[edits].aux[m]
                            /\ f.source = source
      BY <1>6, <2>1, AfterWrite
    <3>2. f \in files => /\ f.path \in Dag[edits].out[m] \cup Dag[edits].aux[m]
                         /\ progress'[m] = "built" => f.source = source
      BY <1>1, <1>6, <2>1, <2>2, AfterWrite DEF Late
    <3> QED
      BY <2>1, <2>2, <3>1, <3>2
  <2>3. CASE n # m
    <3>1. f.path \notin Dag[edits].out[m] \cup Dag[edits].aux[m]
      BY <2>1, <2>3, CurrentPaths DEF OwnOutputs
    <3>2. f \in files
      BY <1>6, <2>1, <3>1, AfterWrite
    <3>3. n \in Written => progress'[n] = progress[n]
      BY <1>6, <2>1, <2>3 DEF WriteStep, Written
    <3> QED
      BY <1>1, <2>1, <2>3, <3>2, <3>3 DEF Vouches
  <2> QED
    BY <2>2, <2>3
<1>7. CASE SaveStep
  <2>1. /\ Written' = {} /\ UNCHANGED <<files, source, forgotten>> /\ at = "save" /\ at' \notin Late
        /\ progress \in [DOMAIN progress -> Statuses] /\ stateFile' = MergedState
    BY <1>7, NotWritten DEF SaveStep, Late, MemoryInv
  <2>2. Held(f, n) /\ n \in Dag[edits].nodes /\ f.path \in Dag[edits].out[n] \cup Dag[edits].aux[n]
    BY <1>1, <2>1 DEF Late
  <2>3. Vouches(n)' => f.source = source
    BY <1>7, <2>2, SavedVouches
  <2>4. n \in DOMAIN stateFile' /\ f.path \in stateFile'[n].out \cup stateFile'[n].aux
    <3>1. CASE n \notin DOMAIN progress
      BY <2>1, <2>2, <3>1, SavedEntries DEF Written
    <3>2. CASE n \in DOMAIN progress /\ progress[n] = "blocked"
      BY <2>1, <2>2, <3>2, SavedEntries DEF Written
    <3>3. CASE n \in DOMAIN progress /\ progress[n] # "blocked"
      BY <2>1, <2>2, <3>3, SavedEntries
    <3> QED
      BY <3>1, <3>2, <3>3
  <2> QED
    BY <2>1, <2>3, <2>4
<1>8. CASE EditSource
  <2>1. /\ UNCHANGED <<files, stateFile, forgotten>> /\ at' \notin Late
        /\ Written = {} /\ Written' = {} /\ ~Vouches(n)'
    BY <1>8, EditedVouches, NotWritten DEF EditSource, Late
  <2> QED
    BY <1>1, <2>1
<1> QED
  BY <1>2, <1>3, <1>4, <1>5, <1>6, <1>7, <1>8, Effects, Zenon

-----------------------------------------------------------------------------
(* Nothing is lost sight of. *)

\* As long as no build was forgotten: what exists is an output in all scripts,
\* or recorded, or was written just now.  After DriverRemoveStaleOutputs it is
\* an output of the DAG.
KnownInv ==
  ~forgotten =>
    /\ \A f \in files :
         \/ Always(f.path) \/ f.path \in Recorded(stateFile)
         \/ \E n \in Written : f.path \in Dag[edits].out[n] \cup Dag[edits].aux[n]
    /\ at \in Late => \A f \in files : f.path \in Outputs(Dag[edits])

\* What was recorded of an output that is still one stays recorded.
LEMMA StaysRecorded ==
  ASSUME KeptOrOwned, FreshInv, MemoryInv, StateInv, SaveStep, NEW p,
         p \in Recorded(stateFile), p \in Outputs(Dag[edits])
  PROVE  Always(p) \/ p \in Recorded(stateFile')
<1> SUFFICES ASSUME ~Always(p) PROVE p \in Recorded(stateFile')
  OBVIOUS
<1>1. PICK n \in DOMAIN stateFile : p \in stateFile[n].out \cup stateFile[n].aux
  BY DEF Recorded
<1>2. PICK m \in Dag[edits].nodes : p \in Dag[edits].out[m] \cup Dag[edits].aux[m]
  BY DEF Outputs
<1>3. n \in Node /\ PathOf(n, p) /\ m \in Node /\ PathOf(m, p)
  BY <1>1, <1>2, CurrentPaths DEF StateInv
<1>4. n = m
  BY <1>3 DEF KeptOrOwned
<1>5. at = "save" /\ stateFile' = MergedState
  BY DEF SaveStep
<1>6. n \in DOMAIN stateFile'
  BY <1>1, <1>2, <1>3, <1>4, <1>5, SavedEntries
<1>7. stateFile'[n] = stateFile[n] \/ (stateFile'[n].out = Dag[edits].out[n] /\ stateFile'[n].aux = Dag[edits].aux[n])
  BY <1>5, <1>6, SavedEntries
<1>8. p \in stateFile'[n].out \cup stateFile'[n].aux
  BY <1>1, <1>2, <1>4, <1>7
<1> QED
  BY <1>6, <1>8 DEF Recorded

\* After every step.
LEMMA KnownStep ==
  ASSUME KeptOrOwned, FreshInv, MemoryInv, StateInv, KnownInv, [DriverNext]_driverVars
  PROVE  KnownInv'
<1> DEFINE Seen(f) == \/ Always(f.path) \/ f.path \in Recorded(stateFile)
                      \/ \E n \in Written : f.path \in Dag[edits].out[n] \cup Dag[edits].aux[n]
           Listed(f) == at \in Late => f.path \in Outputs(Dag[edits])
<1> SUFFICES ASSUME ~forgotten', NEW f \in files'
             PROVE  Seen(f)' /\ Listed(f)'
  BY DEF KnownInv
<1>1. ~forgotten /\ f \in files => Seen(f) /\ Listed(f)
  BY DEF KnownInv
<1>2. CASE QuietStep
  <2>1. ~forgotten /\ f \in files /\ UNCHANGED stateFile /\ Written' = Written
    BY <1>2 DEF QuietStep
  <2>2. Written # {} => edits' = edits
    BY <1>2, <2>1, NotWritten DEF QuietStep, Late
  <2> QED
    BY <1>1, <1>2, <2>1, <2>2 DEF QuietStep
<1>3. CASE LostStep
  BY <1>3 DEF LostStep
<1>4. CASE CleanOutputs
  <2>1. /\ f \in files /\ UNCHANGED <<stateFile, forgotten, edits>> /\ at = "clean" /\ Written = {}
    BY <1>4, NotWritten DEF CleanOutputs, Without
  <2> QED
    BY <1>1, <2>1 DEF Late
<1>5. CASE RemoveStaleOutputs
  <2>1. /\ f \in files /\ UNCHANGED <<stateFile, forgotten, edits>> /\ at = "stale" /\ Written = {}
        /\ f.path \notin StaleFiles
    BY <1>5, NotWritten DEF RemoveStaleOutputs, Without
  <2>2. Always(f.path) \/ f.path \in Recorded(stateFile)
    BY <1>1, <2>1
  <2>3. f.path \in Outputs(Dag[edits])
    BY <2>1, <2>2 DEF StaleFiles, MemoryInv, FreshInv, Loaded, Current, Always
  <2> QED
    BY <2>1, <2>2, <2>3
<1>6. ASSUME NEW m \in DOMAIN progress, WriteStep(m)
      PROVE  Seen(f)' /\ Listed(f)'
  <2>1. /\ m \in Dag[edits].nodes /\ progress \in [DOMAIN progress -> Statuses]
        /\ UNCHANGED <<stateFile, forgotten, edits, at>> /\ Written' = Written \cup {m}
    BY <1>6 DEF WriteStep, MemoryInv
  <2>2. CASE f \in files
    BY <1>1, <2>1, <2>2
  <2>3. CASE f \notin files
    <3>1. f.path \in Dag[edits].out[m] \cup Dag[edits].aux[m]
      BY <1>6, <2>1, <2>3, AfterWrite
    <3> QED
      BY <2>1, <3>1 DEF Outputs
  <2> QED
    BY <2>2, <2>3
<1>7. CASE SaveStep
  <2>1. /\ f \in files /\ ~forgotten /\ at = "save" /\ at' \notin Late
        /\ progress \in [DOMAIN progress -> Statuses] /\ stateFile' = MergedState
    BY <1>7 DEF SaveStep, Late, MemoryInv
  <2>2. Seen(f) /\ f.path \in Outputs(Dag[edits])
    BY <1>1, <2>1 DEF Late
  <2>3. ASSUME NEW n \in Written, f.path \in Dag[edits].out[n] \cup Dag[edits].aux[n]
        PROVE  f.path \in Recorded(stateFile')
    <3>1. n \in Node /\ n \in DOMAIN progress /\ progress[n] # "blocked"
      BY <2>1, CurrentPaths DEF Written, MemoryInv, FreshInv, Loaded, Current
    <3>2. n \in DOMAIN stateFile' /\ f.path \in stateFile'[n].out \cup stateFile'[n].aux
      BY <2>1, <2>3, <3>1, SavedEntries
    <3> QED
      BY <3>2 DEF Recorded
  <2> QED
    BY <1>7, <2>1, <2>2, <2>3, StaysRecorded
<1>8. CASE EditSource
  <2>1. UNCHANGED <<files, stateFile, forgotten>> /\ at' \notin Late /\ Written = {}
    BY <1>8, NotWritten DEF EditSource, Late
  <2> QED
    BY <1>1, <2>1
<1> QED
  BY <1>2, <1>3, <1>4, <1>5, <1>6, <1>7, <1>8, Effects

-----------------------------------------------------------------------------
(* The properties. *)

\* What holds whatever the scripts give to which node.
CoreInv == FreshInv /\ MemoryInv /\ StateInv

\* Before the first invocation.
LEMMA CoreInit == DriverInit => CoreInv
<1> SUFFICES ASSUME DriverInit PROVE CoreInv
  OBVIOUS
<1>1. FreshInv
  BY DagAssumption DEF DriverInit, FreshInv, Places, Loaded
<1>2. MemoryInv
  BY DEF DriverInit, MemoryInv, NoNodes, Statuses
<1>3. StateInv
  BY DEF DriverInit, StateInv, NoNodes
<1> QED
  BY <1>1, <1>2, <1>3 DEF CoreInv

\* After every step.
LEMMA CoreStep ==
  ASSUME WholeDag
  PROVE  CoreInv /\ [DriverNext]_driverVars => CoreInv'
  BY FreshStep, MemoryStep, StateStep DEF CoreInv

\* An invocation never builds from a DAG that is not the one the build script
\* describes, however the earlier ones ended (DriverCheckDagSignatures).
THEOREM DagFreshHolds ==
  ASSUME WholeDag
  PROVE  DriverSpec => []DagFresh
<1>1. CoreInv => DagFresh
  BY DEF CoreInv, FreshInv, DagFresh
<1> QED
  BY <1>1, CoreInit, CoreStep, PTL DEF DriverSpec

\* The invariant of the outputs.
OutputInv == CoreInv /\ OwnerInv /\ ProgressInv /\ StableInv /\ RecordInv

\* What it says at the end of a build.
LEMMA OutputsBuilt ==
  ASSUME OutputInv, StableOutputs \/ ~forgotten
  PROVE  BuiltFromThis
<1> SUFFICES ASSUME at = "save", NEW n \in DOMAIN progress, Done(n), NEW p \in Current.out[n]
             PROVE  [path |-> p, by |-> n, source |-> source] \in files
  BY DEF BuiltFromThis
<1>1. Current = Dag[edits] /\ n \in Dag[edits].nodes
  BY DEF OutputInv, CoreInv, MemoryInv, FreshInv, Loaded, Current
<1>2. CASE progress[n] = "built"
  BY <1>1, <1>2 DEF OutputInv, ProgressInv
<1>3. CASE progress[n] = "upToDate"
  <2>1. PICK f \in files : f.path = p
    BY <1>1, <1>3 DEF OutputInv, ProgressInv, Exists
  <2>2. OutOf(n, f.path) /\ n \in Node
    BY <1>1, <2>1, CurrentPaths DEF OutputInv, CoreInv
  <2>3. Vouches(n) /\ n \notin Written
    BY <1>3 DEF OutputInv, ProgressInv, Written
  <2>4. f.source = source
    BY <2>2, <2>3 DEF OutputInv, StableInv, RecordInv
  <2>5. f = [path |-> f.path, by |-> f.by, source |-> f.source] /\ f.by = n
    BY <2>2 DEF OutputInv, OwnerInv
  <2> QED
    BY <2>1, <2>4, <2>5
<1> QED
  BY <1>2, <1>3 DEF Done

\* A build that ends with every selected node done has their outputs from these
\* nodes and these sources, provided no other guid writes them: as long as every
\* earlier build's result was saved, whatever outputs the scripts gave to a guid,
\* and after kills and failed writes if a guid keeps its outputs
\* (CheckInputSignature against DriverSaveBuildState over several DAGs).
THEOREM BuiltFromThisHolds ==
  ASSUME WholeDag, OwnOutputs
  PROVE  DriverSpec => [](StableOutputs \/ ~forgotten => BuiltFromThis)
<1>1. DriverInit => OutputInv
  <2> SUFFICES ASSUME DriverInit PROVE OutputInv
    OBVIOUS
  <2>1. files = {} /\ at = "idle"
    BY DEF DriverInit
  <2> QED
    BY <2>1, CoreInit DEF OutputInv, OwnerInv, ProgressInv, StableInv, RecordInv, Late
<1>2. OutputInv /\ [DriverNext]_driverVars => OutputInv'
  BY CoreStep, OwnerStep, ProgressStep, StableStep, RecordStep DEF OutputInv, CoreInv
<1>3. OutputInv => (StableOutputs \/ ~forgotten => BuiltFromThis)
  BY OutputsBuilt
<1> QED
  BY <1>1, <1>2, <1>3, PTL DEF DriverSpec

\* Between invocations every file Tundra has made is an output of the DAG or
\* recorded, if a path that some script drops is never given to another guid
\* (DriverSaveBuildState, DriverRemoveStaleOutputs).
THEOREM NoOrphansHolds ==
  ASSUME WholeDag, KeptOrOwned
  PROVE  DriverSpec => []NoOrphans
<1>1. DriverInit => CoreInv /\ KnownInv
  BY CoreInit DEF DriverInit, KnownInv, Late
<1>2. CoreInv /\ KnownInv /\ [DriverNext]_driverVars => (CoreInv /\ KnownInv)'
  BY CoreStep, KnownStep DEF CoreInv
<1>3. CoreInv /\ KnownInv => NoOrphans
  <2> SUFFICES ASSUME CoreInv, KnownInv, at = "idle", ~forgotten, NEW f \in files
               PROVE  f.path \in Outputs(Dag[edits]) \cup Recorded(stateFile)
    BY DEF NoOrphans
  <2>1. edits \in DOMAIN Dag /\ Written = {}
    BY NotWritten DEF CoreInv, FreshInv
  <2> QED
    BY <2>1 DEF KnownInv, Always
<1> QED
  BY <1>1, <1>2, <1>3, PTL DEF DriverSpec

\* DriverRemoveStaleOutputs leaves no recorded file that the DAG has dropped, no
\* directory that only held such files, and everything the DAG produces.
THEOREM StaleRemovedHolds == DriverSpec => StaleRemoved
<1> DEFINE Removes ==
             at = "stale" /\ at' = "prepare" =>
               /\ \A f \in files' : f.path \in Recorded(old) => f.path \in Outputs(Current)
               /\ \A f \in files : f.path \in Outputs(Current) => f \in files'
               /\ \A d \in dirs' : (\E p \in Recorded(old) \ Outputs(Current) : d \in Parents(p)) =>
                    \/ \E f \in files' : d \in Parents(f.path)
                    \/ \E e \in dirs' : d \in Parents(e)
<1>1. [DriverNext]_driverVars => [Removes]_driverVars
  <2> SUFFICES ASSUME DriverNext, at = "stale", at' = "prepare" PROVE Removes
    OBVIOUS
  <2>1. RemoveStaleOutputs
    BY Zenon DEF DriverNext, Start, UseExistingDag, RunExternalTool, CompileDag, WriteDag, InitData, PrepareNodes,
           CleanOutputs, UpToDate, RunAction, EndBuild, SaveBuildState, Leave, Kill, Destroy, EditScript,
           EditSource, Goto
  <2>2. /\ \A f \in files' : f.path \in Recorded(old) => f.path \in Outputs(Current)
        /\ \A f \in files : f.path \in Outputs(Current) => f \in files'
    BY <2>1 DEF RemoveStaleOutputs, Without, StaleFiles
  <2>3. ASSUME NEW d \in dirs', NEW p \in StaleFiles, d \in Parents(p)
        PROVE  (\E f \in files' : d \in Parents(f.path)) \/ (\E e \in dirs' : d \in Parents(e))
    BY <2>1, <2>3, Zenon DEF RemoveStaleOutputs, RemoveInOrder
  <2> QED
    BY <2>2, <2>3 DEF StaleFiles
<1> QED
  BY <1>1, PTL DEF DriverSpec, StaleRemoved

=============================================================================
