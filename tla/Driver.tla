------------------------------- MODULE Driver -------------------------------
(***************************************************************************)
(* src/src/Main.cpp, Driver.cpp and DagGenerator.cpp: what one invocation  *)
(* of Tundra does around the build proper, over several invocations.  The  *)
(* DAG is generated anew when the build script has changed, outputs that   *)
(* nothing produces any more are removed, the nodes the targets need are   *)
(* built, and the state file is merged and written.  The process may be    *)
(* killed between any two steps; the memory is lost, the files stay.       *)
(*                                                                         *)
(* A path is the sequence of its segments.  The guid of a node is its      *)
(* identity: it is computed from action, inputs and annotation, so two     *)
(* versions of a DAG may give different outputs to the same guid.  The     *)
(* build itself is the abstract one of BuildOrder: nodes run after their   *)
(* dependencies, one after another.                                        *)
(***************************************************************************)
EXTENDS Integers, Sequences

CONSTANTS
  Node,          \* guids
  Dag,           \* Dag[k]: the DAG the k-th text of the build script describes
  Options,       \* the option sets with which Tundra is started
  Invocations,   \* bound: how often it is started
  SourceEdits,   \* bound: how often the source files are changed
  Kills,         \* the places where the process may be killed
  WritesFail     \* whether the writing of the state file may fail

ASSUME DagAssumption ==
  /\ Len(Dag) \in Nat \ {0} /\ DOMAIN Dag = 1 .. Len(Dag)
  /\ \A k \in DOMAIN Dag :
       /\ Dag[k].nodes \subseteq Node
       /\ \A n \in Dag[k].nodes : Dag[k].deps[n] \subseteq Dag[k].nodes

VARIABLES
  edits,     \* the text of the build script that is on disk; its timestamp too
  source,    \* the version of the source files
  files,     \* the files that exist: [path, by, source]
  dirs,      \* the directories that exist
  dagFile,   \* .tundra2.dag
  stateFile, \* .tundra2.state: an entry per guid
  at,        \* where the process is
  option,    \* its options
  json,      \* what the generator has written: the text it read
  dag,       \* m_DagData
  old,       \* m_StateData
  progress,  \* m_Nodes: the progress of the selected nodes
  starts,    \* invocations so far
  forgotten  \* history: some build's result never reached the state file

diskVars == <<edits, source, files, dirs, dagFile, stateFile>>
driverVars == <<diskVars, at, option, json, dag, old, progress, starts, forgotten>>

-----------------------------------------------------------------------------
(* Helpers. *)

None == [text |-> 0, time |-> 0]
Torn == [text |-> -1, time |-> -1]
NoNodes == [n \in {} |-> "blocked"]

Outputs(d)    == UNION {d.out[n] \cup d.aux[n] : n \in d.nodes}
Recorded(s)   == UNION {s[n].out \cup s[n].aux : n \in DOMAIN s}
Exists(path)  == \E f \in files : f.path = path
Without(fs, paths) == {f \in fs : f.path \notin paths}

\* The directories above a path: PathStripLast until nothing is left.
Parents(path) == {SubSeq(path, 1, i) : i \in 1 .. Len(path) - 1}

Goto(place) == at' = place
NoOption == [targets |-> {}, mode |-> "none", regen |-> FALSE]

-----------------------------------------------------------------------------
(* DriverPrepareDag, GenerateDag. *)

\* main() up to DriverInitData.
Start ==
  /\ at = "idle" /\ starts < Invocations
  /\ starts' = starts + 1
  /\ option' \in Options
  /\ Goto("dag")
  /\ UNCHANGED <<diskVars, json, dag, old, progress, forgotten>>

\* Slip: an existing DAG is used as it is.
SignaturesMatch_Exists(f) == f # None

\* DriverCheckDagSignatures: the time of the build script has not changed.  A
\* file of which only a part was written passes the checks of LoadFrozenData,
\* which look at its beginning, and may match.
SignaturesMatch(f) == f.time \in {edits, Torn.time}

UseExistingDag ==
  /\ at = "dag"
  /\ ~option.regen /\ dagFile # None
  /\ SignaturesMatch(dagFile)
  /\ dag' = dagFile
  /\ Goto("loaded")
  /\ UNCHANGED <<diskVars, option, json, old, progress, starts, forgotten>>

\* The old JSON file is removed and the generator runs; it may fail.
RunExternalTool ==
  /\ at = "dag"
  /\ option.regen \/ dagFile.time # edits
  /\ \/ json' = edits /\ Goto("compile")
     \/ json' = 0 /\ Goto("leave")
  /\ UNCHANGED <<diskVars, option, dag, old, progress, starts, forgotten>>

\* CompileDag: the signatures are those of the files as they are now, not as
\* the generator read them.  The DAG file is overwritten in place.
CompileDag ==
  /\ at = "compile"
  /\ dag' = [text |-> json, time |-> edits]
  /\ dagFile' = Torn
  /\ Goto("write")
  /\ UNCHANGED <<edits, source, files, dirs, stateFile, option, json, old, progress, starts, forgotten>>

\* BinaryWriterFlush.  If it fails the process ends and leaves what a kill here
\* leaves.
WriteDag ==
  /\ at = "write"
  /\ dagFile' = dag
  /\ Goto("loaded")
  /\ UNCHANGED <<edits, source, files, dirs, stateFile, option, json, dag, old, progress, starts, forgotten>>

\* The rest of DriverInitData: the state file is mapped.  --dag-regen-only and
\* --show-targets end here.
InitData ==
  /\ at = "loaded"
  /\ old' = stateFile
  /\ Goto(IF option.mode \in {"regenOnly", "show"} THEN "leave" ELSE "stale")
  /\ UNCHANGED <<diskVars, option, json, dag, progress, starts, forgotten>>

Current == Dag[dag.text]

-----------------------------------------------------------------------------
(* DriverRemoveStaleOutputs. *)

\* Slip: the auxiliary outputs of the DAG are not looked at.
StaleFiles_NoAux == {p \in Recorded(old) : p \notin UNION {Current.out[n] : n \in Current.nodes}}

\* What an earlier build has left and no node of the DAG produces.
StaleFiles == Recorded(old) \ Outputs(Current)

\* Directories that are left when, after the stale files, their parents are
\* removed, the longest path first: only empty ones can be.
RemoveInOrder(ds, left) ==
  {d \in ds : \/ \A p \in StaleFiles : d \notin Parents(p)
              \/ \E f \in left : d \in Parents(f.path)
              \/ \E e \in ds : d \in Parents(e) /\ \A p \in StaleFiles : e \notin Parents(p)}

RemoveStaleOutputs ==
  /\ at = "stale"
  /\ files' = Without(files, StaleFiles)
  /\ dirs' = RemoveInOrder(dirs, files')
  /\ Goto("prepare")
  /\ UNCHANGED <<edits, source, dagFile, stateFile, option, json, dag, old, progress, starts, forgotten>>

-----------------------------------------------------------------------------
(* DriverPrepareNodes, DriverCleanOutputs. *)

\* The nodes the work list visits: the smallest set with these nodes that has
\* the dependencies of its members.
Reachable(d, nodes) ==
  {n \in d.nodes :
     \A S \in SUBSET d.nodes :
       nodes \subseteq S /\ (\A m \in S : d.deps[m] \subseteq S) => n \in S}

\* Named targets that the DAG has, or its default nodes.
Selected(d, targets) ==
  IF targets = {} THEN d.default ELSE targets \cap d.nodes

PrepareNodes ==
  /\ at = "prepare"
  /\ progress' = [n \in Reachable(Current, Selected(Current, option.targets)) |-> "blocked"]
  /\ Goto(IF option.mode \in {"clean", "rebuild"} THEN "clean" ELSE "build")
  /\ UNCHANGED <<diskVars, option, json, dag, old, starts, forgotten>>

\* The outputs of the selected nodes, not the auxiliary ones.
CleanOutputs ==
  /\ at = "clean"
  /\ files' = Without(files, UNION {Current.out[n] : n \in DOMAIN progress})
  /\ Goto(IF option.mode = "clean" THEN "leave" ELSE "build")
  /\ UNCHANGED <<edits, source, dirs, dagFile, stateFile, option, json, dag, old, progress, starts, forgotten>>

-----------------------------------------------------------------------------
(* DriverBuild. *)

Done(n) == progress[n] \in {"built", "upToDate"}
Ready(n) == progress[n] = "blocked" /\ \A m \in Current.deps[n] : Done(m)

\* Slip: missing outputs are not noticed.
MustRun_NotMissing(n) ==
  n \in DOMAIN old =>
    \/ old[n].signature # source \/ old[n].result # 0
    \/ old[n].out # Current.out[n]

\* CheckInputSignature; the signature stands for the inputs of the node.
MustRun(n) ==
  n \in DOMAIN old =>
    \/ old[n].signature # source \/ old[n].result # 0
    \/ old[n].out # Current.out[n]
    \/ \E p \in Current.out[n] : ~Exists(p)

UpToDate(n) ==
  /\ at = "build" /\ Ready(n) /\ ~MustRun(n)
  /\ progress' = [progress EXCEPT ![n] = "upToDate"]
  /\ UNCHANGED <<diskVars, at, option, json, dag, old, starts, forgotten>>

\* RunAction: directories are made, old outputs removed, the command writes
\* its files.  The outputs of a command that fails are removed again.
RunAction(n) ==
  LET written == Current.out[n] \cup Current.aux[n]
  IN /\ at = "build" /\ Ready(n) /\ MustRun(n)
     /\ dirs' = dirs \cup UNION {Parents(p) : p \in written}
     /\ \/ /\ files' = Without(files, written) \cup {[path |-> p, by |-> n, source |-> source] : p \in written}
           /\ progress' = [progress EXCEPT ![n] = "built"]
        \/ /\ files' = Without(files, Current.out[n])
           /\ progress' = [progress EXCEPT ![n] = "failed"]
     /\ UNCHANGED <<edits, source, dagFile, stateFile, at, option, json, dag, old, starts, forgotten>>

Finished == \A n \in DOMAIN progress : ~Ready(n)

\* The build is over: everything is done, or a command has failed.
EndBuild ==
  /\ at = "build"
  /\ Finished \/ \E n \in DOMAIN progress : progress[n] = "failed"
  /\ Goto("save")
  /\ UNCHANGED <<diskVars, option, json, dag, old, progress, starts, forgotten>>

-----------------------------------------------------------------------------
(* DriverSaveBuildState. *)

Entry(n, result, signature) ==
  [result |-> result, signature |-> signature, out |-> Current.out[n], aux |-> Current.aux[n]]

\* save_new writes an entry for a node whose signature was computed, or for
\* one that has an old entry.
SaveNew(n) == progress[n] # "blocked" \/ n \in DOMAIN old

\* Slip: entries of nodes that are not selected are dropped.
SaveOld_Drop(n) == FALSE

\* save_old: not selected now, but still in the DAG.
SaveOld(n) == n \in DOMAIN old /\ n \in Current.nodes

\* The merge of both arrays.  An entry that was not computed anew keeps its
\* result and signature, but save_old writes the outputs of the new DAG.
MergedState ==
  [n \in {m \in Node : IF m \in DOMAIN progress THEN SaveNew(m) ELSE SaveOld(m)} |->
     IF n \notin DOMAIN progress THEN Entry(n, old[n].result, old[n].signature)
     ELSE IF progress[n] = "blocked" THEN old[n]
     ELSE Entry(n, IF progress[n] = "failed" THEN 1 ELSE 0, source)]

\* Written to a temporary file and renamed; if the writing fails the old state
\* stays.
SaveBuildState ==
  /\ at = "save"
  /\ \/ stateFile' = MergedState /\ UNCHANGED forgotten
     \/ WritesFail /\ forgotten' = TRUE /\ UNCHANGED stateFile
  /\ Goto("leave")
  /\ UNCHANGED <<edits, source, files, dirs, dagFile, option, json, dag, old, progress, starts>>

\* The memory of the process is gone.
Destroy ==
  /\ Goto("idle")
  /\ option' = NoOption /\ json' = 0 /\ dag' = None /\ old' = NoNodes /\ progress' = NoNodes
  /\ UNCHANGED <<diskVars, starts>>

Leave == at = "leave" /\ Destroy /\ UNCHANGED forgotten

-----------------------------------------------------------------------------
(* The surroundings. *)

Kill ==
  /\ at \in Kills
  /\ forgotten' = (forgotten \/ at \in {"build", "save"})
  /\ Destroy

\* Between two invocations.
EditScript ==
  /\ at = "idle" /\ edits < Len(Dag)
  /\ edits' = edits + 1
  /\ UNCHANGED <<source, files, dirs, dagFile, stateFile, at, option, json, dag, old, progress, starts, forgotten>>

EditSource ==
  /\ at = "idle" /\ source < SourceEdits
  /\ source' = source + 1
  /\ UNCHANGED <<edits, files, dirs, dagFile, stateFile, at, option, json, dag, old, progress, starts, forgotten>>

DriverInit ==
  /\ edits = 1 /\ source = 0
  /\ files = {} /\ dirs = {}
  /\ dagFile = None /\ stateFile = NoNodes
  /\ at = "idle" /\ option = NoOption
  /\ json = 0 /\ dag = None /\ old = NoNodes /\ progress = NoNodes
  /\ starts = 0 /\ forgotten = FALSE

DriverNext ==
  \/ Start \/ UseExistingDag \/ RunExternalTool \/ CompileDag \/ WriteDag
  \/ InitData \/ RemoveStaleOutputs \/ PrepareNodes \/ CleanOutputs
  \/ \E n \in DOMAIN progress : UpToDate(n) \/ RunAction(n)
  \/ EndBuild \/ SaveBuildState \/ Leave
  \/ Kill \/ EditScript \/ EditSource

DriverSpec == DriverInit /\ [][DriverNext]_driverVars

-----------------------------------------------------------------------------
(* Properties. *)

Loaded == at \in {"loaded", "stale", "prepare", "clean", "build", "save"}

\* The DAG that is built is the one the build script on disk describes: a DAG
\* of an older script, or a part of one, is never used.
DagFresh == Loaded => dag = [text |-> edits, time |-> edits]

\* When a build ends with every selected node done, the outputs of these nodes
\* exist and were written by them from the sources as they are, whatever other
\* versions of the DAG, failed builds and kills came before.  (Guids must not
\* exchange outputs, nor change them back and forth around a forgotten build.)
BuiltFromThis ==
  at = "save" /\ (\A n \in DOMAIN progress : Done(n)) =>
    \A n \in DOMAIN progress : \A p \in Current.out[n] :
      [path |-> p, by |-> n, source |-> source] \in files

\* Nothing that Tundra has produced is lost sight of: between invocations every
\* file is an output of the DAG or is recorded in the state file, which is how
\* it will be removed when the DAG drops it.  (A path must not move from one
\* guid to another that is not built, and then go.)
NoOrphans ==
  at = "idle" /\ ~forgotten =>
    \A f \in files : f.path \in Outputs(Dag[edits]) \cup Recorded(stateFile)

\* DriverRemoveStaleOutputs removes every recorded file that the DAG has
\* dropped and every directory that this leaves empty, and nothing the DAG
\* produces.
StaleRemoved ==
  [][at = "stale" /\ at' = "prepare" =>
       /\ \A f \in files' : f.path \in Recorded(old) => f.path \in Outputs(Current)
       /\ \A f \in files : f.path \in Outputs(Current) => f \in files'
       /\ \A d \in dirs' : (\E p \in Recorded(old) \ Outputs(Current) : d \in Parents(p)) =>
            \/ \E f \in files' : d \in Parents(f.path)
            \/ \E e \in dirs' : d \in Parents(e)]_driverVars

=============================================================================
