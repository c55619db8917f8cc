----------------------------- MODULE Selection -----------------------------
(***************************************************************************)
(* From the names on the command line to the nodes that are built:         *)
(* TargetSelect.cpp, and in Driver.cpp FindBuildTuple, FindReachable,      *)
(* FindNodesByName, DriverSelectNodes and DriverPrepareNodes.              *)
(*                                                                         *)
(* A name is the sequence of the words between its dashes.  A DAG is       *)
(* [configs, variants, subvariants, defaults, tuples, nodes]; nodes are    *)
(* numbered as in the DAG file, a node is [deps, inputs, outputs, pass].   *)
(***************************************************************************)
EXTENDS Integers, SequencesExt, SortedArrayUtil

\* FindHash: the place of a name in a list, or zero.
FindHash(names, name) == SelectInSeq(names, LAMBDA n : n = name)

\* DestructureInputSpec: win32-msvc-debug-default is a config of two words, a
\* variant and a subvariant; the last two are optional (zero).
DestructureInputSpec(dag, name) ==
  LET n == Len(name)
      spec == [config     |-> IF n > 1 THEN FindHash(dag.configs, SubSeq(name, 1, 2)) ELSE 0,
               variant    |-> IF n > 2 THEN FindHash(dag.variants, SubSeq(name, 3, 3)) ELSE 0,
               subvariant |-> IF n > 3 THEN FindHash(dag.subvariants, SubSeq(name, 4, n)) ELSE 0]
      bad == \/ spec.config = 0
             \/ n > 2 /\ spec.variant = 0
             \/ n > 3 /\ spec.subvariant = 0
  IN [ok |-> ~bad, spec |-> spec]

\* The loop over the names: the bits, the specs and the names of targets.
Classify(dag, names) ==
  FoldLeft(LAMBDA acc, name :
             CASE FindHash(dag.subvariants, name) # 0 ->
                    [acc EXCEPT !.subvariants = @ \cup {FindHash(dag.subvariants, name)}]
               [] FindHash(dag.subvariants, name) = 0 /\ FindHash(dag.variants, name) # 0 ->
                    [acc EXCEPT !.variants = @ \cup {FindHash(dag.variants, name)}]
               [] OTHER ->
                    LET d == DestructureInputSpec(dag, name)
                    IN IF d.ok THEN [acc EXCEPT !.specs = Append(@, d.spec)]
                       ELSE [acc EXCEPT !.targets = Append(@, name)],
           [subvariants |-> {}, variants |-> {}, specs |-> <<>>, targets |-> <<>>], names)

\* The default of a list if nothing was asked for; zero is no default.
OrDefault(chosen, default) == IF chosen = {} /\ default # 0 THEN {default} ELSE chosen

\* Slip: a spec that is there already is added again.
AddSpec_Again(specs, spec) == Append(specs, spec)

AddSpec(specs, spec) == IF spec \in Range(specs) THEN specs ELSE Append(specs, spec)

\* The rest of SelectTargets: every spec with each of its variants and subvariants,
\* the lowest bit first.
ExpandSpecs(dag, c) ==
  LET default == [config |-> dag.defaults.config, variant |-> 0, subvariant |-> 0]
      specs == IF c.specs = <<>> /\ default.config # 0 THEN <<default>> ELSE c.specs
      vs  == OrDefault(c.variants, dag.defaults.variant)
      svs == OrDefault(c.subvariants, dag.defaults.subvariant)
      Bits(index, bits) == SetToSortSeq(IF index # 0 THEN {index} ELSE bits, <)
  IN [specs |-> FoldLeft(LAMBDA out, spec :
        FoldLeft(LAMBDA o1, v :
          FoldLeft(LAMBDA o2, sv :
                     AddSpec(o2, [config |-> spec.config, variant |-> v, subvariant |-> sv]),
                   o1, Bits(spec.subvariant, svs)),
          out, Bits(spec.variant, vs)),
        <<>>, specs),
      targets |-> c.targets]

\* The build tuples and the targets that the names on the command line stand for.
SelectTargets(dag, names) == ExpandSpecs(dag, Classify(dag, names))

-----------------------------------------------------------------------------
(* Nodes. *)

\* FindReachable: the bits that are set after a walk from a node.
RECURSIVE FindReachable(_, _, _)
FindReachable(bits, dag, index) ==
  IF index \in bits THEN bits
  ELSE FoldLeft(LAMBDA b, dep : FindReachable(b, dag, dep),
                bits \cup {index}, dag.nodes[index].deps)

\* Is a file an input or an output of a node?
Has(node, file) == file \in node.inputs \/ file \in node.outputs

\* FindNodesByName, for one name: a named node, or the first reachable node that
\* has the file; file is the name as a path relative to the working directory.
FindNodeByName(dag, tuple, name) ==
  LET named == SelectInSeq(tuple.named, LAMBDA nn : nn.name = name)
      bits  == FoldLeft(LAMBDA b, nn : FindReachable(b, dag, nn.node), {}, tuple.named)
      found == SelectInSeq([i \in DOMAIN dag.nodes |-> i],
                           LAMBDA i : i \in bits /\ Has(dag.nodes[i], name))
  IN IF named # 0 THEN <<tuple.named[named].node>>
     ELSE IF found # 0 THEN <<found>> ELSE <<>>

\* The build tuple with the three indices of a specification, or zero.
FindBuildTuple(dag, spec) == SelectInSeq(dag.tuples, LAMBDA t : t.spec = spec)

\* DriverSelectNodes, once SelectTargets is done: sorted and without duplicates.
DriverSelectNodes(dag, selected) ==
  LET Of(tuple) ==
        (IF selected.targets # <<>>
         THEN FoldLeft(LAMBDA out, name : out \o FindNodeByName(dag, tuple, name),
                       <<>>, selected.targets)
         ELSE tuple.default) \o tuple.always
  IN IF \E spec \in Range(selected.specs) : FindBuildTuple(dag, spec) = 0 THEN [ok |-> FALSE]
     ELSE [ok |-> TRUE,
           nodes |-> SetToSortSeq(UNION {Range(Of(dag.tuples[FindBuildTuple(dag, spec)])) :
                                           spec \in Range(selected.specs)}, <)]

\* Slip: a node that was visited is listed again.
Visit_NoMark(dag, work) ==
  [stack |-> Front(work.stack) \o dag.nodes[Last(work.stack)].deps,
   list |-> Append(work.list, Last(work.stack))]

\* One turn of the loop over the stack: an unvisited node is listed and its
\* dependencies are pushed.
Visit(dag, work) ==
  LET index == Last(work.stack)
  IN IF index \in Range(work.list) THEN [work EXCEPT !.stack = Front(@)]
     ELSE [stack |-> Front(work.stack) \o dag.nodes[index].deps,
           list |-> Append(work.list, index)]

RECURSIVE VisitAll(_, _)
VisitAll(dag, work) == IF work.stack = <<>> THEN work.list ELSE VisitAll(dag, Visit(dag, work))

\* DriverPrepareNodes: the node states in the order of their passes, with the
\* entries of the state file by guid, the nodes of each pass, and the remapping
\* (zero for nodes that are not built).  The order within a pass is the sort's.
DriverPrepareNodes(dag, selected, guids, stateGuids) ==
  LET list  == VisitAll(dag, [stack |-> selected, list |-> <<>>])
      order == SortSeq(list, LAMBDA a, b : dag.nodes[a].pass < dag.nodes[b].pass)
  IN [nodes |-> order,
      count |-> [p \in 1 .. dag.passes |->
                   Cardinality({i \in DOMAIN list : dag.nodes[list[i]].pass = p})],
      state |-> [i \in DOMAIN order |-> BinarySearch(stateGuids, guids[order[i]])],
      remap |-> [n \in DOMAIN dag.nodes |-> SelectInSeq(order, LAMBDA m : m = n)]]

-----------------------------------------------------------------------------
(* What is selected, as sets. *)

\* A set of nodes with everything they depend on.
Closure(dag, nodes) ==
  CHOOSE c \in SUBSET DOMAIN dag.nodes :
    /\ nodes \subseteq c
    /\ \A n \in c : Range(dag.nodes[n].deps) \subseteq c
    /\ \A d \in SUBSET c : (nodes \subseteq d /\ \A n \in d : Range(dag.nodes[n].deps) \subseteq d) => d = c

\* The specs that a command line stands for.
Wanted(dag, names) ==
  LET subs == {n \in Range(names) : n \in Range(dag.subvariants)}
      vars == {n \in Range(names) \ subs : n \in Range(dag.variants)}
      Or(set, list, default) ==
        IF set # {} THEN set ELSE IF default = 0 THEN {} ELSE {list[default]}
      Fits(spec, name) ==
        \/ name = spec.config /\ spec.v \in Or(vars, dag.variants, dag.defaults.variant)
                              /\ spec.s \in Or(subs, dag.subvariants, dag.defaults.subvariant)
        \/ name = spec.config \o spec.v /\ spec.s \in Or(subs, dag.subvariants, dag.defaults.subvariant)
        \/ name = spec.config \o spec.v \o spec.s
      all == [config : Range(dag.configs), v : Range(dag.variants), s : Range(dag.subvariants)]
      rest == Range(names) \ (subs \cup vars)
      asked == {n \in rest : \E spec \in [config : Range(dag.configs),
                                          v : Range(dag.variants) \cup {<<>>},
                                          s : Range(dag.subvariants) \cup {<<>>}] :
                                 /\ spec.v = <<>> => spec.s = <<>>
                                 /\ n = spec.config \o spec.v \o spec.s}
      from == IF asked # {} THEN asked
              ELSE IF dag.defaults.config = 0 THEN {} ELSE {dag.configs[dag.defaults.config]}
  IN [specs |-> {spec \in all : \E name \in from : Fits(spec, name)}, targets |-> rest \ asked]

\* The specs s are the wanted ones.
SpecsRight(dag, s, w) ==
  /\ IsInjective(s.specs)
  /\ {[config |-> dag.configs[x.config], v |-> dag.variants[x.variant],
       s |-> dag.subvariants[x.subvariant]] : x \in Range(s.specs)} = w.specs
  /\ Range(s.targets) = w.targets

\* The configurations that are built are those the names on the command line
\* stand for, the defaults where they say nothing, each one once.
TargetsRight(dag, names) == SpecsRight(dag, SelectTargets(dag, names), Wanted(dag, names))

\* The node states p are right for the targets t and the selected nodes s.
StatesRight(dag, t, s, p, guids, stateGuids) ==
  LET pass(i) == dag.nodes[p.nodes[i]].pass
  IN /\ IsInjective(p.nodes) /\ Range(p.nodes) = Closure(dag, Range(s.nodes))
     /\ \A i, j \in DOMAIN p.nodes : i < j => pass(i) <= pass(j)
     /\ \A k \in DOMAIN p.count : p.count[k] = Cardinality({i \in DOMAIN p.nodes : pass(i) = k})
     /\ \A n \in DOMAIN dag.nodes :
          IF n \in Range(p.nodes) THEN p.nodes[p.remap[n]] = n ELSE p.remap[n] = 0
     /\ \A i \in DOMAIN p.nodes :
          IF guids[p.nodes[i]] \in Range(stateGuids)
          THEN stateGuids[p.state[i]] = guids[p.nodes[i]] ELSE p.state[i] = 0
     /\ \A spec \in Range(t.specs) : \A tuple \in Range(dag.tuples) :
          tuple.spec = spec =>
            /\ Range(tuple.always) \subseteq Range(p.nodes)
            /\ \A file \in Range(t.targets) :
                 LET roots == {nn.node : nn \in Range(tuple.named)}
                     makers == {n \in Closure(dag, roots) : file \in dag.nodes[n].outputs}
                 IN makers # {} => makers \cap Range(p.nodes) # {}

\* The node states are those of the selected nodes and of all they depend on, each
\* once and in the order of the passes; counts, remapping and the entries of the
\* state file belong to them; and for a file that a node of the tuple writes, that
\* node is among them.
NodesRight(dag, names, guids, stateGuids) ==
  LET Selected(t, s) ==
        s.ok => StatesRight(dag, t, s, DriverPrepareNodes(dag, s.nodes, guids, stateGuids),
                            guids, stateGuids)
      Targets(t) == Selected(t, DriverSelectNodes(dag, t))
  IN Targets(SelectTargets(dag, names))

=============================================================================
