---------------------------- MODULE DagGenerator ----------------------------
(***************************************************************************)
(* From the JSON of the build scripts to the DAG that the driver maps      *)
(* (src/src/DagGenerator.cpp): nodes are put in the order of their guids,  *)
(* every index is renumbered, and the links from a node to its users are   *)
(* made from the links to its dependencies.                                *)
(*                                                                         *)
(* The JSON is a document of JsonText; an action, an annotation and a file *)
(* are sequences of atoms, "/" being one.  Node numbers start at zero, as  *)
(* in the JSON.                                                            *)
(***************************************************************************)
EXTENDS JsonText, Paths

CONSTANT Digest(_)      \* of a text, a number: SHA-1, without collisions
CONSTANT FileStamp(_)   \* GetFileInfo(path).m_Timestamp, CalculateGlobSignatureFor(path)

Num(n)  == [number |-> n]
Bool(b) == [boolean |-> b]

IsA(type, v) == type \in DOMAIN v

\* JsonObjectValue::Find takes the first field of the name.
IndexOfKey(obj, key) == SelectInSeq(obj.object, LAMBDA pair : pair[1] = key)

\* FindStringValue, FindArrayValue, FindObjectValue, FindIntValue, GetNodeFlag and
\* GetBoolean: a field of another type counts as missing.
Found(obj, key, type) ==
  LET i == IndexOfKey(obj, key)
  IN i # 0 /\ IsA(type, obj.object[i][2])

Find(obj, key, type, default) ==
  LET i == IndexOfKey(obj, key)
  IN IF i # 0 /\ IsA(type, obj.object[i][2]) THEN obj.object[i][2][type] ELSE default

EmptyArray(obj, key) == Find(obj, key, "array", <<>>) = <<>>

-----------------------------------------------------------------------------
(* ComputeNodeGuids. *)

Strings(array) == SelectSeq(array, LAMBDA v : IsA("string", v))

\* What a node's guid is the digest of: nothing separates the parts.
GuidText(node) ==
  Find(node, "Action", "string", <<>>)
    \o FlattenSeq([i \in DOMAIN Strings(Find(node, "Inputs", "array", <<>>)) |->
                     Strings(Find(node, "Inputs", "array", <<>>))[i].string])
    \o Find(node, "Annotation", "string", <<>>)

HasGuid(node) ==
  /\ IsA("object", node)
  /\ \/ Find(node, "Action", "string", <<>>) # <<>>
     \/ Found(node, "Inputs", "array")
     \/ Found(node, "Annotation", "string")

\* guid_table: the nodes in the order of their guids.
GuidTable(nodes) ==
  SortSeq([i \in DOMAIN nodes |-> [digest |-> Digest(GuidText(nodes[i])), node |-> i - 1]],
          LAMBDA a, b : a.digest < b.digest)

GuidsDiffer(table) == \A i \in 2 .. Len(table) : table[i - 1].digest # table[i].digest

\* Slip: the table from new numbers to old ones.
RemapTable_Order(table) == [n \in 0 .. Len(table) - 1 |-> table[n + 1].node]

\* remap_table: from the number of a node to its place in that order.
RemapTable(table) ==
  [n \in 0 .. Len(table) - 1 |-> SelectInSeq(table, LAMBDA r : r.node = n) - 1]

-----------------------------------------------------------------------------
(* WriteNodes. *)

Numbers(array) == [i \in DOMAIN array |-> array[i].number]

DepsValid(nodes) ==
  \A i \in DOMAIN nodes : \A v \in ToSet(Find(nodes[i], "Deps", "array", <<>>)) :
    IsA("number", v) /\ v.number \in 0 .. Len(nodes) - 1

\* Slip: a node that depends on the other one twice is linked to once.
Backlinks_Once(nodes, n) ==
  SelectSeq([i \in DOMAIN nodes |-> i - 1],
            LAMBDA i : Contains(Find(nodes[i + 1], "Deps", "array", <<>>), Num(n)))

\* links[n]: the node that has n among its dependencies, as often as it has.
Backlinks(nodes, n) ==
  FlattenSeq([i \in DOMAIN nodes |->
    LET uses == SelectSeq(Find(nodes[i], "Deps", "array", <<>>), LAMBDA v : v.number = n)
    IN [u \in DOMAIN uses |-> i - 1]])

\* The path that a string names.
PathText(text) ==
  LET Split == FoldLeft(LAMBDA names, atom :
                          IF atom = "/" THEN Append(names, "")
                          ELSE [names EXCEPT ![Len(names)] = atom], <<"">>, text)
      slash == text # <<>> /\ text[1] = "/"
  IN [slash |-> slash, raw |-> IF slash THEN Tail(Split) ELSE Split]

\* WriteFileArray: files are written in their normal form.
WriteFileArray(array) ==
  [i \in DOMAIN array |-> LuaPathNormalize("Unix", PathText(array[i].string))]

EnvValid(node) ==
  \A v \in ToSet(Find(node, "Env", "array", <<>>)) :
    IsA("object", v) /\ Found(v, "Key", "string") /\ Found(v, "Value", "string")

WriteNode(nodes, remap, n, scanners) ==
  LET node == nodes[n + 1]
      env  == Find(node, "Env", "array", <<>>)
      scanner == Find(node, "ScannerIndex", "number", -1)
      Files(key) == WriteFileArray(Find(node, key, "array", <<>>))
      Remapped(numbers) == [i \in DOMAIN numbers |-> remap[numbers[i]]]
  IN [action     |-> Find(node, "Action", "string", <<>>),
      preAction  |-> Find(node, "PreAction", "string", <<>>),
      annotation |-> Find(node, "Annotation", "string", <<>>),
      pass       |-> Find(node, "PassIndex", "number", 0),
      deps       |-> Remapped(Numbers(Find(node, "Deps", "array", <<>>))),
      backlinks  |-> Remapped(Backlinks(nodes, n)),
      inputs     |-> Files("Inputs"), outputs |-> Files("Outputs"), aux |-> Files("AuxOutputs"),
      env        |-> [i \in DOMAIN env |-> <<Find(env[i], "Key", "string", <<>>),
                                             Find(env[i], "Value", "string", <<>>)>>],
      scanner    |-> IF scanner = -1 THEN <<>> ELSE <<scanners[scanner + 1]>>,
      flags      |-> {flag \in {"OverwriteOutputs", "PreciousOutputs", "Expensive"} :
                        Find(node, flag, "boolean", FALSE)}]

\* WriteScanner.
ScannerValid(v) ==
  /\ IsA("object", v)
  /\ Find(v, "Kind", "string", <<>>) \in {<<"cpp">>, <<"generic">>}
  /\ Found(v, "IncludePaths", "array")
  /\ \A key \in {"IncludePaths"} \cup
       (IF Find(v, "Kind", "string", <<>>) = <<"generic">> THEN {"Keywords", "KeywordsNoFollow"} ELSE {}) :
       \A p \in ToSet(Find(v, key, "array", <<>>)) : IsA("string", p)

WriteScanner(v) ==
  LET paths == Find(v, "IncludePaths", "array", <<>>)
      Keywords(key, follow) ==
        [i \in DOMAIN Find(v, key, "array", <<>>) |->
           [text |-> Find(v, key, "array", <<>>)[i].string, follow |-> follow]]
  IN [kind  |-> Find(v, "Kind", "string", <<>>),
      paths |-> [i \in DOMAIN paths |-> paths[i].string],
      guid  |-> Digest(Find(v, "Kind", "string", <<>>)
                         \o FlattenSeq([i \in DOMAIN paths |-> paths[i].string])),
      keywords |-> Keywords("Keywords", TRUE) \o Keywords("KeywordsNoFollow", FALSE),
      flags |-> {flag \in {"RequireWhitespace", "UseSeparators", "BareMeansSystem"} :
                   Find(v, flag, "boolean", FALSE)}]

-----------------------------------------------------------------------------
(* CompileDag. *)

StringsOnly(array) == \A v \in ToSet(array) : IsA("string", v)
NumbersOnly(array) == \A v \in ToSet(array) : IsA("number", v)

TupleFields == {"ConfigIndex", "VariantIndex", "SubVariantIndex"}

TupleValid(v) ==
  /\ IsA("object", v)
  /\ \A key \in TupleFields : Find(v, key, "number", -1) # -1
  /\ \A key \in {"DefaultNodes", "AlwaysNodes"} :
       Found(v, key, "array") /\ NumbersOnly(Find(v, key, "array", <<>>))
  /\ \A pair \in ToSet(Find(v, "NamedNodes", "object", <<>>)) : IsA("number", pair[2])

SetupValid(root) ==
  LET setup == [object |-> Find(root, "Setup", "object", <<>>)]
      default == [object |-> Find(setup, "DefaultBuildTuple", "object", <<>>)]
  IN /\ \A key \in {"Configs", "Variants", "SubVariants"} :
          ~EmptyArray(setup, key) /\ StringsOnly(Find(setup, key, "array", <<>>))
     /\ ~EmptyArray(setup, "BuildTuples")
     /\ \A v \in ToSet(Find(setup, "BuildTuples", "array", <<>>)) : TupleValid(v)
     /\ \A key \in TupleFields : Find(default, key, "number", -2) # -2

SignaturesValid(root) ==
  /\ \A v \in ToSet(Find(root, "FileSignatures", "array", <<>>)) :
       IsA("object", v) /\ Found(v, "File", "string")
  /\ \A v \in ToSet(Find(root, "GlobSignatures", "array", <<>>)) :
       IsA("object", v) => Found(v, "Path", "string")
  /\ \A v \in ToSet(Find(root, "ContentDigestExtensions", "array", <<>>)) :
       IsA("string", v) /\ v.string[1] = "."

\* Every "return false" of CompileDag and of what it calls.
DagValid(root) ==
  LET nodes == Find(root, "Nodes", "array", <<>>)
  IN /\ nodes # <<>>
     /\ ~EmptyArray(root, "Passes") /\ StringsOnly(Find(root, "Passes", "array", <<>>))
     /\ \A v \in ToSet(Find(root, "Scanners", "array", <<>>)) : ScannerValid(v)
     /\ \A i \in DOMAIN nodes : HasGuid(nodes[i])
     /\ GuidsDiffer(GuidTable(nodes))
     /\ DepsValid(nodes)
     /\ \A i \in DOMAIN nodes : EnvValid(nodes[i])
     /\ SetupValid(root)
     /\ SignaturesValid(root)

\* The tuple's node lists; the loop of CompileDag over BuildTuples.
WriteTuple(v, remap) ==
  LET named == Find(v, "NamedNodes", "object", <<>>)
      WriteNodeArray(key) ==
        LET numbers == Numbers(Find(v, key, "array", <<>>))
        IN [i \in DOMAIN numbers |-> remap[numbers[i]]]
  IN [index |-> [key \in TupleFields |-> Find(v, key, "number", -1)],
      default |-> WriteNodeArray("DefaultNodes"),
      always  |-> WriteNodeArray("AlwaysNodes"),
      named   |-> [i \in DOMAIN named |-> <<named[i][1], remap[named[i][2].number]>>]]

\* CompileDag, for a document that is valid.  The count of the globs includes
\* those that are no objects and are not written.
CompileDag(root) ==
  LET nodes == Find(root, "Nodes", "array", <<>>)
      table == GuidTable(nodes)
      remap == RemapTable(table)
      setup == [object |-> Find(root, "Setup", "object", <<>>)]
      default == [object |-> Find(setup, "DefaultBuildTuple", "object", <<>>)]
      tuples == Find(setup, "BuildTuples", "array", <<>>)
      scanners == Find(root, "Scanners", "array", <<>>)
      written == [i \in DOMAIN scanners |-> WriteScanner(scanners[i])]
      globs == Find(root, "GlobSignatures", "array", <<>>)
      Texts(obj, key) == LET array == Find(obj, key, "array", <<>>)
                         IN [i \in DOMAIN array |-> array[i].string]
      Stamped(array, key) ==
        [i \in DOMAIN array |-> LET path == Find(array[i], key, "string", <<>>)
                                IN <<path, FileStamp(path)>>]
  IN [guids  |-> [i \in DOMAIN table |-> table[i].digest],
      nodes  |-> [i \in DOMAIN table |-> WriteNode(nodes, remap, table[i].node, written)],
      passes |-> Texts(root, "Passes"),
      names  |-> [key \in {"Configs", "Variants", "SubVariants"} |-> Texts(setup, key)],
      tuples |-> [i \in DOMAIN tuples |-> WriteTuple(tuples[i], remap)],
      default |-> [key \in TupleFields |-> Find(default, key, "number", -2)],
      files  |-> Stamped(Find(root, "FileSignatures", "array", <<>>), "File"),
      globCount |-> Len(globs),
      globs  |-> Stamped(SelectSeq(globs, LAMBDA v : IsA("object", v)), "Path"),
      extensions |-> Texts(root, "ContentDigestExtensions"),
      maxExpensive |-> Find(root, "MaxExpensiveCount", "number", -1)]

-----------------------------------------------------------------------------
(* The graph that the JSON describes. *)

Count(s, x) == Cardinality({i \in DOMAIN s : s[i] = x})

\* The DAG is the graph of the nodes under the numbers p.
SameGraph(root, nodes, dag, p) ==
  LET N == DOMAIN p
      Deps(n) == Find(nodes[n + 1], "Deps", "array", <<>>)
      Tuple == Find([object |-> Find(root, "Setup", "object", <<>>)], "BuildTuples", "array", <<>>)[1]
  IN /\ \A n \in N : LET new == dag.nodes[p[n] + 1] IN
          /\ dag.guids[p[n] + 1] = Digest(GuidText(nodes[n + 1]))
          /\ new.action = Find(nodes[n + 1], "Action", "string", <<>>)
          /\ \A i \in DOMAIN new.inputs :
               Walk("Unix", new.inputs[i]) =
                 Walk("Unix", PathText(Find(nodes[n + 1], "Inputs", "array", <<>>)[i].string))
          /\ new.deps = [i \in DOMAIN Deps(n) |-> p[Deps(n)[i].number]]
          /\ \A m \in N : Count(new.backlinks, p[m]) = Count(Deps(m), Num(n))
     /\ ToSet(dag.tuples[1].default) = {p[v.number] : v \in ToSet(Find(Tuple, "DefaultNodes", "array", <<>>))}
     /\ \A i \in DOMAIN dag.tuples[1].named :
          dag.tuples[1].named[i][2] = p[Find(Tuple, "NamedNodes", "object", <<>>)[i][2].number]

\* The nodes can be told apart and depend on nodes.
NodesFit(nodes, N) ==
  /\ \A n, m \in N : n # m => GuidText(nodes[n + 1]) # GuidText(nodes[m + 1])
  /\ \A n \in N : \A v \in ToSet(Find(nodes[n + 1], "Deps", "array", <<>>)) :
       IsA("number", v) /\ v.number \in N

\* A document whose setup is in order is compiled exactly if its nodes can be told
\* apart and depend on nodes, and the DAG is then the same graph under other
\* numbers: guids ascend strictly (the driver searches them by halves), every node
\* has its own action, files and dependencies, the links back are the dependencies
\* reversed, as often as they are there (the build queue counts on both), and
\* tuples name the nodes they named.
DagRight(root) ==
  LET Compiled(nodes, dag, N) ==
        /\ \A i \in 2 .. Len(nodes) : dag.guids[i - 1] < dag.guids[i]
        /\ \E p \in [N -> N] : IsInjective(p) /\ SameGraph(root, nodes, dag, p)
      Right(nodes, valid, N) ==
        /\ valid <=> NodesFit(nodes, N)
        /\ valid => Compiled(nodes, CompileDag(root), N)
      Nodes(nodes) == Right(nodes, DagValid(root), 0 .. Len(nodes) - 1)
  IN Nodes(Find(root, "Nodes", "array", <<>>))

=============================================================================
