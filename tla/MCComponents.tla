---------------------------- MODULE MCComponents ----------------------------
(***************************************************************************)
(* One bench for the parts that share no state with the rest: the ring of  *)
(* the build queue, the read-write lock of old versions of Windows, the    *)
(* collector of the embedded Lua, and the algorithms that are functions of *)
(* their arguments.  A behaviour is about one of them, the subject.  The   *)
(* first three then take their own steps; an algorithm is given one input, *)
(* on which it is compared with what it should compute.  A behaviour ends  *)
(* with that input, when every thread has left the lock, or with           *)
(* lua_close.                                                              *)
(***************************************************************************)
EXTENDS ReadWriteLock, Interpolate, TLC

CONSTANTS Subjects,   \* the subjects of this run
          NoNode      \* what uninitialised storage of the ring holds

VARIABLES
  subject,
  input,                                     \* of an algorithm, or NoInput
  maxNodes, capacity, buffer, read, write,   \* of the ring
  g                                          \* of the collector

NoInput == [kind |-> "none"]

-----------------------------------------------------------------------------

Ring == INSTANCE RingQueue WITH NodeCounts <- {1, 2, 3}

GcThread == {"main", "co"}
GcStack == [t \in GcThread |-> IF t = "main" THEN {1} ELSE {2}]
GcString == {"s1", "s2"}

\* Each pool has the objects of one of the collector's difficult cases.
Gc == INSTANCE LuaGc WITH
        Main <- "main", Globals <- "globals", Thread <- GcThread,
        Table <- {"globals", "weak", "ephemeron"}, Closure <- {"c1", "c2"},
        UpVal <- {"u1"}, String <- GcString, Udata <- {"d"},
        WeakKeys <- {"ephemeron"}, WeakValues <- {"weak"}, HasFinalizer <- {"d"},
        StackOf <- GcStack, StringHash <- [s \in GcString |-> IF s = "s1" THEN 0 ELSE 1],
        Pools <- {{"co", "c1", "u1"}, {"c1", "c2", "u1"}, {"s1", "s2"},
                  {"weak", "d"}, {"ephemeron", "d"}}

\* Functions that collide where the modules allow it.
Atoms == <<"a", "b", "/", "..", ".", "cpp">>
TextDigest(text) ==
  (FoldLeft(LAMBDA n, c : n * 8 + SelectInSeq(Atoms, LAMBDA d : d = c), 0, text) * 37) % 262147
PathStamp(path) == Len(path)
CallHash(f) == CASE f = "toplevel" -> 5 [] f = "a" -> 3 [] f = "b" -> 6
TableHash(k) == IF k < 0 THEN -k ELSE k * 3

Path == INSTANCE Paths
Json == INSTANCE JsonText
Scanner == INSTANCE IncludeScanner
Select == INSTANCE Selection
CmdLine == INSTANCE CommandLine
Writer == INSTANCE BinaryWriter
Dag == INSTANCE DagGenerator WITH Digest <- TextDigest, FileStamp <- PathStamp
Sha == INSTANCE Hashing WITH BlockSize <- 4, CountSize <- 2
Memory == INSTANCE Allocators WITH MaxAlignment <- 4
Profile == INSTANCE Profiling WITH MaxEvents <- 2, FunctionHash <- CallHash
Win32 == INSTANCE ExecWin32 WITH MaxCommand <- 14, CommandBuf <- 2, OptionBuf <- 1,
                                 NewCmd <- 5, BlockMax <- 12, ReadBuf <- 3
Host == INSTANCE HostFiles WITH FrozenSize <- 2
LuaTab == INSTANCE LuaTable WITH KeyHash <- TableHash, MaxInt <- 6

-----------------------------------------------------------------------------
(* The inputs. *)

Choose(i) == input' = i

\* Two paths: up to four segments, with and without a root, a device, dots,
\* empty segments.
Segments(n) == SeqOf({"a", "..", ".", ""}, n)
PathTexts(n) ==
  [slash : BOOLEAN, raw : Segments(n)]
    \cup {[slash |-> FALSE, raw |-> <<Path!Device>> \o r] : r \in Segments(n - 1) \ {<<>>}}

ChoosePaths ==
  \E type \in {"Unix", "Windows"} : \E t1 \in PathTexts(3), t2 \in PathTexts(2) :
    /\ ~Path!LosesDevice(type, t1) /\ ~Path!LosesDevice(type, t2)
    /\ Choose([kind |-> "path", type |-> type, texts |-> <<t1, t2>>])

\* Lexemes in any order, and documents nested up to two deep for writer buffers
\* of up to three characters.
Lexemes == {Json!Lex(t) : t \in {"{", "}", "[", "]", ",", ":", "number"}} \cup {Json!StringLex(<<>>)}
Leaves == {Json!Number, Json!Str(<<"quote">>)}
Inner == Leaves \cup {Json!Array(<<>>), Json!Array(<<Json!Number, Json!Number>>),
                      Json!Object(<<>>), Json!Object(<< <<<<"a">>, Json!Number>> >>)}
Documents ==
  {Json!Str(s) : s \in SeqOf({"a", "newline", "quote", "backslash", "n"}, 2)}
    \cup {Json!Number} \cup {Json!Array(v) : v \in SeqOf(Inner, 2)}
    \cup {Json!Object(v) : v \in SeqOf({<<"a">>} \X Inner, 2)}

ChooseJson ==
  \/ \E text \in SeqOf(Lexemes, 4) : \E open \in {<<>>, <<Json!Lex("{")>>} :
       Choose([kind |-> "parse", text |-> open \o text])
  \/ \E size \in 1 .. 3, doc \in Documents : Choose([kind |-> "write", size |-> size, doc |-> doc])

\* One line of any characters, or a few lines; keywords that hide each other.
Line == SeqOf({" ", "#", "include", "<", ">", "\"", "x"}, 3)
SomeLines == {<<>>, <<"x">>, <<"#", "include", " ", "<", ">">>, <<"#", "include", " ", "<">>,
              <<" ", "x", " ", "x">>, <<">">>}
Keywords == <<[string |-> <<"include">>, follow |-> FALSE], [string |-> <<"x">>, follow |-> TRUE],
              [string |-> <<"x", "x">>, follow |-> TRUE]>>
ScannerConfigs == [keywords : {Keywords}, space : BOOLEAN, separators : BOOLEAN, bareIsSystem : {TRUE}]

ChooseSource ==
  \E config \in ScannerConfigs :
    \/ \E line \in Line : \E start \in {<<>>, <<"#", "include">>, <<" ", "#", " ", "include", " ">>} :
         Choose([kind |-> "scan", lines |-> <<start \o line>>, ended |-> TRUE, config |-> config])
    \/ \E lines \in SeqOf(SomeLines, 3), ended \in BOOLEAN :
         Choose([kind |-> "scan", lines |-> lines, ended |-> ended, config |-> config])

\* Options on texts around the size of the internal buffer.
OptionNames == {"p", "a", "P", "A", "B", "F", "D", "q", "#", "b", "f"}
OptionData == {<<>>, <<"a">>, <<"/">>, <<".", "a">>}
OptionTexts == SeqOf({"a", ".", "/", "\\"}, 4)

\* Templates: variables inside names, options and values, with one value or two.
C(ch) == [ch |-> ch]
V(name, options) == [name |-> name, options |-> options]
Table ==
  (<<"x">> :> << <<C("a"), C(".")>>, <<C("("), C(")")>> >>) @@ (<<"y">> :> << <<C("x")>> >>)
    @@ (<<"z">> :> << <<V(<<C("y")>>, <<>>), C("/")>>, <<>> >>)
Only(names) == [n \in DOMAIN Table \cap names |-> Table[n]]
Shadowed == [n \in {<<"x">>, <<"y">>, <<"<">>} |-> << <<C("a")>> >>]
VarNames == {<<C("x")>>, <<C("y")>>, <<C("z")>>, <<V(<<C("y")>>, <<>>)>>}
Arguments == {<<>>, <<C("\\"), C(":")>>, <<V(<<C("y")>>, <<>>)>>, <<C("("), C(")")>>}
TemplateOptions == ({"p", "A", "j"} \X Arguments) \cup ({"B", "D"} \X {<<>>})
Parts == {C("a"), C("$")} \cup {V(n, o) : n \in VarNames, o \in SeqOf(TemplateOptions, 2)}
NoVars == {[vars |-> <<>>, envs |-> <<Table>>],
           [vars |-> <<>>, envs |-> <<Only({<<"x">>}), Table, Shadowed>>]}
WithVars == [vars |-> <<Only({<<"y">>}) @@ (<<"<">> :> << <<C("/")>> >>)>>, envs |-> <<Table, Shadowed>>]
Template(parts, scope) == Choose([kind |-> "template", parts |-> parts, scope |-> scope])

ChooseTemplate ==
  \/ \E option \in OptionNames, data \in OptionData, text \in OptionTexts :
       /\ ~Vanishes(option, text)
       /\ Choose([kind |-> "option", option |-> option, data |-> data, text |-> text])
  \/ \E parts \in SeqOf(Parts, 1), scope \in NoVars \cup {WithVars} : Template(parts, scope)
  \/ \E scope \in NoVars : Template(<<C("$"), C("("), C("<"), C(")")>>, scope)
  \/ Template(<<V(<<C("<")>>, <<>>)>>, WithVars)

\* Texts that do not fit the internal buffer and of which nothing is left.
ChooseSpilled ==
  \E option \in {"F", "D", "B"}, text \in OptionTexts :
    /\ Vanishes(option, text)
    /\ Choose([kind |-> "option", option |-> option, data |-> <<>>, text |-> text])

\* Names on the command line, for every default; graphs of four nodes in three
\* numberings, with every set of edges.
Words == {<<"c", "x">>, <<"d", "x">>, <<"c", "x", "debug">>, <<"c", "x", "debug", "s">>,
          <<"c", "x", "debug", "t", "u">>, <<"c", "x", "nope">>, <<"debug">>, <<"opt">>, <<"s">>,
          <<"t", "u">>, <<"f">>}
Setup(c, v, s) ==
  [configs |-> << <<"c", "x">>, <<"d", "x">> >>, variants |-> << <<"debug">>, <<"opt">> >>,
   subvariants |-> << <<"s">>, <<"t", "u">> >>,
   defaults |-> [config |-> c, variant |-> v, subvariant |-> s]]
Graph(edges, number, named, passes) ==
  LET deps(k) == SetToSortSeq({number[e[2]] : e \in {f \in edges : number[f[1]] = k}}, <)
      file(k) == <<"g", ToString(k)>>
  IN Setup(1, 1, 1) @@
     [passes |-> 2,
      nodes |-> [k \in 1 .. 4 |-> [deps |-> deps(k), inputs |-> {file(m) : m \in Range(deps(k))},
                                   outputs |-> {file(k)}, pass |-> passes[k]]],
      tuples |-> [i \in 1 .. 8 |->
        [spec |-> [config |-> 1 + (i - 1) \div 4, variant |-> 1 + (((i - 1) \div 2) % 2),
                   subvariant |-> 1 + ((i - 1) % 2)],
         named |-> <<[name |-> <<"f">>, node |-> named]>>, default |-> <<named>>,
         always |-> <<number[4]>>]]]
Edges == {e \in (1 .. 4) \X (1 .. 4) : e[1] < e[2]}
Numberings == {<<1, 2, 3, 4>>, <<3, 1, 4, 2>>, <<4, 3, 2, 1>>}
Wanted == {<<>>} \cup {<<a, <<"g", "2">> >> : a \in {<<"f">>, <<"g", "1">>, <<"g", "3">>, <<"opt">>}}

ChooseTargets ==
  \/ \E c \in 0 .. 2, v \in {0, 1}, s \in {0, 2} : \E names \in SeqOf(Words, 2) :
       Choose([kind |-> "targets", dag |-> Setup(c, v, s), names |-> names])
  \/ \E edges \in SUBSET Edges, number \in Numberings, named \in {1, 3},
        passes \in {<<1, 1, 2, 2>>, <<2, 1, 1, 2>>}, names \in Wanted, old \in {<<>>, <<2, 4, 7>>} :
       Choose([kind |-> "nodes", dag |-> Graph(edges, number, named, passes), names |-> names, old |-> old])

Settings == [form : {"short", "long"}, name : {"threads", "verbose", "profile", "nonsense"},
             value : {"", "1", "2"}]
ChooseCommandLine ==
  \E settings \in SeqOf(Settings, 2), targets \in {<<>>, <<"t">>, <<"t", "u">>} :
    Choose([kind |-> "argv", settings |-> settings, targets |-> targets])

\* Graphs of up to three nodes with dependencies that are missing, doubled or no
\* numbers, and nodes that have the same text.
Name(c) == Json!Str(<<c>>)
DagNodes(inputs, dependencies) ==
  {Json!Object(<< <<"Action", Json!Str(action)>>, <<"Inputs", Json!Array(files)>>,
                  <<"Deps", Json!Array(deps)>> >>) :
     action \in {<<"a">>, <<"b">>, <<"a", "b">>}, files \in inputs, deps \in dependencies}
ValidDeps == {<<>>, <<Dag!Num(0)>>, <<Dag!Num(2)>>, <<Dag!Num(1), Dag!Num(2)>>}
OddDeps == {<<Dag!Num(1), Dag!Num(1)>>, <<Dag!Num(3)>>, <<Dag!Bool(TRUE)>>}
DagTuple(n) ==
  Json!Object(<< <<"ConfigIndex", Dag!Num(0)>>, <<"VariantIndex", Dag!Num(0)>>,
                 <<"SubVariantIndex", Dag!Num(0)>>,
                 <<"DefaultNodes", Json!Array(<<Dag!Num(0), Dag!Num(n - 1)>>)>>,
                 <<"AlwaysNodes", Json!Array(<<>>)>>,
                 <<"NamedNodes", Json!Object(<< <<"n", Dag!Num(n - 1)>> >>)>> >>)
DagRoot(nodes) ==
  LET names == Json!Array(<<Name("a")>>)
      setup == << <<"Configs", names>>, <<"Variants", names>>, <<"SubVariants", names>>,
                  <<"BuildTuples", Json!Array(<<DagTuple(Len(nodes))>>)>>,
                  <<"DefaultBuildTuple", DagTuple(Len(nodes))>> >>
      scanner == << <<"Kind", Name("cpp")>>, <<"IncludePaths", Json!Array(<<>>)>> >>
      Signed(field) == Json!Array(<<Json!Object(<< <<field, Name("a")>> >>)>>)
  IN Json!Object(<< <<"Nodes", Json!Array(nodes)>>, <<"Passes", names>>,
                    <<"Scanners", Json!Array(<<Json!Object(scanner)>>)>>,
                    <<"Setup", Json!Object(setup)>>, <<"FileSignatures", Signed("File")>>,
                    <<"GlobSignatures", Signed("Path")>> >>)

ChooseDag ==
  \/ \E nodes \in SeqOf(DagNodes({<<>>, <<Json!Str(<<"b", "/", ".">>)>>}, ValidDeps \cup OddDeps), 2) :
       nodes # <<>> /\ Choose([kind |-> "dag", nodes |-> nodes])
  \/ \E nodes \in [1 .. 3 -> DagNodes({<<>>}, ValidDeps)] : Choose([kind |-> "dag", nodes |-> nodes])

Records ==
  [kind : {"own", "shared"}, name : {<<5>>, <<6>>, <<5, 6>>, <<>>}, array : {<<>>, <<8, 9, 7>>}]
    \cup {[kind |-> "none", name |-> <<>>, array |-> <<7>>]}
ChooseRecords ==
  \E records \in SeqOf(Records, 3), alignment \in {1, 2, 4} :
    Choose([kind |-> "frozen", records |-> records, alignment |-> alignment])

\* Directories listed in any order; places for the scripts; data files; paths to
\* search.
Entry(rank, whole, begin, end, kind) ==
  [name |-> [whole |-> whole, begin |-> begin, end |-> end], rank |-> rank, kind |-> kind]
Entries ==
  {Entry(1, "a", "a", "a", "file"), Entry(1, "a", "a", "a", "dir"), Entry(2, "b", "b", "b", "file"),
   Entry(2, "b", "b", "b", "dir"), Entry(3, "c", "c", "c", "other"),
   Entry(4, ".x.swp", ".", ".swp", "file"), Entry(5, "z~", "z", "~", "file"),
   Entry(6, ".", ".", ".", "dir"), Entry(7, ".tundra2.json", ".tundra2.", "n", "file")}
Listings(n) == {l \in SeqOf(Entries, n) : IsInjective([i \in DOMAIN l |-> l[i].rank])}
ScriptDirs ==
  {d \o s : d \in {<<>>, <<"u">>, <<"u", "v">>, <<"v">>}, s \in {<<"scripts">>, <<"share", "tundra">>}}

ChooseHost ==
  \/ \E a \in Listings(3), b \in Listings(2) : Choose([kind |-> "glob", a |-> a, b |-> b])
  \/ \E exe \in {<<"t2">>, <<"u", "t2">>, <<"u", "v", "t2">>}, scripts \in SUBSET ScriptDirs :
       Choose([kind |-> "scripts", exe |-> exe, scripts |-> scripts])
  \/ \E file \in [missing : BOOLEAN, size : 0 .. 3, magic : BOOLEAN] :
       Choose([kind |-> "load", file |-> file])
  \/ \E path \in SeqOf({"a", "b", ";"}, 5), dir \in {<<"a">>, <<"a", "b">>} :
       Choose([kind |-> "search", path |-> path, dir |-> dir])

\* Environments with names that differ in case only, command lines around the
\* sizes of the buffers, and jobs that end in every way.
EnvNames == [letters : {"p", "q", "r"}, upper : BOOLEAN]
Distinct(vars) == \A i, j \in DOMAIN vars : i # j => vars[i][1].letters # vars[j][1].letters
Win32Runs ==
  [end : {"exit", "killed"}, annotation : {<<"A">>, <<>>},
   output : {<<>>, <<"x", ".cpp">>, <<"x", "sp", ".cpp">>}, code : {0}]
    \cup [end : {"noenv", "nolaunch"}, annotation : {<<"B">>}, output : {<<>>}, code : {1}]

ChooseWin32 ==
  \/ \E env \in SeqOf(EnvNames \X {<<1>>}, 3), vars \in SeqOf(EnvNames \X {<<2>>, <<3, 3>>}, 2) :
       /\ Distinct(env) /\ Distinct(vars)
       /\ Choose([kind |-> "env", env |-> env, vars |-> vars])
  \/ \E head \in SeqOf({"a", "nl"}, 3), response \in {"none", "optional", "always"},
        option \in SeqOf({"o"}, 2), rest \in SeqOf({"b", "nl"}, 3) :
       Choose([kind |-> "command",
               cmd |-> [head |-> head, kind |-> response, option |-> option, rest |-> rest]])
  \/ \E runs \in SeqOf([job : {1, 2}, file : BOOLEAN, run : Win32Runs], 2) :
       Choose([kind |-> "output", runs |-> runs])

\* Calls of the allocators, data to hash in pieces around the size of a block.
Allocations == [call : {"alloc"}, size : {0, 1, 3}, align : {1, 2, 4}] \cup [call : {"begin", "end", "reset"}]
BufferCalls == [call : {"append"}, elems : {<<1>>, <<2, 3>>, <<3, 2, 1, 1, 1>>}] \cup [call : {"pop", "clear"}]
HashPieces == SeqOf({0, Sha!Mark}, 2) \cup {[i \in 1 .. k |-> i % 3] : k \in 3 .. 10}

ChooseMemory ==
  \/ \E calls \in SeqOf(Allocations, 3), base \in 0 .. 3 :
       Choose([kind |-> "linear", calls |-> calls, base |-> base])
  \/ \E calls \in SeqOf(BufferCalls, 5) : Choose([kind |-> "buffer", calls |-> calls])
  \/ \E pieces \in SeqOf(HashPieces, 3) : Choose([kind |-> "hash", pieces |-> pieces])

\* Assignments to the fields of a table, with keys that collide; calls of Lua
\* functions, and events of a thread, around the size of the profilers' tables.
LuaEvents == [call : {TRUE}, function : {"a", "b"}, takes : {1, 2}] \cup [call : {FALSE}, takes : {1}]
Balanced(events) ==
  \A k \in DOMAIN events :
    Cardinality({i \in 1 .. k : ~events[i].call}) <= Cardinality({i \in 1 .. k : events[i].call})
ThreadEvents == [begin : {TRUE}, name : {"p", "q"}, takes : {1, 2}] \cup [begin : {FALSE}, takes : {1}]

ChooseLua ==
  \/ \E sizes \in {<<0, 0>>, <<1, 2>>} : \E sets \in SeqOf({1, 2, 3, -1, -3} \X {LuaTab!Nil, 7}, 3) :
       Choose([kind |-> "table", sizes |-> sizes, sets |-> sets])
  \/ \E keys \in SeqOf({1, 2, 3, 4, 8, -1, -5}, 4) :
       /\ IsInjective(keys)
       /\ Choose([kind |-> "table", sizes |-> <<0, 0>>, sets |-> [i \in DOMAIN keys |-> <<keys[i], 7>>]])
  \/ \E events \in SeqOf(LuaEvents, 5), size \in {2, 4} :
       Balanced(events) /\ Choose([kind |-> "luaprofile", events |-> events, size |-> size])
  \/ \E events \in SeqOf(ThreadEvents, 6) :
       /\ \A k \in DOMAIN events : events[k].begin = (k % 2 = 1)
       /\ Choose([kind |-> "profile", events |-> events])

-----------------------------------------------------------------------------

ringVars == <<maxNodes, capacity, buffer, read, write>>
vars == <<subject, input, ringVars, lockVars, g>>

Init ==
  /\ subject \in Subjects
  /\ input = NoInput
  /\ Ring!Init /\ (subject # "ring" => maxNodes = 1)
  /\ LockInit
  /\ Gc!GcInit /\ (subject # "gc" => g.pool = {"s1", "s2"})

Is(name) == subject = name /\ UNCHANGED subject

RingNext == Is("ring") /\ Ring!Next /\ UNCHANGED <<input, lockVars, g>>
LockTurn(t) == Is("lock") /\ LockStep(t) /\ UNCHANGED <<input, ringVars, g>>
GcTurn == Is("gc") /\ Gc!GcNext /\ UNCHANGED <<input, ringVars, lockVars>>

\* An algorithm is given its input.
Given(name) == Is(name) /\ input = NoInput /\ UNCHANGED <<ringVars, lockVars, g>>
AlgorithmNext ==
  \/ Given("paths") /\ ChoosePaths
  \/ Given("json") /\ ChooseJson
  \/ Given("source") /\ ChooseSource
  \/ Given("template") /\ ChooseTemplate
  \/ Given("targets") /\ ChooseTargets
  \/ Given("argv") /\ ChooseCommandLine
  \/ Given("dag") /\ ChooseDag
  \/ Given("records") /\ ChooseRecords
  \/ Given("host") /\ ChooseHost
  \/ Given("win32") /\ ChooseWin32
  \/ Given("memory") /\ ChooseMemory
  \/ Given("lua") /\ ChooseLua

Next == RingNext \/ (\E t \in Thread : LockTurn(t)) \/ GcTurn \/ AlgorithmNext

\* Every thread that uses the lock is scheduled.
Spec == Init /\ [][Next]_vars /\ \A t \in Thread : WF_vars(LockTurn(t))

\* The options whose texts do not fit the internal buffer of a StringBuffer.
SpilledNext == Given("spilled") /\ ChooseSpilled
SpilledSpec == Init /\ [][SpilledNext]_vars

-----------------------------------------------------------------------------

Input(kind) == input.kind = kind

\* The ring of the build queue (BuildQueue.cpp) is a first-in first-out list with
\* room for every node at once: a full ring is never taken for an empty one, no
\* entry is overwritten, and a wrapped index reads what was written.
ImplementsFifo == Ring!ImplementsFifo

\* No wakeup is lost in ReadWriteLock.cpp and ConditionVar.cpp: everybody who wants
\* the lock gets it and leaves again.
EverybodyGetsLock == subject = "lock" => EverybodyLeaves

\* Nothing a script can still reach, and no userdata whose finalizer is still to
\* run, has been freed by lgc.c: not by barriers left out, not by the sweep of a
\* list that grows, not by a thread that dies with open upvalues.
NothingUsedIsFreed == Gc!NothingUsedIsFreed

\* The assertions of lgc.c: while it marks, nothing black holds anything white and
\* no object is in two gray lists; between two cycles everything is white; a
\* userdata's finalizer runs exactly once; lua_close frees everything.
CollectorSound == Gc!CollectorSound

\* PathUtil.cpp: normalising a path does not change where it leads, and paths join
\* and split to where their parts lead.  LuaJsonWriter.cpp, JsonParse.cpp: what was
\* written is read back, and nothing but documents is accepted.  Both include
\* scanners find what stands in each line.  LuaInterpolate.cpp: an option does to a
\* text what the manual says, wherever it is kept, and a template with nested
\* variables, options and escapes is what its parts stand for.
TextRight ==
  /\ Input("path") => Path!PathRight(input.type, input.texts[1], input.texts[2])
  /\ Input("parse") => Json!ParserRight(input.text)
  /\ Input("write") => Json!WriterRight(input.size, input.doc)
  /\ Input("scan") => Scanner!ScannersRight(input.lines, input.ended, input.config)
  /\ Input("option") => OptionRight(input.option, input.data, input.text)
  /\ Input("template") => TemplateRight(input.parts, input.scope.vars, input.scope.envs)

\* TargetSelect.cpp and Driver.cpp: what is built is what the names on the command
\* line mean, or the defaults, with all it depends on; every node has one state,
\* in the order of the passes, with the old state that has its guid.  Main.cpp: an
\* option has the value it was given last, and no value is taken for a target.
SelectionRight ==
  /\ Input("targets") => Select!TargetsRight(input.dag, input.names)
  /\ Input("nodes") => Select!NodesRight(input.dag, input.names, <<5, 2, 9, 4>>, input.old)
  /\ Input("argv") => CmdLine!CommandLineRight(input.settings, input.targets)

\* DagGenerator.cpp compiles the JSON of the scripts into the same graph with the
\* nodes sorted by guid, both ways round, or rejects it; BinaryWriter.cpp lays data
\* out so that every relative pointer leads to what was written.
DagFileRight ==
  /\ Input("dag") => Dag!DagRight(DagRoot(input.nodes))
  /\ Input("frozen") => Writer!FrozenRight(input.records, input.alignment)

\* The glob signature changes with the names of a directory and not with their
\* order, data files are loaded and unmapped only when whole, PathControl.cpp
\* edits the search path of the installed program; on Windows a command gets the
\* environment and the command line that the node asks for, and what it prints
\* comes out whole.
HostRight ==
  /\ Input("glob") => Host!GlobRight(input.a, input.b)
  /\ Input("scripts") => Host!ScriptsRight(input.exe, input.scripts)
  /\ Input("load") => Host!LoadRight(input.file)
  /\ Input("search") => Host!SearchPathRight(input.path, input.dir)
  /\ Input("env") => Win32!EnvironmentRight(input.env, input.vars)
  /\ Input("command") => Win32!CommandRight(input.cmd)
  /\ Input("output") => Win32!OutputRight(input.runs)

\* Live allocations do not overlap and end with their scope, a buffer keeps its
\* elements, a digest does not depend on how the data was cut; a Lua table is a
\* map however it was filled, rehashed and walked (ltable.c); the profilers
\* account for all time they saw.
RuntimeRight ==
  /\ Input("linear") => Memory!LinearRight(input.base, 10, input.calls)
  /\ Input("buffer") => Memory!BufferRight(input.calls)
  /\ Input("hash") => Sha!HashRight(input.pieces)
  /\ Input("table") => LuaTab!TableRight(input.sizes[1], input.sizes[2], input.sets)
  /\ Input("luaprofile") => Profile!LuaProfilerRight(input.size, input.events)
  /\ Input("profile") => Profile!ProfilerRight(input.events)

\* "Only keep the filename (w/o dir)" and the other options that cut a text, when
\* the text is longer than the internal buffer of a StringBuffer.
LongTextsRight == Input("option") => OptionRight(input.option, input.data, input.text)

=============================================================================
