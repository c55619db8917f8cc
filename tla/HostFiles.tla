----------------------------- MODULE HostFiles -----------------------------
(***************************************************************************)
(* What is taken from the file system as it is found: directory listings   *)
(* and their signatures (FileInfo.cpp, FileSign.cpp, LuaInterface.cpp),    *)
(* the directory of the scripts (LuaInterface.cpp), mapped files           *)
(* (MemoryMappedFile.cpp, LoadFrozenData of Driver.cpp), and the search    *)
(* path of the installer (PathControl.cpp).                                *)
(***************************************************************************)
EXTENDS Integers, SequencesExt

\* An entry of a directory: a name, from what its ends look like, and its kind.
\* ShouldFilter: ".", "..", .foo.swp, .tundra2.foo and foo~.
ShouldFilter(name) ==
  \/ name.whole \in {".", ".."}
  \/ name.begin = "." /\ name.end = ".swp"
  \/ name.begin = ".tundra2."
  \/ name.end = "~"

\* ListDirectory calls back for each entry that is not filtered, in the order in
\* which the system lists them; a directory that cannot be opened has none.
ListDirectory(listing) == SelectSeq(listing, LAMBDA entry : ~ShouldFilter(entry.name))

\* Slip: in the order of the listing.
Sorted_Listed(names) == names

Sorted(names) == SortSeq(names, LAMBDA a, b : a < b)

NamesOf(entries) == [i \in DOMAIN entries |-> entries[i].rank]

\* CalculateGlobSignatureFor: directories, then everything else, a separator (zero)
\* after each name.  The digest is what is hashed.
CalculateGlobSignatureFor(listing) ==
  LET entries == ListDirectory(listing)
      dirs  == Sorted(NamesOf(SelectSeq(entries, LAMBDA e : e.kind = "dir")))
      files == Sorted(NamesOf(SelectSeq(entries, LAMBDA e : e.kind # "dir")))
  IN FlattenSeq([i \in DOMAIN (dirs \o files) |-> <<(dirs \o files)[i], 0>>])

\* LuaListDirectory: the names that the scripts see; entries that are neither files
\* nor directories are left out with a warning.
LuaListDirectory(listing) ==
  LET entries == ListDirectory(listing)
  IN [dirs  |-> Sorted(NamesOf(SelectSeq(entries, LAMBDA e : e.kind = "dir"))),
      files |-> Sorted(NamesOf(SelectSeq(entries, LAMBDA e : e.kind = "file")))]

-----------------------------------------------------------------------------
(* FindScriptDirectory: home is TUNDRA_HOME or <<>>, exe the path of the   *)
(* executable, scripts the directories that have a tundra.lua.             *)

FindScriptDirectory(home, exe, scripts) ==
  LET probes == << <<"share", "tundra">>, <<"scripts">> >>
      Level(n) == SubSeq(exe, 1, Len(exe) - n)
      tries == FlattenSeq([n \in 1 .. Len(exe) |->
                             [i \in DOMAIN probes |-> Level(n) \o probes[i]]])
      found == SelectInSeq(tries, LAMBDA dir : dir \in scripts)
  IN IF home # <<>> THEN home ELSE IF found # 0 THEN tries[found] ELSE <<>>   \* Croak

-----------------------------------------------------------------------------
(* MmapFileMap and LoadFrozenData.  A file is missing or has a size and a  *)
(* magic number; a process has open descriptors and mappings.              *)

CONSTANT FrozenSize     \* sizeof(FrozenType)

ProcessInit == [fds |-> 0, maps |-> 0, loaded |-> FALSE, croaked |-> FALSE]

\* MmapFileMap: the address is compared with null, which mmap never returns; it
\* fails for an empty file.
MmapFileMap(p, file) ==
  IF file.missing THEN [process |-> p, map |-> "null"]
  ELSE IF file.size = 0 THEN [process |-> [p EXCEPT !.fds = @ + 1], map |-> "failed"]
  ELSE [process |-> [p EXCEPT !.fds = @ + 1, !.maps = @ + 1], map |-> "valid"]

\* Slip: the descriptor stays open.
MmapFileUnmap_Leak(p, map) ==
  CASE map = "null" -> p
    [] map = "failed" -> [p EXCEPT !.croaked = TRUE]
    [] map = "valid" -> [p EXCEPT !.maps = @ - 1]

\* MmapFileUnmap, MmapFileDestroy.
MmapFileUnmap(p, map) ==
  CASE map = "null" -> p
    [] map = "failed" -> [p EXCEPT !.croaked = TRUE]
    [] map = "valid" -> [p EXCEPT !.fds = @ - 1, !.maps = @ - 1]

LoadFrozenData(p, file) ==
  LET m == MmapFileMap(p, file)
  IN IF m.map # "null" /\ file.size >= FrozenSize /\ file.magic
     THEN [m.process EXCEPT !.loaded = TRUE]
     ELSE MmapFileUnmap(m.process, m.map)

-----------------------------------------------------------------------------
(* PathControl: a path is a sequence of characters, ";" separates.         *)

\* TokenizePath: a ";" at the very beginning separates nothing.
TokenizePath(buffer) ==
  LET text == IF buffer # <<>> /\ buffer[1] = ";" THEN Tail(buffer) ELSE buffer
  IN FoldLeft(LAMBDA tokens, ch : IF ch = ";" THEN Append(tokens, <<>>)
                                  ELSE [tokens EXCEPT ![Len(tokens)] = Append(@, ch)],
              << <<>> >>, text)

\* Slip: a token that is there is not moved.
WithoutToken_Keep(tokens, dir) == tokens

\* The loop of WinMain: the first token that is the directory goes.
WithoutToken(tokens, dir) ==
  LET i == SelectInSeq(tokens, LAMBDA token : token = dir)
  IN IF i = 0 THEN tokens ELSE RemoveAt(tokens, i)

Merged(tokens) ==
  FlattenSeq([i \in DOMAIN tokens |-> (IF i > 1 THEN <<";">> ELSE <<>>) \o tokens[i]])

WinMain(buffer, verb, dir) ==
  LET rest == WithoutToken(TokenizePath(buffer), dir)
  IN Merged(IF verb = "add" THEN Append(rest, dir) ELSE rest)

-----------------------------------------------------------------------------

\* A directory's signature does not depend on the order in which it is listed and
\* does not change with files that are filtered; and whatever changes the names
\* that the scripts see changes it, but for a name that only changes its kind.
GlobRight(listing1, listing2) ==
  LET Seen(l) == LET s == LuaListDirectory(l) IN ToSet(s.dirs) \cup ToSet(s.files)
      Kept(l) == {e \in ToSet(l) : ~ShouldFilter(e.name)}
      Same == CalculateGlobSignatureFor(listing1) = CalculateGlobSignatureFor(listing2)
  IN /\ Kept(listing1) = Kept(listing2) => Same
     /\ (\A e \in ToSet(listing1) \cup ToSet(listing2) : e.kind # "other") /\ Same =>
          Seen(listing1) = Seen(listing2)

\* The scripts come from the nearest directory above the executable that has them,
\* an installation before a source tree.
ScriptsRight(exe, scripts) ==
  LET dir == FindScriptDirectory(<<>>, exe, scripts)
      Above(d) == \E n \in 0 .. Len(exe) - 1 :
                    d \in {SubSeq(exe, 1, n) \o <<"share", "tundra">>, SubSeq(exe, 1, n) \o <<"scripts">>}
      Depth(d) == Len(d) - IF Last(d) = "tundra" THEN 2 ELSE 1
  IN IF dir = <<>> THEN \A d \in scripts : ~Above(d)
     ELSE /\ dir \in scripts
          /\ \A d \in scripts : Above(d) => Depth(d) <= Depth(dir)
          /\ Last(dir) = "scripts" =>
               SubSeq(dir, 1, Depth(dir)) \o <<"share", "tundra">> \notin scripts

\* A file is used exactly if it is whole and of this version, and one that is not
\* leaves no descriptor and no mapping behind.  An empty file is left out: giving
\* its mapping back ends the program.
LoadRight(file) ==
  LET p == LoadFrozenData(ProcessInit, file)
  IN (file.missing \/ file.size > 0) =>
       /\ ~p.croaked
       /\ p.loaded <=> (~file.missing /\ file.size >= FrozenSize /\ file.magic)
       /\ ~p.loaded => p.fds = 0 /\ p.maps = 0

\* Adding a directory to the search path twice is adding it once, and removing it
\* gives the path without it, all else in its order.
SearchPathRight(buffer, dir) ==
  LET added == WinMain(buffer, "add", dir)
      Tokens(text) == SelectSeq(TokenizePath(text), LAMBDA t : t # <<>>)
      Count(text) == Len(SelectSeq(Tokens(text), LAMBDA t : t = dir))
  IN /\ Last(Tokens(added)) = dir
     /\ Count(added) = IF Count(buffer) = 0 THEN 1 ELSE Count(buffer)
     /\ Count(buffer) <= 1 => Tokens(WinMain(added, "add", dir)) = Tokens(added)
     /\ SelectSeq(Tokens(WinMain(added, "remove", dir)), LAMBDA t : t # dir) =
          SelectSeq(Tokens(buffer), LAMBDA t : t # dir)

=============================================================================
