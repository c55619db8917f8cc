-------------------------------- MODULE Scan --------------------------------
(***************************************************************************)
(* Implicit dependencies: ScanImplicitDeps of src/src/Scanner.cpp, run by  *)
(* several build threads over the shared scan cache of ScanCache.cpp, and  *)
(* the cache's file, which DriverSaveScanCache rewrites after a build.     *)
(*                                                                         *)
(* A path is a directory and a name.  The text of a file is the sequence   *)
(* of its include directives, as IncludeScanner finds them.  A critical    *)
(* section of the cache's lock is one step.  A day passes with every       *)
(* build, or several.                                                      *)
(***************************************************************************)
EXTENDS SortedArrayUtil, SequencesExt, FiniteSetsExt

CONSTANTS
  Thread,        \* build threads, each with one file to scan per build
  Input,         \* Input[t]: the file that thread t scans
  Scanner,       \* Scanner[t]: the scanner it uses
  Path,          \* the files there may be, each a pair <<directory, name>>
  IncludePaths,  \* IncludePaths[s]: the directories scanner s looks into
  Texts,         \* Texts[p]: what p may contain
  Appearing,     \* files that may be created or removed after the first build
  ReadFails,     \* files of which fread may read nothing
  KeyOf,         \* KeyOf[s, p]: the key ComputeScanCacheKey makes
  FirstSize,     \* slots of the smallest table, 64 in the code
  Week,          \* days after which an unused record is dropped
  MaxVersions,   \* bound: changes of files
  MaxDays        \* bound: days

Key == {KeyOf[s, p] : s \in DOMAIN IncludePaths, p \in Path}

ASSUME ScanAssumption ==
  /\ Input \in [Thread -> Path] /\ Scanner \in [Thread -> DOMAIN IncludePaths]
  /\ KeyOf \in [(DOMAIN IncludePaths) \X Path -> Nat]
  /\ Appearing \subseteq Path /\ FirstSize \in Nat \ {0} /\ Week \in Nat \ {0}

VARIABLES
  disk,      \* text and timestamp of every file; one that is missing has no text
  versions,  \* the newest timestamp
  seen,      \* what the stat cache says of a file in this build
  frozen,    \* the records in the file of the scan cache, m_FrozenData
  access,    \* m_FrozenAccess: the indices that were used
  table,     \* m_Table: chains of records by hash
  at,        \* where every thread is in ScanImplicitDeps
  stack,     \* filename_stack
  incset,    \* the include set
  fn,        \* the file in hand, with the timestamp it was told
  found,     \* found_includes
  edited,    \* history: was a file changed in this build?
  day        \* time(nullptr)

threadVars == <<at, stack, incset, fn, found>>
cacheVars  == <<frozen, access, table>>
worldVars  == <<disk, versions, edited>>
scanVars   == <<worldVars, seen, cacheVars, threadVars, day>>

Missing == 0
NoName  == [path |-> <<>>, time |-> Missing]
Unknown == -1   \* the stat cache does not know the file

-----------------------------------------------------------------------------
(* Scanning one file. *)

\* StatCacheStat asks the file system once in a build.
StatCacheStat(p) == IF seen[p] # Unknown THEN seen[p] ELSE disk[p].time

\* FindFile: the paths at which a directive's file may be, in the order in
\* which they are tried.
Candidates(s, p, include) ==
  (IF include.system THEN <<>> ELSE <<<<p[1], include.name>>>>)
    \o [i \in DOMAIN IncludePaths[s] |-> <<IncludePaths[s][i], include.name>>]

Exists(p) == p \in Path /\ StatCacheStat(p) # Missing

\* ScanFile: the files of the directives that one of the paths leads to.
ScanFile(s, p, text) ==
  LET FindFile(include) == SelectSeq(Candidates(s, p, include), Exists)
  IN FoldLeft(LAMBDA list, include : list \o SubSeq(FindFile(include), 1,
                                       Min({1, Len(FindFile(include))})), <<>>, text)

-----------------------------------------------------------------------------
(* The table of the records that were made in this build. *)

EmptyTable == [size |-> 0, chain |-> <<>>, count |-> 0]

Slot(size, key) == key % size

\* LookupDynamic: position of the record in its chain, or 0.
LookupDynamic(key) ==
  IF table.size = 0 THEN 0
  ELSE LET chain == table.chain[Slot(table.size, key)]
       IN SelectInSeq(chain, LAMBDA record : record.key = key)

\* All records, in the order of the slots and along the chains.
Records(tab) ==
  FlattenSeq([n \in 1 .. tab.size |-> tab.chain[n - 1]])

\* Slip: a record stays in the chain with the number it had.
ScanCachePrepareInsert_Copy(tab) ==
  IF tab.size > 0 /\ (256 * tab.count) \div tab.size < 192 THEN tab
  ELSE LET size == Max({FirstSize, 2 * tab.size})
       IN [tab EXCEPT !.size = size,
             !.chain = [n \in 0 .. size - 1 |-> IF n < tab.size THEN tab.chain[n] ELSE <<>>]]

\* ScanCachePrepareInsert: at three quarters of its load the table doubles, and
\* every record goes to the front of its new chain.
ScanCachePrepareInsert(tab) ==
  IF tab.size > 0 /\ (256 * tab.count) \div tab.size < 192 THEN tab
  ELSE LET size == Max({FirstSize, 2 * tab.size})
           Link(chain, record) == [chain EXCEPT ![Slot(size, record.key)] = <<record>> \o @]
       IN [tab EXCEPT !.size = size,
             !.chain = FoldLeft(Link, [n \in 0 .. size - 1 |-> <<>>], Records(tab))]

\* ScanCacheInsert: a record with another timestamp is filled anew, after a
\* needless look at the size of the table.
ScanCacheInsert(key, time, includes) ==
  LET fresh == [key |-> key, time |-> time, includes |-> includes]
      index == LookupDynamic(key)
      roomy == ScanCachePrepareInsert(table)
      slot  == Slot(roomy.size, key)
  IN IF index = 0
     THEN [roomy EXCEPT !.chain[slot] = <<fresh>> \o @, !.count = @ + 1]
     ELSE IF table.chain[Slot(table.size, key)][index].time = time THEN table
          ELSE [roomy EXCEPT !.chain[slot] =
                  [@ EXCEPT ![SelectInSeq(@, LAMBDA record : record.key = key)] = fresh]]

-----------------------------------------------------------------------------
(* ScanImplicitDeps. *)

Goto(t, place) == at' = [at EXCEPT ![t] = place]

\* The loop pops a file and asks for its timestamp; one that is not there is
\* passed over.
Visit(t) ==
  /\ at[t] = "Loop" /\ stack[t] # <<>>
  /\ LET p == Last(stack[t])
     IN /\ stack' = [stack EXCEPT ![t] = Front(@)]
        /\ seen' = [seen EXCEPT ![p] = StatCacheStat(p)]
        /\ fn' = [fn EXCEPT ![t] = [path |-> p, time |-> StatCacheStat(p)]]
        /\ Goto(t, IF Exists(p) THEN "Lookup" ELSE "Loop")
  /\ UNCHANGED <<worldVars, cacheVars, incset, found, day>>

\* Slip: only the stack is searched for the file, not the set.
Schedule_Stack(t, list) ==
  /\ incset' = [incset EXCEPT ![t] = @ \cup ToSet(list)]
  /\ stack' = [stack EXCEPT ![t] = @ \o SelectSeq(list, LAMBDA p : p \notin ToSet(@))]

\* IncludeSetAdd*String for every file of the list; the new ones are scheduled.
Schedule(t, list) ==
  LET IsNew(i) == list[i] \notin incset[t] /\ \A k \in 1 .. i - 1 : list[k] # list[i]
      added == SelectSeq([i \in DOMAIN list |-> i], IsNew)
  IN /\ incset' = [incset EXCEPT ![t] = @ \cup ToSet(list)]
     /\ stack' = [stack EXCEPT ![t] = @ \o [i \in DOMAIN added |-> list[added[i]]]]

MyKey(t) == KeyOf[Scanner[t], fn[t].path]

\* Slip: whatever is known of the file will do.
Current_Any(t, record) == TRUE

Current(t, record) == record.time = fn[t].time

FrozenIndex(t) == BinarySearch([i \in DOMAIN frozen |-> frozen[i].key], MyKey(t))

\* ScanCacheLookup finds the file in the records of earlier builds.
LookupFrozen(t) ==
  LET index == FrozenIndex(t)
  IN /\ at[t] = "Lookup"
     /\ index # 0 /\ Current(t, frozen[index])
     /\ access' = access \cup {index}
     /\ Schedule(t, frozen[index].includes)
     /\ Goto(t, "Loop")
     /\ UNCHANGED <<worldVars, seen, frozen, table, fn, found, day>>

\* ScanCacheLookup goes on with the records of this build, under the lock.
LookupTable(t) ==
  LET index  == LookupDynamic(MyKey(t))
      record == table.chain[Slot(table.size, MyKey(t))][index]
  IN /\ at[t] = "Lookup"
     /\ FrozenIndex(t) # 0 => ~Current(t, frozen[FrozenIndex(t)])
     /\ IF index # 0 /\ Current(t, record)
        THEN Schedule(t, record.includes) /\ Goto(t, "Loop")
        ELSE Goto(t, "Read") /\ UNCHANGED <<incset, stack>>
     /\ UNCHANGED <<worldVars, seen, cacheVars, fn, found, day>>

\* A file that cannot be opened, or is empty, has no includes and no record.
SkipFile(t) ==
  /\ at[t] = "Read"
  /\ disk[fn[t].path].text = <<>>
  /\ Goto(t, "Loop")
  /\ UNCHANGED <<worldVars, seen, cacheVars, stack, incset, fn, found, day>>

\* The file is read as it is now, whatever its timestamp was.
ReadAndScan(t) ==
  LET p == fn[t].path
      Looked == {Candidates(Scanner[t], p, disk[p].text[i]) : i \in DOMAIN disk[p].text}
  IN /\ at[t] = "Read"
     /\ disk[p].text # <<>>
     /\ \E read \in {TRUE} \cup {FALSE : x \in ReadFails \cap {p}} :
          found' = [found EXCEPT ![t] = IF read THEN ScanFile(Scanner[t], p, disk[p].text) ELSE <<>>]
     /\ Goto(t, "Insert")
     /\ seen' = [q \in Path |->
                   IF \E c \in Looked : q \in ToSet(c) THEN StatCacheStat(q) ELSE seen[q]]
     /\ UNCHANGED <<worldVars, cacheVars, stack, incset, fn, day>>

Insert(t) ==
  /\ at[t] = "Insert"
  /\ table' = ScanCacheInsert(MyKey(t), fn[t].time, found[t])
  /\ Schedule(t, found[t])
  /\ found' = [found EXCEPT ![t] = <<>>]
  /\ Goto(t, "Loop")
  /\ UNCHANGED <<worldVars, seen, frozen, access, fn, day>>

Finish(t) ==
  /\ at[t] = "Loop" /\ stack[t] = <<>>
  /\ Goto(t, "Done")
  /\ fn' = [fn EXCEPT ![t] = NoName]
  /\ UNCHANGED <<worldVars, seen, cacheVars, stack, incset, found, day>>

-----------------------------------------------------------------------------
(* Builds. *)

AccessTime(index) == IF index \in access THEN day ELSE frozen[index].access

\* ScanCacheSave: the records of this build, sorted, and those of the file that
\* were not replaced and are not too old.
ScanCacheSave ==
  LET made == SortSeq(Records(table), LAMBDA l, r : l.key < r.key)
      saveDynamic == [i \in DOMAIN made |-> <<made[i] @@ [access |-> day]>>]
      saveFrozen  == [i \in DOMAIN frozen |->
                        IF AccessTime(i) > day - Week
                        THEN <<[frozen[i] EXCEPT !.access = AccessTime(i)]>> ELSE <<>>]
  IN TraverseSortedArrays([i \in DOMAIN made |-> made[i].key], saveDynamic,
                          [i \in DOMAIN frozen |-> frozen[i].key], saveFrozen)

\* A build starts with the file as it is, and an empty table and stat cache.
StartBuild ==
  /\ seen' = [p \in Path |-> Unknown]
  /\ access' = {} /\ table' = EmptyTable
  /\ at' = [t \in Thread |-> "Loop"]
  /\ stack' = [t \in Thread |-> <<Input[t]>>]
  /\ incset' = [t \in Thread |-> {}]
  /\ fn' = [t \in Thread |-> NoName] /\ found' = [t \in Thread |-> <<>>]
  /\ edited' = FALSE
  /\ day' \in day + 1 .. MaxDays

\* DriverSaveScanCache: nothing is written unless a record was made.
SaveScanCache ==
  /\ \A t \in Thread : at[t] = "Done"
  /\ frozen' = IF table.count > 0 THEN ScanCacheSave ELSE frozen
  /\ StartBuild
  /\ UNCHANGED <<disk, versions>>

\* The build is killed, or the file cannot be written: the old one stays.
LoseScanCache ==
  /\ \E t \in Thread : at[t] \in {"Done", "Insert"}
  /\ StartBuild
  /\ UNCHANGED <<disk, versions, frozen>>

\* A file changes, at any time; some may come and go.
Edit(p) ==
  /\ versions < MaxVersions /\ versions' = versions + 1
  /\ \/ /\ disk[p].time = Missing => p \in Appearing
        /\ \E text \in Texts[p] :
             text # disk[p].text /\ disk' = [disk EXCEPT ![p] = [text |-> text, time |-> versions']]
     \/ /\ disk[p].time # Missing /\ p \in Appearing
        /\ disk' = [disk EXCEPT ![p] = [text |-> <<>>, time |-> Missing]]
  /\ edited' = TRUE
  /\ UNCHANGED <<seen, cacheVars, threadVars, day>>

ScanInit ==
  /\ disk \in [Path -> {[text |-> text, time |-> 1] : text \in UNION {Texts[p] : p \in Path}}]
  /\ \A p \in Path : disk[p].text \in Texts[p]
  /\ versions = 1
  /\ seen = [p \in Path |-> Unknown]
  /\ frozen = <<>> /\ access = {} /\ table = EmptyTable
  /\ at = [t \in Thread |-> "Loop"]
  /\ stack = [t \in Thread |-> <<Input[t]>>]
  /\ incset = [t \in Thread |-> {}]
  /\ fn = [t \in Thread |-> NoName] /\ found = [t \in Thread |-> <<>>]
  /\ edited = FALSE /\ day = 1

ScanStep(t) ==
  \/ Visit(t) \/ LookupFrozen(t) \/ LookupTable(t)
  \/ SkipFile(t) \/ ReadAndScan(t) \/ Insert(t) \/ Finish(t)

ScanNext ==
  \/ \E t \in Thread : ScanStep(t)
  \/ \E p \in Path : Edit(p)
  \/ SaveScanCache \/ LoseScanCache

ScanSpec == ScanInit /\ [][ScanNext]_scanVars

\* The scheduler runs every thread.
ScanFairSpec == ScanSpec /\ \A t \in Thread : WF_scanVars(ScanStep(t))

-----------------------------------------------------------------------------
(* What a scan should find, from the files alone. *)

OnDisk(p) == p \in Path /\ disk[p].time # Missing

\* The file that a directive of p stands for.
Means(s, p, include, q) ==
  LET path == Candidates(s, p, include)
  IN \E k \in DOMAIN path : path[k] = q /\ OnDisk(q) /\ \A i \in 1 .. k - 1 : ~OnDisk(path[i])

Includes(s, p) == {q \in Path : \E i \in DOMAIN disk[p].text : Means(s, p, disk[p].text[i], q)}

\* The least set that has what p includes, and what its members include.
Closure(s, p) ==
  LET Closed == {S \in SUBSET Path : UNION {Includes(s, q) : q \in S \cup {p}} \subseteq S}
  IN {q \in Path : \A S \in Closed : q \in S}

\* ScanImplicitDeps returns every file that its input includes, directly or not,
\* and no other: lists from earlier builds, from other threads of this one and
\* from other scanners never stand in for a file that has changed since.
ScanExact ==
  \A t \in Thread : at[t] = "Done" /\ ~edited => incset[t] = Closure(Scanner[t], Input[t])

\* What BinarySearch and LookupDynamic rely on: the file is sorted and has a key
\* once ("Header scanning cache is not sorted"), and after any growth every
\* record is in the chain that its key leads to, where ScanCacheSave counts it.
CacheSound ==
  /\ \A i \in 2 .. Len(frozen) : frozen[i - 1].key < frozen[i].key
  /\ Len(Records(table)) = table.count
  /\ \A n \in 0 .. table.size - 1 : \A i \in DOMAIN table.chain[n] :
       /\ Slot(table.size, table.chain[n][i].key) = n
       /\ \A k \in 1 .. i - 1 : table.chain[n][k].key # table.chain[n][i].key

\* A scan comes to an end, although files may include each other in a circle.
ScansFinish == \A t \in Thread : []<>(at[t] = "Done" \/ edited)

=============================================================================
