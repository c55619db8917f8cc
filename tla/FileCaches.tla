----------------------------- MODULE FileCaches -----------------------------
(***************************************************************************)
(* How build threads find out about files: src/src/StatCache.cpp,          *)
(* DigestCache.cpp and FileSign.cpp over the hash table of HashTable, and  *)
(* the uses BuildQueue.cpp makes of them (signing inputs, looking at and   *)
(* marking outputs, making directories), over several builds.              *)
(*                                                                         *)
(* A section under a cache's lock is one step.  A file is a version, which *)
(* stands for its content, and a timestamp; every change of a file gives   *)
(* it a timestamp of its own.  A content digest is the content.            *)
(***************************************************************************)
EXTENDS HashTable

CONSTANTS
  Thread,          \* the build threads
  Source,          \* files that nobody but the user changes
  Output,          \* files that an action writes
  Dir,             \* directories that actions need
  NoFile,          \* a thread that has no file in hand
  Owner,           \* Owner[f]: the thread that runs the action with output f
  HashOf,          \* HashOf[f]: Djb2HashPath of the file's name
  ContentSigned,   \* files with an extension in m_ShaDigestExtensions
  EarlyStats,      \* may any thread look at an output before it is written?
  MaxStats,        \* bound: calls of StatCacheStat in one build
  MaxVersions,     \* bound: changes of files
  MaxBuilds,       \* bound: builds
  Week             \* after how many builds without a use a digest is dropped

File == Source \cup Output \cup Dir

ASSUME FileAssumption ==
  /\ Owner \in [Output -> Thread]
  /\ HashOf \in [File -> Nat \ {0}]
  /\ ContentSigned \subseteq File
  /\ EarlyStats \in BOOLEAN /\ NoFile \notin File

VARIABLES
  disk,         \* the version of every file, Missing if it is not there
  versions,     \* the newest version
  statTable,    \* m_Files of the stat cache
  digestTable,  \* m_Table of the digest cache
  digestFile,   \* the records in the file of the digest cache
  at,           \* what every thread is doing
  file,         \* the file it is doing it with
  info,         \* the timestamp it was told, Missing if there is no file
  sig,          \* what it has read, or adds to the signature of a node
  stats,        \* calls of StatCacheStat in this build
  action,       \* how far the action that writes an output is
  touched,      \* history: files the user changed in this build
  build         \* number of this build, which is also what time it is

threadVars == <<at, file, info, sig>>
worldVars  == <<disk, versions, action, touched>>
fileVars   == <<worldVars, threadVars, statTable, digestTable, digestFile, stats, build>>

Missing  == 0
NotThere == -1   \* what is signed for a missing file: ~0, or "<missing>"

Goto(t, place) == at' = [at EXCEPT ![t] = place]

\* The file gets a content and a timestamp that no file had before.
Rewrite(f) ==
  /\ versions < MaxVersions
  /\ versions' = versions + 1
  /\ disk' = [disk EXCEPT ![f] = versions']

-----------------------------------------------------------------------------
(* StatCacheStat, and MakeDirectoriesRecursive around it. *)

\* Before its action an output is looked at by the thread that will run the
\* action (OutputFilesMissing), unless EarlyStats; nobody looks at it while the
\* action runs: its readers depend on the action.
MayStat(t, f) ==
  f \in Output => \/ action[f] = "done"
                  \/ action[f] = "none" /\ (EarlyStats \/ t = Owner[f])

BeginStat(t, f) ==
  /\ at[t] = "Idle" /\ stats < MaxStats /\ MayStat(t, f)
  /\ stats' = stats + 1
  /\ file' = [file EXCEPT ![t] = f]
  /\ Goto(t, "Lookup")
  /\ UNCHANGED <<worldVars, info, sig, statTable, digestTable, digestFile, build>>

AfterStat(t) == IF file[t] \in Dir THEN "Directory" ELSE "Sign"

\* Slip: the dirty flag is not looked at.
StatHit_IgnoresDirty(index) == index # -1

StatHit(index) == index # -1 /\ ~statTable.slots[index].payload.dirty

StatLookup(t) ==
  LET index == HashTableLookup(statTable, HashOf[file[t]], file[t])
  IN /\ at[t] = "Lookup"
     /\ IF StatHit(index)
        THEN /\ info' = [info EXCEPT ![t] = statTable.slots[index].payload.stamp]
             /\ Goto(t, AfterStat(t))
        ELSE Goto(t, "Stat") /\ UNCHANGED info
     /\ UNCHANGED <<worldVars, file, sig, statTable, digestTable, digestFile, stats, build>>

\* GetFileInfo, with no lock held.
GetFileInfo(t) ==
  /\ at[t] = "Stat"
  /\ info' = [info EXCEPT ![t] = disk[file[t]]]
  /\ Goto(t, "Insert")
  /\ UNCHANGED <<worldVars, file, sig, statTable, digestTable, digestFile, stats, build>>

StatCacheInsert(t) ==
  /\ at[t] = "Insert"
  /\ statTable' = HashTableInsert(statTable, HashOf[file[t]], file[t],
                                  [stamp |-> info[t], dirty |-> FALSE])
  /\ Goto(t, AfterStat(t))
  /\ UNCHANGED <<worldVars, file, info, sig, digestTable, digestFile, stats, build>>

\* StatCacheMarkDirty: m_Flags becomes kFlagDirty alone.
MarkedDirty(f) ==
  LET index == HashTableLookup(statTable, HashOf[f], f)
  IN IF index = -1 THEN statTable
     ELSE SetPayload(statTable, index, [stamp |-> Missing, dirty |-> TRUE])

\* Slip: a directory that somebody else has just made is an error.
MakeDirectory_Exclusive(rc) == rc = "made"

\* MakeDirectory takes EEXIST for success.
MakeDirectory(rc) == rc \in {"made", "EEXIST"}

DirectoryThere(t) ==
  /\ at[t] = "Directory" /\ info[t] # Missing
  /\ Goto(t, "Made")
  /\ UNCHANGED <<worldVars, file, info, sig, statTable, digestTable, digestFile, stats, build>>

CreateDirectory(t) ==
  /\ at[t] = "Directory" /\ info[t] = Missing
  /\ IF disk[file[t]] = Missing
     THEN Rewrite(file[t]) /\ Goto(t, IF MakeDirectory("made") THEN "MadeNow" ELSE "NotMade")
     ELSE /\ Goto(t, IF MakeDirectory("EEXIST") THEN "MadeNow" ELSE "NotMade")
          /\ UNCHANGED <<disk, versions>>
  /\ UNCHANGED <<action, touched, file, info, sig, statTable, digestTable, digestFile,
                 stats, build>>

MarkDirectory(t) ==
  /\ at[t] \in {"MadeNow", "NotMade"}
  /\ statTable' = MarkedDirty(file[t])
  /\ Goto(t, IF at[t] = "MadeNow" THEN "Made" ELSE "Failed")
  /\ UNCHANGED <<worldVars, file, info, sig, digestTable, digestFile, stats, build>>

-----------------------------------------------------------------------------
(* ComputeFileSignature. *)

\* ComputeFileSignatureTimestamp, or a file that is missing.
SignTimestamp(t) ==
  /\ at[t] = "Sign" /\ (file[t] \notin ContentSigned \/ info[t] = Missing)
  /\ sig' = [sig EXCEPT ![t] = IF info[t] = Missing THEN NotThere ELSE info[t]]
  /\ Goto(t, "Signed")
  /\ UNCHANGED <<worldVars, file, info, statTable, digestTable, digestFile, stats, build>>

\* Slip: a digest is taken for good whatever its timestamp.
DigestHit_AnyTime(t, index) == index # -1

DigestHit(t, index) == index # -1 /\ digestTable.slots[index].payload.stamp = info[t]

\* DigestCacheGet.  It notes the time of the access under the read lock.
DigestCacheGet(t) ==
  LET index == HashTableLookup(digestTable, HashOf[file[t]], file[t])
      record == digestTable.slots[index].payload
  IN /\ at[t] = "Sign" /\ file[t] \in ContentSigned /\ info[t] # Missing
     /\ IF DigestHit(t, index)
        THEN /\ digestTable' = SetPayload(digestTable, index, [record EXCEPT !.access = build])
             /\ sig' = [sig EXCEPT ![t] = record.digest]
             /\ Goto(t, "Signed")
        ELSE Goto(t, "Read") /\ UNCHANGED <<digestTable, sig>>
     /\ UNCHANGED <<worldVars, file, info, statTable, digestFile, stats, build>>

\* The file is read, unless it cannot be opened any more.
ReadFile(t) ==
  /\ at[t] = "Read"
  /\ sig' = [sig EXCEPT ![t] = IF disk[file[t]] = Missing THEN NotThere ELSE disk[file[t]]]
  /\ Goto(t, IF disk[file[t]] = Missing THEN "Signed" ELSE "Remember")
  /\ UNCHANGED <<worldVars, file, info, statTable, digestTable, digestFile, stats, build>>

\* Slip: a record is added without a look for an old one.
DigestSet_NoLookup(t, record) ==
  HashTableInsert(digestTable, HashOf[file[t]], file[t], record)

DigestSet(t, record) ==
  LET index == HashTableLookup(digestTable, HashOf[file[t]], file[t])
  IN IF index # -1 THEN SetPayload(digestTable, index, record)
     ELSE HashTableInsert(digestTable, HashOf[file[t]], file[t], record)

DigestCacheSet(t) ==
  /\ at[t] = "Remember"
  /\ digestTable' = DigestSet(t, [stamp |-> info[t], digest |-> sig[t], access |-> build])
  /\ Goto(t, "Signed")
  /\ UNCHANGED <<worldVars, file, info, sig, statTable, digestFile, stats, build>>

\* What the thread was told is forgotten.
Return(t) ==
  /\ at[t] \in {"Signed", "Made", "Failed"}
  /\ Goto(t, "Idle")
  /\ file' = [file EXCEPT ![t] = NoFile]
  /\ info' = [info EXCEPT ![t] = Missing]
  /\ sig' = [sig EXCEPT ![t] = NotThere]
  /\ UNCHANGED <<worldVars, statTable, digestTable, digestFile, stats, build>>

-----------------------------------------------------------------------------
(* What RunAction does to an output: remove, mark, run the command, mark. *)

\* The thread that owns f runs its action; nobody else has f in hand.
Acts(t, f) == at[t] = "Idle" /\ Owner[f] = t

RemoveOutput(t, f) ==
  /\ Acts(t, f) /\ action[f] = "none"
  /\ \A u \in Thread : file[u] # f
  /\ disk' = [disk EXCEPT ![f] = Missing]
  /\ action' = [action EXCEPT ![f] = "removed"]
  /\ UNCHANGED <<versions, touched, threadVars, statTable, digestTable, digestFile, stats, build>>

MarkOutput(t, f) ==
  /\ Acts(t, f) /\ action[f] \in {"removed", "wrote"}
  /\ statTable' = MarkedDirty(f)
  /\ action' = [action EXCEPT ![f] = IF @ = "removed" THEN "running" ELSE "done"]
  /\ UNCHANGED <<disk, versions, touched, threadVars, digestTable, digestFile, stats, build>>

RunCommand(t, f) ==
  /\ Acts(t, f) /\ action[f] = "running"
  /\ Rewrite(f)
  /\ action' = [action EXCEPT ![f] = "wrote"]
  /\ UNCHANGED <<touched, threadVars, statTable, digestTable, digestFile, stats, build>>

-----------------------------------------------------------------------------

\* The user changes a source, or removes it, at any time.
Edit(f) ==
  /\ \/ Rewrite(f)
     \/ disk[f] # Missing /\ disk' = [disk EXCEPT ![f] = Missing] /\ UNCHANGED versions
  /\ touched' = touched \cup {f}
  /\ UNCHANGED <<action, threadVars, statTable, digestTable, digestFile, stats, build>>

Frozen(records) ==
  LET Load(table, r) ==
        IF r.payload.access < build + 1 - Week THEN table
        ELSE HashTableInsert(table, r.hash, r.string, r.payload)
  IN FoldLeft(Load, HashTableInit, records)

\* The next build: DigestCacheOpen loads what is not too old, the stat cache
\* starts empty.
NextBuild(records) ==
  /\ build < MaxBuilds /\ \A t \in Thread : at[t] = "Idle"
  /\ digestFile' = records
  /\ digestTable' = Frozen(records)
  /\ statTable' = HashTableInit
  /\ stats' = 0 /\ build' = build + 1
  /\ action' = [f \in Output |-> "none"]
  /\ touched' = {}
  /\ UNCHANGED <<disk, versions, threadVars>>

\* DigestCacheSave replaces the file, or the build ends before that.
SaveDigests == NextBuild(HashTableWalk(digestTable))
LoseDigests == NextBuild(digestFile)

FileInit ==
  /\ disk = [f \in File |-> IF f \in Source THEN 1 ELSE Missing] /\ versions = 1
  /\ statTable = HashTableInit /\ digestTable = HashTableInit /\ digestFile = <<>>
  /\ at = [t \in Thread |-> "Idle"]
  /\ file = [t \in Thread |-> NoFile]
  /\ info = [t \in Thread |-> Missing] /\ sig = [t \in Thread |-> NotThere]
  /\ stats = 0 /\ build = 1
  /\ action = [f \in Output |-> "none"] /\ touched = {}

FileStep(t) ==
  \/ \E f \in File : BeginStat(t, f)
  \/ StatLookup(t) \/ GetFileInfo(t) \/ StatCacheInsert(t)
  \/ DirectoryThere(t) \/ CreateDirectory(t) \/ MarkDirectory(t)
  \/ SignTimestamp(t) \/ DigestCacheGet(t) \/ ReadFile(t) \/ DigestCacheSet(t) \/ Return(t)
  \/ \E f \in Output : RemoveOutput(t, f) \/ MarkOutput(t, f) \/ RunCommand(t, f)

FileNext ==
  \/ \E t \in Thread : FileStep(t)
  \/ \E f \in Source : Edit(f)
  \/ SaveDigests \/ LoseDigests

FileSpec == FileInit /\ [][FileNext]_fileVars

-----------------------------------------------------------------------------

\* A signature is that of the file as it is: neither a duplicate in the stat
\* cache, nor a late insert, nor a digest from an earlier build brings back what
\* an action has replaced or the user changed before the build.
SignatureCurrent ==
  \A t \in Thread : at[t] = "Signed" /\ file[t] \notin touched =>
    sig[t] = IF disk[file[t]] = Missing THEN NotThere ELSE disk[file[t]]

\* Both hash tables stay fit for lookups, and a file has one digest record at
\* most, however threads race to enter it.
TablesSound ==
  /\ TableSound(statTable) /\ TableSound(digestTable)
  /\ \A i, k \in UsedSlots(digestTable) :
       digestTable.slots[i].string = digestTable.slots[k].string => i = k

\* MakeDirectoriesRecursive does not fail, and returns only when the directory is
\* there, although two threads may make it at once and a late insert of the stat
\* cache may hide it.
DirectoryMade ==
  \A t \in Thread :
    /\ at[t] # "Failed"
    /\ at[t] \in {"MadeNow", "Made"} => disk[file[t]] # Missing

=============================================================================
