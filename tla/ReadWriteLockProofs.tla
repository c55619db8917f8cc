------------------------ MODULE ReadWriteLockProofs ------------------------
(***************************************************************************)
(* Safety of the read-write lock of old versions of Windows, and of the    *)
(* condition variables it is made of, for any number of threads.           *)
(***************************************************************************)
EXTENDS ReadWriteLock, FiniteSetTheorems, TLAPS

-----------------------------------------------------------------------------
(* The inductive invariants. *)

Place == {"Out", "ReadWait", "Reading", "WriteWait", "Writing", "Unlock"}

\* Who is inside is what the counters say: every counter changes in the step in
\* which its thread moves.
InsideInv == at \in [Thread -> Place] /\ WritersAlone

CallPlace ==
  {"Client", "WaitEnter", "WaitRelease", "WaitSema", "WaitLeave", "WaitDone", "WaitMutex",
   "SignalEnter", "SignalRelease", "BroadcastEnter", "BroadcastDone", "BroadcastReset"}

\* Where the external mutex is held.
UnderMutex ==
  {"WaitEnter", "WaitRelease", "SignalEnter", "SignalRelease",
   "BroadcastEnter", "BroadcastDone", "BroadcastReset"}

\* The threads that waiters_count_ counts.
Counted(c) ==
  {t \in Thread : call[t] \in {In("WaitRelease", c), In("WaitSema", c), In("WaitLeave", c)}}

CallTypeOK ==
  /\ call \in [Thread -> [at : CallPlace, cond : Cond \cup {"none"}]]
  /\ waiters \in [Cond -> Nat]
  /\ done \in [Cond -> BOOLEAN] /\ broadcast \in [Cond -> BOOLEAN]

Broadcasting(c) == \E b \in Thread : call[b] = In("BroadcastDone", c)
Resetting(c)    == \E b \in Thread : call[b] = In("BroadcastReset", c)

\* Nobody begins to wait while another thread broadcasts.
MutexHeld == \A t \in Thread : call[t].at \in UnderMutex => mutex = t

\* waiters_count_ is the number of threads between their entry and their look at the
\* flag.
WaitersCounted == \A c \in Cond : waiters[c] = Cardinality(Counted(c))

\* The last waiter, and nobody else, is about to tell the thread that broadcasts.
LastWaiter ==
  \A c \in Cond, t \in Thread : call[t] = In("WaitDone", c) =>
    /\ waiters[c] = 0 /\ ~done[c] /\ Broadcasting(c)
    /\ \A u \in Thread : call[u] = In("WaitDone", c) => u = t

\* When it has been told there is no waiter left, and none when it has heard it.
AfterLast ==
  \A c \in Cond :
    /\ done[c] => waiters[c] = 0 /\ Broadcasting(c)
    /\ Resetting(c) => waiters[c] = 0 /\ ~done[c] /\ \A t \in Thread : call[t] # In("WaitDone", c)

\* The flag is set only by a broadcast that is on its way.
FlagOwned == \A c \in Cond : broadcast[c] => Broadcasting(c) \/ Resetting(c)

FlagInv == CallTypeOK /\ MutexHeld /\ WaitersCounted /\ LastWaiter /\ AfterLast /\ FlagOwned

-----------------------------------------------------------------------------
(* How many threads are at a place, when one of them moves. *)

\* The threads that a function puts at a place.
At(f, place) == {t \in Thread : f[t] = place}

\* Any set of threads has a size, which is 0 only for the empty one.
LEMMA ThreadsCounted ==
  ASSUME NEW T \in SUBSET Thread
  PROVE  IsFiniteSet(T) /\ Cardinality(T) \in Nat /\ (Cardinality(T) = 0 <=> T = {})
<1>1. IsFiniteSet(T)
  BY ThreadAssumption, FS_Subset
<1> QED
  BY <1>1, FS_CardinalityType, FS_EmptySet

\* Two sets that differ in one thread at most.
LEMMA OneMoves ==
  ASSUME NEW S \in SUBSET Thread, NEW T \in SUBSET Thread, NEW t \in Thread,
         \A u \in Thread \ {t} : u \in T <=> u \in S
  PROVE  Cardinality(T) = Cardinality(S) + (IF t \in T THEN 1 ELSE 0)
                                         - (IF t \in S THEN 1 ELSE 0)
<1>1. IsFiniteSet(S) /\ Cardinality(S) \in Nat
  BY ThreadsCounted
<1>2. CASE t \in T /\ t \notin S
  <2>1. T = S \cup {t}
    BY <1>2
  <2> QED
    BY <1>1, <1>2, <2>1, FS_AddElement
<1>3. CASE t \notin T /\ t \in S
  <2>1. T = S \ {t}
    BY <1>3
  <2>2. Cardinality(T) = Cardinality(S) - 1
    BY <1>1, <1>3, <2>1, FS_RemoveElement, Zenon
  <2> QED
    BY <1>1, <1>3, <2>2
<1>4. CASE t \in T <=> t \in S
  <2>1. T = S
    BY <1>4
  <2> QED
    BY <1>1, <1>4, <2>1
<1> QED
  BY <1>2, <1>3, <1>4

-----------------------------------------------------------------------------
(* A writer is alone. *)

\* When nobody holds the lock, nobody is inside.
LEMMA NotOccupied ==
  ASSUME InsideInv
  PROVE  /\ activeReaders \in Nat /\ activeWriters \in Nat
         /\ ~(activeWriters > 0) => \A t \in Thread : at[t] # "Writing"
         /\ ~Occupied => \A t \in Thread : at[t] \notin {"Reading", "Writing"}
<1>1. /\ activeReaders \in Nat /\ (activeReaders = 0 <=> At(at, "Reading") = {})
      /\ activeWriters \in Nat /\ (activeWriters = 0 <=> At(at, "Writing") = {})
  BY ThreadsCounted DEF InsideInv, WritersAlone, At
<1> QED
  BY <1>1 DEF At, Occupied

\* What a move must do to the counters to keep the invariant: they change with the
\* number of threads at the two places, and whoever comes in may be there.
LEMMA MoveKeeps ==
  ASSUME InsideInv, NEW t \in Thread, NEW place \in Place, Move(t, place),
         activeReaders' = Cardinality(At(at', "Reading")),
         activeWriters' = Cardinality(At(at', "Writing")),
         place = "Reading" => \A u \in Thread : at[u] # "Writing",
         place = "Writing" => \A u \in Thread : at[u] \notin {"Reading", "Writing"}
  PROVE  InsideInv'
<1>1. at' \in [Thread -> Place] /\ at'[t] = place /\ \A u \in Thread \ {t} : at'[u] = at[u]
  BY DEF InsideInv, Move
<1>2. \A u, v \in Thread : at'[u] = "Writing" /\ at'[v] \in {"Reading", "Writing"} => u = v
  BY <1>1 DEF InsideInv, WritersAlone
<1> QED
  BY <1>1, <1>2 DEF InsideInv, WritersAlone, At

\* The size of the two places after a move.
LEMMA CountsAfterMove ==
  ASSUME InsideInv, NEW t \in Thread, NEW place \in Place, place # at[t], Move(t, place)
  PROVE  /\ Cardinality(At(at', "Reading")) = IF place = "Reading" THEN activeReaders + 1
                                              ELSE IF at[t] = "Reading" THEN activeReaders - 1
                                              ELSE activeReaders
         /\ Cardinality(At(at', "Writing")) = IF place = "Writing" THEN activeWriters + 1
                                              ELSE IF at[t] = "Writing" THEN activeWriters - 1
                                              ELSE activeWriters
<1>1. at'[t] = place /\ \A u \in Thread \ {t} : at'[u] = at[u]
  BY DEF InsideInv, Move
<1>2. /\ activeReaders = Cardinality(At(at, "Reading"))
      /\ activeWriters = Cardinality(At(at, "Writing"))
  BY DEF InsideInv, WritersAlone, At
<1>3. /\ activeReaders \in Nat /\ activeWriters \in Nat
      /\ At(at, "Reading") \subseteq Thread /\ At(at', "Reading") \subseteq Thread
      /\ At(at, "Writing") \subseteq Thread /\ At(at', "Writing") \subseteq Thread
  BY NotOccupied DEF At
<1>4. \A p : /\ t \in At(at', p) <=> place = p
             /\ t \in At(at, p) <=> at[t] = p
             /\ \A u \in Thread \ {t} : u \in At(at', p) <=> u \in At(at, p)
  BY <1>1 DEF At
<1> QED
  BY <1>2, <1>3, <1>4, OneMoves

\* Every step of the lock keeps the invariant.
LEMMA InsideStep ==
  ASSUME InsideInv, [LockNext]_lockVars
  PROVE  InsideInv'
<1>1. CASE UNCHANGED lockVars
  BY <1>1 DEF lockVars, counts, InsideInv, WritersAlone
<1>2. SUFFICES ASSUME NEW t \in Thread, LockStep(t)
               PROVE  InsideInv'
  BY <1>1, <1>2 DEF LockNext
<1>3. CASE UNCHANGED <<at, activeReaders, activeWriters>>
  BY <1>3 DEF InsideInv, WritersAlone
<1>4. CASE ReadLock(t)
  <2>1. at[t] = "Out"
    BY <1>4 DEF ReadLock, TakesMutex, Ready
  <2>2. CASE activeWriters > 0
    BY <1>4, <2>1, <2>2, CountsAfterMove, MoveKeeps DEF ReadLock, Place
  <2>3. CASE ~(activeWriters > 0)
    BY <1>4, <2>1, <2>3, NotOccupied, CountsAfterMove, MoveKeeps DEF ReadLock, Place
  <2> QED
    BY <2>2, <2>3
<1>5. CASE ReadAgain(t)
  <2>1. at[t] = "ReadWait"
    BY <1>5 DEF ReadAgain, HasMutex, Ready
  <2>2. CASE activeWriters > 0
    BY <1>3, <1>5, <2>2 DEF ReadAgain, counts
  <2>3. CASE ~(activeWriters > 0)
    BY <1>5, <2>1, <2>3, NotOccupied, CountsAfterMove, MoveKeeps DEF ReadAgain, Place
  <2> QED
    BY <2>2, <2>3
<1>6. CASE ReadUnlock(t)
  <2>1. at[t] = "Reading" /\ \E place \in {"Unlock", "Out"} : Move(t, place)
    BY <1>6 DEF ReadUnlock, TakesMutex, Ready
  <2> QED
    BY <1>6, <2>1, CountsAfterMove, MoveKeeps DEF ReadUnlock, Place
<1>7. CASE WriteLock(t)
  <2>1. at[t] = "Out"
    BY <1>7 DEF WriteLock, TakesMutex, Ready
  <2>2. CASE Occupied
    BY <1>7, <2>1, <2>2, CountsAfterMove, MoveKeeps DEF WriteLock, Place
  <2>3. CASE ~Occupied
    BY <1>7, <2>1, <2>3, NotOccupied, CountsAfterMove, MoveKeeps DEF WriteLock, Place
  <2> QED
    BY <2>2, <2>3
<1>8. CASE WriteAgain(t)
  <2>1. at[t] = "WriteWait"
    BY <1>8 DEF WriteAgain, HasMutex, Ready
  <2>2. CASE Occupied
    BY <1>3, <1>8, <2>2 DEF WriteAgain, counts
  <2>3. CASE ~Occupied
    BY <1>8, <2>1, <2>3, NotOccupied, CountsAfterMove, MoveKeeps DEF WriteAgain, Place
  <2> QED
    BY <2>2, <2>3
<1>9. CASE WriteUnlock(t)
  <2>1. at[t] = "Writing" /\ \E place \in {"Unlock", "Out"} : Move(t, place)
    BY <1>9 DEF WriteUnlock, TakesMutex, Ready
  <2> QED
    BY <1>9, <2>1, CountsAfterMove, MoveKeeps DEF WriteUnlock, Place
<1>10. CASE Unlock(t)
  <2>1. at[t] = "Unlock" /\ Move(t, "Out")
    BY <1>10 DEF Unlock, HasMutex, Ready
  <2> QED
    BY <1>10, <2>1, CountsAfterMove, MoveKeeps DEF Unlock, counts, Place
<1>11. CASE CondStep(t) /\ UNCHANGED <<counts, at, rounds>>
  BY <1>3, <1>11 DEF counts
<1> QED
  BY <1>2, <1>4, <1>5, <1>6, <1>7, <1>8, <1>9, <1>10, <1>11 DEF LockStep

\* ReadWriteLock.cpp lets a writer in only when nobody is inside, and a reader only
\* when no writer is, whatever the number of threads and the order in which the
\* condition variables wake them; and its counters are those of the threads inside.
THEOREM WriterExclusion == LockSpec => []WritersAlone
<1>1. LockInit => InsideInv
  <2>1. At([t \in Thread |-> "Out"], "Reading") = {} /\ At([t \in Thread |-> "Out"], "Writing") = {}
    BY DEF At
  <2> QED
    BY <2>1, FS_EmptySet DEF LockInit, InsideInv, WritersAlone, Place, At
<1>2. InsideInv /\ [LockNext]_lockVars => InsideInv'
  BY InsideStep
<1>3. InsideInv => WritersAlone
  BY DEF InsideInv
<1> QED
  BY <1>1, <1>2, <1>3, PTL DEF LockSpec

-----------------------------------------------------------------------------
(* Nobody looks at was_broadcast_ while it is cleared. *)

CallType == [at : CallPlace, cond : Cond \cup {"none"}]

\* The records that say where a call is are equal when place and variable are.
LEMMA InFacts ==
  /\ \A p, c : In(p, c).at = p
  /\ \A p, q, c, d : In(p, c) = In(q, d) <=> p = q /\ c = d
  /\ NoCall.at = "Client" /\ NoCall \in CallType
  /\ \A p \in CallPlace, c \in Cond : In(p, c) \in CallType
  /\ \A p, c : p # "Client" => NoCall # In(p, c)
BY DEF In, NoCall, CallType, CallPlace

\* What a step does to call: one thread's operation changes.
Becomes(t, x) == call'[t] = x /\ \A u \in Thread \ {t} : call'[u] = call[u]

\* A step that replaces one thread's call leaves the others where they are.
LEMMA CallSet ==
  ASSUME CallTypeOK, NEW t \in Thread, NEW x \in CallType, call' = [call EXCEPT ![t] = x]
  PROVE  Becomes(t, x) /\ call' \in [Thread -> CallType]
<1>1. call \in [Thread -> CallType]
  BY DEF CallTypeOK, CallType
<1> QED
  BY <1>1 DEF Becomes

\* A step that moves one thread's call on keeps its condition variable.
LEMMA CallGoes ==
  ASSUME CallTypeOK, NEW t \in Thread, NEW p, NEW q \in CallPlace, NEW c \in Cond,
         call[t] = In(p, c), Goto(t, q)
  PROVE  Becomes(t, In(q, c)) /\ call' \in [Thread -> CallType]
<1>1. call' = [call EXCEPT ![t] = In(q, c)]
  BY DEF Goto, In, CallType, CallTypeOK
<1> QED
  BY <1>1, CallSet, InFacts, Zenon

\* The states of an operation in which waiters_count_ counts its thread.
Waiting(c) == {In("WaitRelease", c), In("WaitSema", c), In("WaitLeave", c)}

\* waiters_count_ stays exact when it changes by what one thread's move says.
LEMMA CountKept ==
  ASSUME WaitersCounted, CallTypeOK, NEW t \in Thread, NEW x, Becomes(t, x),
         waiters' \in [Cond -> Nat],
         \A c \in Cond : waiters'[c] = waiters[c]
                           + (IF x \in Waiting(c) THEN 1 ELSE 0)
                           - (IF call[t] \in Waiting(c) THEN 1 ELSE 0)
  PROVE  WaitersCounted'
<1> SUFFICES ASSUME NEW c \in Cond
             PROVE  waiters'[c] = Cardinality(Counted(c)')
  BY DEF WaitersCounted
<1>1. waiters[c] = Cardinality(Counted(c)) /\ waiters[c] \in Nat
  BY DEF WaitersCounted, CallTypeOK
<1>2. /\ t \in Counted(c) <=> call[t] \in Waiting(c)
      /\ t \in Counted(c)' <=> x \in Waiting(c)
      /\ \A u \in Thread \ {t} : u \in Counted(c)' <=> u \in Counted(c)
      /\ Counted(c) \subseteq Thread /\ Counted(c)' \subseteq Thread
  BY DEF Counted, Waiting, Becomes
<1> QED
  BY <1>1, <1>2, OneMoves

\* Whoever holds the mutex is the only one in a part that needs it, and when
\* somebody holds it who is not broadcasting nobody broadcasts.
LEMMA OthersOutside ==
  ASSUME FlagInv, NEW t \in Thread, mutex \in {t, NoThread}
  PROVE  \A u \in Thread \ {t} : call[u].at \notin UnderMutex
BY ThreadAssumption DEF FlagInv, MutexHeld

\* When the mutex is free, or held by a thread that does not broadcast, no flag is
\* set and nobody is about to tell a broadcaster.
LEMMA NobodyBroadcasts ==
  ASSUME FlagInv, NEW t \in Thread, mutex \in {t, NoThread},
         call[t].at \notin {"BroadcastDone", "BroadcastReset"}
  PROVE  \A c \in Cond : /\ ~Broadcasting(c) /\ ~Resetting(c) /\ ~broadcast[c] /\ ~done[c]
                         /\ \A u \in Thread : call[u] # In("WaitDone", c)
<1>1. \A u \in Thread : call[u].at \notin {"BroadcastDone", "BroadcastReset"}
  BY OthersOutside DEF UnderMutex
<1>2. \A c \in Cond : ~Broadcasting(c) /\ ~Resetting(c)
  BY <1>1, InFacts DEF Broadcasting, Resetting
<1> QED
  BY <1>2 DEF FlagInv, LastWaiter, AfterLast, FlagOwned

\* The steps that do not touch a counter or a flag, from and to places that only the
\* mutex and the number of waiters care about.  The lock's own steps are among them.
QuietPlace == {"Client", "WaitEnter", "WaitRelease", "WaitSema", "WaitLeave", "WaitMutex",
               "SignalEnter", "SignalRelease", "BroadcastEnter"}

\* A step from one of these places to another keeps the invariant.
LEMMA QuietStep ==
  ASSUME FlagInv, NEW t \in Thread, NEW x \in CallType, Becomes(t, x),
         call' \in [Thread -> CallType], call[t].at \in QuietPlace, x.at \in QuietPlace,
         \A c \in Cond : x \in Waiting(c) <=> call[t] \in Waiting(c),
         x.at \in UnderMutex => mutex' = t,
         mutex' = mutex \/ mutex \in {t, NoThread},
         UNCHANGED <<waiters, done, broadcast>>
  PROVE  FlagInv'
<1>1. CallTypeOK'
  BY DEF FlagInv, CallTypeOK, CallType
<1>2. MutexHeld'
  BY OthersOutside DEF FlagInv, MutexHeld, Becomes
<1>3. WaitersCounted'
  BY <1>1, CountKept DEF FlagInv, CallTypeOK
<1>4. \A c \in Cond : /\ Broadcasting(c)' <=> Broadcasting(c)
                      /\ Resetting(c)' <=> Resetting(c)
                      /\ \A u \in Thread : call'[u] = In("WaitDone", c) <=> call[u] = In("WaitDone", c)
  BY InFacts DEF Becomes, Broadcasting, Resetting, QuietPlace
<1> QED
  BY <1>1, <1>2, <1>3, <1>4 DEF FlagInv, LastWaiter, AfterLast, FlagOwned

\* A thread is counted as a waiter while it holds the mutex: no broadcast runs.
LEMMA WaitEnterKeeps ==
  ASSUME FlagInv, NEW t \in Thread, NEW c \in Cond, WaitEnter(t, c)
  PROVE  FlagInv'
<1>1. /\ Becomes(t, In("WaitRelease", c)) /\ call' \in [Thread -> CallType]
      /\ call[t] = In("WaitEnter", c) /\ call[t].at = "WaitEnter"
  BY CallGoes, InFacts DEF FlagInv, WaitEnter, CallPlace
<1>2. waiters' = [waiters EXCEPT ![c] = @ + 1] /\ UNCHANGED <<mutex, done, broadcast>>
  BY DEF WaitEnter
<1>3. CallTypeOK'
  BY <1>1, <1>2 DEF FlagInv, CallTypeOK, CallType
<1>4. mutex = t
  BY <1>1 DEF FlagInv, MutexHeld, UnderMutex
<1>5. MutexHeld'
  BY <1>1, <1>2, <1>4, InFacts DEF FlagInv, MutexHeld, Becomes
<1>6. WaitersCounted'
  <2>1. \A d : (In("WaitRelease", c) \in Waiting(d) <=> d = c) /\ call[t] \notin Waiting(d)
    BY <1>1, InFacts DEF Waiting
  <2>2. \A d \in Cond : waiters[d] \in Nat /\ waiters'[d] = IF d = c THEN waiters[d] + 1 ELSE waiters[d]
    BY <1>2 DEF FlagInv, CallTypeOK
  <2>3. \A d \in Cond : waiters'[d] = waiters[d]
                           + (IF In("WaitRelease", c) \in Waiting(d) THEN 1 ELSE 0)
                           - (IF call[t] \in Waiting(d) THEN 1 ELSE 0)
    BY <2>1, <2>2
  <2> QED
    BY <1>1, <1>3, <2>3, CountKept DEF FlagInv, CallTypeOK
<1>7. \A d \in Cond : /\ ~broadcast[d] /\ ~done[d] /\ ~Resetting(d)
                      /\ \A u \in Thread : call[u] # In("WaitDone", d)
  BY <1>1, <1>4, NobodyBroadcasts
<1>8. \A d \in Cond : /\ ~broadcast'[d] /\ ~done'[d] /\ ~Resetting(d)'
                      /\ \A u \in Thread : call'[u] # In("WaitDone", d)
  BY <1>1, <1>2, <1>7, InFacts DEF Becomes, Resetting
<1> QED
  BY <1>3, <1>5, <1>6, <1>8 DEF FlagInv, LastWaiter, AfterLast, FlagOwned

\* A waiter that leaves is uncounted; only the last one of a broadcast goes on to
\* tell the broadcaster.
LEMMA WaitLeaveKeeps ==
  ASSUME FlagInv, NEW t \in Thread, NEW c \in Cond, WaitLeave(t, c)
  PROVE  FlagInv'
<1> DEFINE last == broadcast[c] /\ waiters[c] = 1
           x == In(IF last THEN "WaitDone" ELSE "WaitMutex", c)
<1>1. /\ Becomes(t, x) /\ call' \in [Thread -> CallType]
      /\ call[t] = In("WaitLeave", c) /\ call[t].at = "WaitLeave"
  <2>1. CASE last
    BY <2>1, CallGoes, InFacts DEF FlagInv, WaitLeave, CallPlace
  <2>2. CASE ~last
    BY <2>2, CallGoes, InFacts DEF FlagInv, WaitLeave, CallPlace
  <2> QED
    BY <2>1, <2>2
<1>2. waiters' = [waiters EXCEPT ![c] = @ - 1] /\ UNCHANGED <<mutex, done, broadcast>>
  BY DEF WaitLeave
<1>3. waiters[c] \in Nat /\ waiters[c] > 0
  <2>1. t \in Counted(c) /\ Counted(c) \in SUBSET Thread
    BY <1>1 DEF Counted
  <2>2. Cardinality(Counted(c)) # 0 /\ Cardinality(Counted(c)) \in Nat
    BY <2>1, ThreadsCounted
  <2> QED
    BY <2>2 DEF FlagInv, WaitersCounted
<1>4. CallTypeOK'
  BY <1>1, <1>2, <1>3 DEF FlagInv, CallTypeOK, CallType
<1>5. MutexHeld'
  BY <1>1, <1>2, InFacts DEF FlagInv, MutexHeld, Becomes, UnderMutex
<1>6. \A d \in Cond : waiters[d] \in Nat /\ waiters'[d] = IF d = c THEN waiters[d] - 1 ELSE waiters[d]
  BY <1>2 DEF FlagInv, CallTypeOK
<1>7. WaitersCounted'
  <2>1. \A d : x \notin Waiting(d) /\ (call[t] \in Waiting(d) <=> d = c)
    BY <1>1, InFacts DEF Waiting
  <2>2. \A d \in Cond : waiters'[d] = waiters[d] + (IF x \in Waiting(d) THEN 1 ELSE 0)
                                                 - (IF call[t] \in Waiting(d) THEN 1 ELSE 0)
    BY <1>6, <2>1
  <2> HIDE DEF x
  <2> QED
    BY <1>1, <1>4, <2>2, CountKept DEF FlagInv, CallTypeOK
<1>8. \A d \in Cond : (Broadcasting(d)' <=> Broadcasting(d)) /\ (Resetting(d)' <=> Resetting(d))
  BY <1>1, InFacts DEF Becomes, Broadcasting, Resetting
<1>9. ~done[c] /\ ~Resetting(c) /\ \A u \in Thread : call[u] # In("WaitDone", c)
  BY <1>3 DEF FlagInv, LastWaiter, AfterLast
<1>10. \A d \in Cond \ {c}, u \in Thread : call'[u] = In("WaitDone", d) <=> call[u] = In("WaitDone", d)
  BY <1>1, InFacts DEF Becomes
<1>11. \A u \in Thread : call'[u] = In("WaitDone", c) => u = t /\ last
  BY <1>1, <1>9, InFacts DEF Becomes
<1>12. last => waiters'[c] = 0 /\ Broadcasting(c)
  BY <1>3, <1>6, <1>9 DEF FlagInv, FlagOwned
<1> HIDE DEF last
<1>13. LastWaiter'
  BY <1>2, <1>6, <1>8, <1>9, <1>10, <1>11, <1>12 DEF FlagInv, LastWaiter
<1>14. AfterLast'
  BY <1>2, <1>6, <1>8, <1>9, <1>10 DEF FlagInv, AfterLast
<1>15. FlagOwned'
  BY <1>2, <1>8 DEF FlagInv, FlagOwned
<1> QED
  BY <1>4, <1>5, <1>7, <1>13, <1>14, <1>15 DEF FlagInv

\* The last waiter sets the event: the broadcaster still waits for it.
LEMMA WaitDoneKeeps ==
  ASSUME FlagInv, NEW t \in Thread, NEW c \in Cond, WaitDone(t, c)
  PROVE  FlagInv'
<1>1. /\ Becomes(t, In("WaitMutex", c)) /\ call' \in [Thread -> CallType]
      /\ call[t] = In("WaitDone", c) /\ call[t].at = "WaitDone"
  BY CallGoes, InFacts DEF FlagInv, WaitDone, CallPlace
<1>2. done' = [done EXCEPT ![c] = TRUE] /\ UNCHANGED <<mutex, waiters, broadcast>>
  BY DEF WaitDone
<1>3. CallTypeOK'
  BY <1>1, <1>2 DEF FlagInv, CallTypeOK, CallType
<1>4. MutexHeld'
  BY <1>1, <1>2, InFacts DEF FlagInv, MutexHeld, Becomes, UnderMutex
<1>5. WaitersCounted'
  <2>1. \A d : In("WaitMutex", c) \notin Waiting(d) /\ call[t] \notin Waiting(d)
    BY <1>1, InFacts DEF Waiting
  <2> QED
    BY <1>1, <1>2, <1>3, <2>1, CountKept DEF FlagInv, CallTypeOK
<1>6. \A d \in Cond : (Broadcasting(d)' <=> Broadcasting(d)) /\ (Resetting(d)' <=> Resetting(d))
  BY <1>1, InFacts DEF Becomes, Broadcasting, Resetting
<1>7. /\ \A u \in Thread : call'[u] # In("WaitDone", c)
      /\ \A d \in Cond \ {c}, u \in Thread : call'[u] = In("WaitDone", d) <=> call[u] = In("WaitDone", d)
  BY <1>1, InFacts DEF Becomes, FlagInv, LastWaiter
<1>8. waiters[c] = 0 /\ Broadcasting(c) /\ ~Resetting(c)
  BY <1>1 DEF FlagInv, LastWaiter, AfterLast
<1>9. done'[c] /\ \A d \in Cond \ {c} : done'[d] = done[d]
  BY <1>2 DEF FlagInv, CallTypeOK
<1>10. LastWaiter'
  BY <1>2, <1>6, <1>7, <1>9 DEF FlagInv, LastWaiter
<1>11. AfterLast'
  BY <1>2, <1>6, <1>7, <1>8, <1>9 DEF FlagInv, AfterLast
<1>12. FlagOwned'
  BY <1>2, <1>6 DEF FlagInv, FlagOwned
<1> QED
  BY <1>3, <1>4, <1>5, <1>10, <1>11, <1>12 DEF FlagInv

\* The first half of CondBroadcast, when somebody waits.
LEMMA BroadcastBegins ==
  ASSUME FlagInv, NEW t \in Thread, NEW c \in Cond, BroadcastEnter(t, c), waiters[c] > 0
  PROVE  FlagInv'
<1>1. /\ Becomes(t, In("BroadcastDone", c)) /\ call' \in [Thread -> CallType]
      /\ call[t] = In("BroadcastEnter", c) /\ call[t].at = "BroadcastEnter"
  BY CallGoes, InFacts DEF FlagInv, BroadcastEnter, CallPlace
<1>2. broadcast' = [broadcast EXCEPT ![c] = TRUE] /\ UNCHANGED <<mutex, waiters, done>>
  BY DEF BroadcastEnter
<1>3. CallTypeOK'
  BY <1>1, <1>2 DEF FlagInv, CallTypeOK, CallType
<1>4. mutex = t
  BY <1>1 DEF FlagInv, MutexHeld, UnderMutex
<1>5. MutexHeld'
  BY <1>1, <1>2, <1>4, InFacts DEF FlagInv, MutexHeld, Becomes
<1>6. WaitersCounted'
  <2>1. \A d : In("BroadcastDone", c) \notin Waiting(d) /\ call[t] \notin Waiting(d)
    BY <1>1, InFacts DEF Waiting
  <2> QED
    BY <1>1, <1>2, <1>3, <2>1, CountKept DEF FlagInv, CallTypeOK
<1>7. \A d \in Cond : /\ ~broadcast[d] /\ ~done[d] /\ ~Resetting(d)
                      /\ \A u \in Thread : call[u] # In("WaitDone", d)
  BY <1>1, <1>4, NobodyBroadcasts
<1>8. \A d \in Cond : /\ broadcast'[d] => d = c
                      /\ ~done'[d] /\ ~Resetting(d)'
                      /\ \A u \in Thread : call'[u] # In("WaitDone", d)
  BY <1>1, <1>2, <1>7, InFacts DEF FlagInv, CallTypeOK, Becomes, Resetting
<1>9. Broadcasting(c)'
  BY <1>1 DEF Becomes, Broadcasting
<1> QED
  BY <1>3, <1>5, <1>6, <1>8, <1>9 DEF FlagInv, LastWaiter, AfterLast, FlagOwned

\* The broadcaster hears of the last waiter and is about to clear the flag.
LEMMA BroadcastDoneKeeps ==
  ASSUME FlagInv, NEW t \in Thread, NEW c \in Cond, BroadcastDone(t, c)
  PROVE  FlagInv'
<1>1. /\ Becomes(t, In("BroadcastReset", c)) /\ call' \in [Thread -> CallType]
      /\ call[t] = In("BroadcastDone", c) /\ call[t].at = "BroadcastDone"
  BY CallGoes, InFacts DEF FlagInv, BroadcastDone, CallPlace
<1>2. done[c] /\ done' = [done EXCEPT ![c] = FALSE] /\ UNCHANGED <<mutex, waiters, broadcast>>
  BY DEF BroadcastDone
<1>3. CallTypeOK'
  BY <1>1, <1>2 DEF FlagInv, CallTypeOK, CallType
<1>4. mutex = t
  BY <1>1 DEF FlagInv, MutexHeld, UnderMutex
<1>5. MutexHeld'
  BY <1>1, <1>2, <1>4, InFacts DEF FlagInv, MutexHeld, Becomes
<1>6. WaitersCounted'
  <2>1. \A d : In("BroadcastReset", c) \notin Waiting(d) /\ call[t] \notin Waiting(d)
    BY <1>1, InFacts DEF Waiting
  <2> QED
    BY <1>1, <1>2, <1>3, <2>1, CountKept DEF FlagInv, CallTypeOK
<1>7. waiters[c] = 0 /\ \A u \in Thread : call[u] # In("WaitDone", c)
  BY <1>2 DEF FlagInv, LastWaiter, AfterLast
<1>8. \A d \in Cond \ {c} : /\ ~Broadcasting(d) /\ ~Resetting(d) /\ ~broadcast[d] /\ ~done[d]
                            /\ \A u \in Thread : call[u] # In("WaitDone", d)
  <2>1. \A u \in Thread \ {t} : call[u].at \notin UnderMutex
    BY <1>4, OthersOutside
  <2>2. \A d \in Cond \ {c} : ~Broadcasting(d) /\ ~Resetting(d)
    BY <1>1, <2>1, InFacts DEF Broadcasting, Resetting, UnderMutex
  <2> QED
    BY <2>2 DEF FlagInv, LastWaiter, AfterLast, FlagOwned
<1>9. \A d \in Cond : /\ ~done'[d] /\ (Resetting(d)' => d = c) /\ (broadcast'[d] => d = c)
                      /\ \A u \in Thread : call'[u] # In("WaitDone", d)
  <2>1. \A d \in Cond : ~done'[d] /\ (broadcast'[d] => d = c)
    BY <1>2, <1>8 DEF FlagInv, CallTypeOK
  <2>2. \A d \in Cond : \A u \in Thread : call'[u] # In("WaitDone", d)
    BY <1>1, <1>7, <1>8, InFacts DEF Becomes
  <2>3. \A d \in Cond : Resetting(d)' => d = c
    BY <1>1, <1>8, InFacts DEF Becomes, Resetting
  <2> QED
    BY <2>1, <2>2, <2>3
<1>10. Resetting(c)'
  BY <1>1 DEF Becomes, Resetting
<1> QED
  BY <1>2, <1>3, <1>5, <1>6, <1>7, <1>9, <1>10 DEF FlagInv, LastWaiter, AfterLast, FlagOwned

\* The broadcaster clears the flag: nobody is left to look at it.
LEMMA BroadcastResetKeeps ==
  ASSUME FlagInv, NEW t \in Thread, NEW c \in Cond, BroadcastReset(t, c)
  PROVE  FlagInv'
<1>1. /\ Becomes(t, NoCall) /\ call' \in [Thread -> CallType]
      /\ call[t] = In("BroadcastReset", c) /\ call[t].at = "BroadcastReset"
  BY CallSet, InFacts, Zenon DEF FlagInv, BroadcastReset, Return
<1>2. broadcast' = [broadcast EXCEPT ![c] = FALSE] /\ UNCHANGED <<mutex, waiters, done>>
  BY DEF BroadcastReset
<1>3. CallTypeOK'
  BY <1>1, <1>2 DEF FlagInv, CallTypeOK, CallType
<1>4. mutex = t
  BY <1>1 DEF FlagInv, MutexHeld, UnderMutex
<1>5. \A u \in Thread \ {t} : call[u].at \notin UnderMutex
  BY <1>4, OthersOutside
<1>6. MutexHeld'
  BY <1>1, <1>2, <1>4 DEF FlagInv, MutexHeld, Becomes
<1>7. WaitersCounted'
  <2>1. \A d : NoCall \notin Waiting(d) /\ call[t] \notin Waiting(d)
    BY <1>1, InFacts DEF Waiting
  <2> QED
    BY <1>1, <1>2, <1>3, <2>1, CountKept DEF FlagInv, CallTypeOK
<1>8. \A d \in Cond : ~Broadcasting(d) /\ (Resetting(d) => d = c)
  BY <1>1, <1>5, InFacts DEF Broadcasting, Resetting, UnderMutex
<1>9. \A d \in Cond : /\ ~done[d] /\ (broadcast[d] => d = c)
                      /\ \A u \in Thread : call[u] # In("WaitDone", d)
  BY <1>8 DEF FlagInv, LastWaiter, AfterLast, FlagOwned
<1>10. \A d \in Cond : /\ ~done'[d] /\ ~broadcast'[d]
                       /\ \A u \in Thread : call'[u] # In("WaitDone", d)
  BY <1>1, <1>2, <1>9, InFacts DEF FlagInv, CallTypeOK, Becomes
<1>11. \A d \in Cond : ~Resetting(d)'
  BY <1>1, <1>5, InFacts DEF Becomes, Resetting, UnderMutex
<1> QED
  BY <1>3, <1>6, <1>7, <1>10, <1>11 DEF FlagInv, LastWaiter, AfterLast, FlagOwned

\* A step of a condition variable keeps the invariant.
LEMMA CondStepKeeps ==
  ASSUME FlagInv, NEW t \in Thread, CondStep(t)
  PROVE  FlagInv'
<1>1. PICK c \in Cond :
        \/ WaitEnter(t, c) \/ WaitRelease(t, c) \/ WaitSema(t, c)
        \/ WaitLeave(t, c) \/ WaitDone(t, c) \/ WaitMutex(t, c)
        \/ SignalEnter(t, c) \/ SignalRelease(t, c)
        \/ BroadcastEnter(t, c) \/ BroadcastDone(t, c) \/ BroadcastReset(t, c)
  BY DEF CondStep
<1>2. CallTypeOK
  BY DEF FlagInv
<1>3. \A p, d, e : In(p, d) \in Waiting(e) <=> p \in {"WaitRelease", "WaitSema", "WaitLeave"} /\ d = e
  BY InFacts DEF Waiting
<1>4. \A d : NoCall \notin Waiting(d)
  BY InFacts DEF Waiting
<1>5. ASSUME NEW p \in QuietPlace, p \notin {"WaitRelease", "WaitSema", "WaitLeave"},
             call[t] = In(p, c), Return(t), UNCHANGED <<waiters, done, broadcast>>,
             mutex' = mutex \/ mutex \in {t, NoThread}
      PROVE  FlagInv'
  <2>1. Becomes(t, NoCall) /\ call' \in [Thread -> CallType]
    BY <1>2, <1>5, CallSet, InFacts, Zenon DEF Return
  <2>2. NoCall.at \in QuietPlace /\ NoCall.at \notin UnderMutex /\ call[t].at \in QuietPlace
    BY <1>5, InFacts DEF QuietPlace, UnderMutex
  <2> QED
    BY <1>3, <1>4, <1>5, <2>1, <2>2, InFacts, QuietStep
<1>6. CASE WaitRelease(t, c)
  <2>1. Becomes(t, In("WaitSema", c)) /\ call' \in [Thread -> CallType]
    BY <1>2, <1>6, CallGoes DEF WaitRelease, CallPlace
  <2>2. call[t].at = "WaitRelease" /\ mutex = t
    BY <1>6, InFacts DEF WaitRelease, FlagInv, MutexHeld, UnderMutex
  <2>3. In("WaitSema", c).at \in QuietPlace \ UnderMutex /\ call[t].at \in QuietPlace
    BY <2>2, InFacts DEF QuietPlace, UnderMutex
  <2>4. In("WaitSema", c) \in CallType
    BY InFacts DEF CallPlace
  <2> QED
    BY <1>3, <1>6, <2>1, <2>2, <2>3, <2>4, QuietStep DEF WaitRelease
<1>7. CASE WaitSema(t, c)
  <2>1. Becomes(t, In("WaitLeave", c)) /\ call' \in [Thread -> CallType]
    BY <1>2, <1>7, CallGoes DEF WaitSema, CallPlace
  <2>2. In("WaitLeave", c).at \in QuietPlace \ UnderMutex /\ call[t].at \in QuietPlace
    BY <1>7, InFacts DEF WaitSema, QuietPlace, UnderMutex
  <2>3. In("WaitLeave", c) \in CallType
    BY InFacts DEF CallPlace
  <2> QED
    BY <1>3, <1>7, <2>1, <2>2, <2>3, QuietStep DEF WaitSema
<1>8. CASE WaitMutex(t, c)
  BY <1>5, <1>8 DEF WaitMutex, QuietPlace
<1>9. CASE SignalEnter(t, c)
  <2>1. CASE waiters[c] > 0
    <3>1. Becomes(t, In("SignalRelease", c)) /\ call' \in [Thread -> CallType]
      BY <1>2, <1>9, <2>1, CallGoes DEF SignalEnter, CallPlace
    <3>2. In("SignalRelease", c).at \in QuietPlace /\ call[t].at \in QuietPlace
      BY <1>9, InFacts DEF SignalEnter, QuietPlace
    <3>3. In("SignalRelease", c) \in CallType
      BY InFacts DEF CallPlace
    <3>4. mutex = t
      BY <1>9, InFacts DEF SignalEnter, FlagInv, MutexHeld, UnderMutex
    <3> QED
      BY <1>3, <1>9, <3>1, <3>2, <3>3, <3>4, QuietStep DEF SignalEnter
  <2>2. CASE ~(waiters[c] > 0)
    BY <1>5, <1>9, <2>2 DEF SignalEnter, QuietPlace
  <2> QED
    BY <2>1, <2>2
<1>10. CASE SignalRelease(t, c)
  BY <1>5, <1>10 DEF SignalRelease, QuietPlace
<1>11. CASE BroadcastEnter(t, c)
  <2>1. CASE ~(waiters[c] > 0)
    BY <1>5, <1>11, <2>1 DEF BroadcastEnter, QuietPlace
  <2> QED
    BY <1>11, <2>1, BroadcastBegins
<1> QED
  BY <1>1, <1>6, <1>7, <1>8, <1>9, <1>10, <1>11, WaitEnterKeeps, WaitLeaveKeeps, WaitDoneKeeps,
     BroadcastDoneKeeps, BroadcastResetKeeps

\* A step of the lock outside a condition variable only begins an operation, with the mutex,
\* or none.
LEMMA OwnStep ==
  ASSUME FlagInv, NEW t \in Thread, LockStep(t), ~CondStep(t)
  PROVE  /\ call[t] = NoCall /\ mutex \in {t, NoThread}
         /\ UNCHANGED <<waiters, done, broadcast>>
         /\ \/ UNCHANGED call
            \/ /\ mutex' = t
               /\ \E x \in {Wait("read"), Wait("write"), Signal("write"), Broadcast("read")} : Call(t, x)
<1>1. CASE ReadLock(t)
  BY <1>1 DEF ReadLock, TakesMutex, Ready, OthersUnchanged
<1>2. CASE ReadAgain(t)
  BY <1>2, Zenon DEF ReadAgain, HasMutex, Ready, OthersUnchanged
<1>3. CASE ReadUnlock(t)
  BY <1>3, Zenon DEF ReadUnlock, TakesMutex, Ready, OthersUnchanged
<1>4. CASE WriteLock(t)
  BY <1>4 DEF WriteLock, TakesMutex, Ready, OthersUnchanged
<1>5. CASE WriteAgain(t)
  BY <1>5 DEF WriteAgain, HasMutex, Ready, OthersUnchanged
<1>6. CASE WriteUnlock(t)
  BY <1>6 DEF WriteUnlock, TakesMutex, Ready, OthersUnchanged
<1>7. CASE Unlock(t)
  BY <1>7 DEF Unlock, HasMutex, Ready, OthersUnchanged
<1> QED
  BY <1>1, <1>2, <1>3, <1>4, <1>5, <1>6, <1>7 DEF LockStep

\* Every step of the lock keeps the invariant.
LEMMA FlagStep ==
  ASSUME FlagInv, [LockNext]_lockVars
  PROVE  FlagInv'
<1>1. CASE UNCHANGED lockVars
  <2>1. UNCHANGED <<call, mutex, waiters, done, broadcast>>
    BY <1>1 DEF lockVars, condVars
  <2>2. CallTypeOK' /\ MutexHeld'
    BY <2>1 DEF FlagInv, CallTypeOK, MutexHeld
  <2>3. \A c : Counted(c)' = Counted(c) /\ Broadcasting(c)' = Broadcasting(c)
               /\ Resetting(c)' = Resetting(c)
    BY <2>1 DEF Counted, Broadcasting, Resetting
  <2>4. WaitersCounted' /\ FlagOwned'
    BY <2>1, <2>3 DEF FlagInv, WaitersCounted, FlagOwned
  <2>5. LastWaiter' /\ AfterLast'
    BY <2>1, <2>3 DEF FlagInv, LastWaiter, AfterLast
  <2> QED
    BY <2>2, <2>4, <2>5 DEF FlagInv
<1>2. SUFFICES ASSUME NEW t \in Thread, LockStep(t), ~CondStep(t)
               PROVE  FlagInv'
  BY <1>1, <1>2, CondStepKeeps DEF LockNext
<1>3. /\ call[t] = NoCall /\ mutex \in {t, NoThread} /\ UNCHANGED <<waiters, done, broadcast>>
      /\ CallTypeOK /\ call[t].at = "Client" /\ \A c : call[t] \notin Waiting(c)
  <2>1. call[t] = NoCall /\ mutex \in {t, NoThread} /\ UNCHANGED <<waiters, done, broadcast>>
    BY <1>2, OwnStep
  <2> QED
    BY <2>1, InFacts DEF FlagInv, Waiting
<1>4. CASE UNCHANGED call
  <2>1. Becomes(t, NoCall) /\ call' \in [Thread -> CallType] /\ NoCall \in CallType
    BY <1>3, <1>4, InFacts DEF Becomes, CallTypeOK, CallType
  <2>2. NoCall.at \in QuietPlace \ UnderMutex
    BY InFacts DEF QuietPlace, UnderMutex
  <2> QED
    BY <1>3, <2>1, <2>2, QuietStep DEF QuietPlace
<1>5. CASE /\ mutex' = t
           /\ \E x \in {Wait("read"), Wait("write"), Signal("write"), Broadcast("read")} : Call(t, x)
  <2>1. PICK p \in {"WaitEnter", "SignalEnter", "BroadcastEnter"}, c \in {"read", "write"} :
          Call(t, In(p, c))
    BY <1>5 DEF Wait, Signal, Broadcast
  <2>2. /\ In(p, c) \in CallType /\ In(p, c).at \in QuietPlace
        /\ \A d : In(p, c) \notin Waiting(d)
    BY InFacts, LockAssumption DEF CallPlace, QuietPlace, Waiting
  <2>3. Becomes(t, In(p, c)) /\ call' \in [Thread -> CallType]
    BY <1>3, <2>1, <2>2, CallSet, Zenon DEF Call
  <2> QED
    BY <1>3, <1>5, <2>2, <2>3, QuietStep DEF QuietPlace
<1> QED
  BY <1>2, <1>4, <1>5, OwnStep

\* CondBroadcast of ConditionVar.cpp clears was_broadcast_ without waiters_count_lock_; for
\* every number of threads that share the lock no waiter can look at the flag then, because
\* the last waiter has left before the thread that broadcasts goes on, and nobody can begin
\* to wait while it holds the mutex.
THEOREM FlagSafe == LockSpec => []NobodyLooksAtFlag
<1>1. LockInit => FlagInv
  <2> SUFFICES ASSUME LockInit PROVE FlagInv
    OBVIOUS
  <2>1. \A t \in Thread : call[t] = NoCall
    BY DEF LockInit, CondInit
  <2>2. CallTypeOK
    BY InFacts DEF LockInit, CondInit, CallTypeOK, CallType
  <2>3. \A c : Counted(c) = {} /\ ~Broadcasting(c) /\ ~Resetting(c)
    BY <2>1, InFacts DEF Counted, Broadcasting, Resetting
  <2>4. WaitersCounted
    BY <2>3, FS_EmptySet DEF LockInit, CondInit, WaitersCounted
  <2>5. MutexHeld /\ LastWaiter
    BY <2>1, InFacts DEF MutexHeld, LastWaiter, UnderMutex
  <2>6. AfterLast /\ FlagOwned
    BY <2>3 DEF LockInit, CondInit, AfterLast, FlagOwned
  <2> QED
    BY <2>2, <2>4, <2>5, <2>6 DEF FlagInv
<1>2. FlagInv /\ [LockNext]_lockVars => FlagInv'
  BY FlagStep
<1>3. FlagInv => NobodyLooksAtFlag
  <2> SUFFICES ASSUME FlagInv, NEW t \in Thread, NEW u \in Thread, NEW c \in Cond,
                      call[t] = In("BroadcastReset", c), call[u] = In("WaitLeave", c)
               PROVE  FALSE
    BY DEF NobodyLooksAtFlag
  <2>1. waiters[c] = 0
    BY DEF FlagInv, AfterLast, Resetting
  <2>2. u \in Counted(c) /\ Counted(c) \in SUBSET Thread
    BY DEF Counted
  <2> QED
    BY <2>1, <2>2, ThreadsCounted DEF FlagInv, WaitersCounted
<1> QED
  BY <1>1, <1>2, <1>3, PTL DEF LockSpec

=============================================================================
