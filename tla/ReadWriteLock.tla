--------------------------- MODULE ReadWriteLock ---------------------------
(***************************************************************************)
(* src/src/ReadWriteLock.cpp: the lock around the stat, scan and digest    *)
(* caches, on versions of Windows that have no such lock.  It counts       *)
(* readers and writers under a mutex and sleeps on the condition variables *)
(* of ConditionVar.                                                        *)
(*                                                                         *)
(* The mutex is taken and released within one step unless a condition      *)
(* variable is used in between.                                            *)
(***************************************************************************)
EXTENDS ConditionVar

CONSTANT Rounds   \* bound: how often every thread takes the lock

ASSUME LockAssumption == {"read", "write"} \subseteq Cond

VARIABLES
  activeReaders, activeWriters,     \* m_ActiveReaders, m_ActiveWriters
  waitingReaders, waitingWriters,   \* m_WaitingReaders, m_WaitingWriters
  at,                               \* where every thread is
  rounds                            \* how often it will still take the lock

counts == <<activeReaders, activeWriters, waitingReaders, waitingWriters>>
lockVars == <<condVars, counts, at, rounds>>

LockInit ==
  /\ CondInit
  /\ activeReaders = 0 /\ activeWriters = 0
  /\ waitingReaders = 0 /\ waitingWriters = 0
  /\ at = [t \in Thread |-> "Out"]
  /\ rounds = [t \in Thread |-> Rounds]

Move(t, place) == at' = [at EXCEPT ![t] = place]
Call(t, operation) == call' = [call EXCEPT ![t] = operation]
OthersUnchanged == UNCHANGED <<waiters, sema, done, broadcast>>

\* What a thread at this place does next, if it is not inside a condition variable.
Ready(t, place) == at[t] = place /\ call[t] = NoCall

\* Taking the mutex, and having it back after a wait.
TakesMutex(t, place) == Ready(t, place) /\ mutex = NoThread
HasMutex(t, place)   == Ready(t, place) /\ mutex = t

-----------------------------------------------------------------------------

ReadLock(t) ==
  /\ TakesMutex(t, "Out") /\ rounds[t] > 0
  /\ IF activeWriters > 0
     THEN /\ waitingReaders' = waitingReaders + 1
          /\ mutex' = t /\ Call(t, Wait("read")) /\ Move(t, "ReadWait")
          /\ UNCHANGED activeReaders
     ELSE /\ activeReaders' = activeReaders + 1
          /\ Move(t, "Reading")
          /\ UNCHANGED <<mutex, call, waitingReaders>>
  /\ rounds' = [rounds EXCEPT ![t] = @ - 1]
  /\ UNCHANGED <<activeWriters, waitingWriters>> /\ OthersUnchanged

ReadAgain(t) ==
  /\ HasMutex(t, "ReadWait")
  /\ IF activeWriters > 0
     THEN Call(t, Wait("read")) /\ UNCHANGED <<mutex, counts, at>>
     ELSE /\ waitingReaders' = waitingReaders - 1
          /\ activeReaders' = activeReaders + 1
          /\ mutex' = NoThread /\ Move(t, "Reading")
          /\ UNCHANGED <<call, activeWriters, waitingWriters>>
  /\ UNCHANGED rounds /\ OthersUnchanged

\* Slip: the last reader does not think of the writers.
ReadUnlock_NoSignal(t) ==
  /\ TakesMutex(t, "Reading")
  /\ activeReaders' = activeReaders - 1
  /\ Move(t, "Out")
  /\ UNCHANGED <<mutex, call, activeWriters, waitingReaders, waitingWriters, rounds>>
  /\ OthersUnchanged

ReadUnlock(t) ==
  /\ TakesMutex(t, "Reading")
  /\ activeReaders' = activeReaders - 1
  /\ IF activeReaders = 1 /\ waitingWriters > 0
     THEN mutex' = t /\ Call(t, Signal("write")) /\ Move(t, "Unlock")
     ELSE Move(t, "Out") /\ UNCHANGED <<mutex, call>>
  /\ UNCHANGED <<activeWriters, waitingReaders, waitingWriters, rounds>> /\ OthersUnchanged

\* Slip: a writer looks for other writers only.
Occupied_WritersOnly == activeWriters > 0

Occupied == activeReaders > 0 \/ activeWriters > 0

WriteLock(t) ==
  /\ TakesMutex(t, "Out") /\ rounds[t] > 0
  /\ IF Occupied
     THEN /\ waitingWriters' = waitingWriters + 1
          /\ mutex' = t /\ Call(t, Wait("write")) /\ Move(t, "WriteWait")
          /\ UNCHANGED activeWriters
     ELSE /\ activeWriters' = activeWriters + 1
          /\ Move(t, "Writing")
          /\ UNCHANGED <<mutex, call, waitingWriters>>
  /\ rounds' = [rounds EXCEPT ![t] = @ - 1]
  /\ UNCHANGED <<activeReaders, waitingReaders>> /\ OthersUnchanged

WriteAgain(t) ==
  /\ HasMutex(t, "WriteWait")
  /\ IF Occupied
     THEN Call(t, Wait("write")) /\ UNCHANGED <<mutex, counts, at>>
     ELSE /\ waitingWriters' = waitingWriters - 1
          /\ activeWriters' = activeWriters + 1
          /\ mutex' = NoThread /\ Move(t, "Writing")
          /\ UNCHANGED <<call, activeReaders, waitingReaders>>
  /\ UNCHANGED rounds /\ OthersUnchanged

\* Readers who wait go first, all of them; otherwise one writer.
WriteUnlock(t) ==
  /\ TakesMutex(t, "Writing")
  /\ activeWriters' = activeWriters - 1
  /\ IF waitingReaders > 0 \/ waitingWriters > 0
     THEN /\ mutex' = t /\ Move(t, "Unlock")
          /\ Call(t, IF waitingReaders > 0 THEN Broadcast("read") ELSE Signal("write"))
     ELSE Move(t, "Out") /\ UNCHANGED <<mutex, call>>
  /\ UNCHANGED <<activeReaders, waitingReaders, waitingWriters, rounds>> /\ OthersUnchanged

Unlock(t) ==
  /\ HasMutex(t, "Unlock")
  /\ mutex' = NoThread /\ Move(t, "Out")
  /\ UNCHANGED <<call, counts, rounds>> /\ OthersUnchanged

-----------------------------------------------------------------------------

LockStep(t) ==
  \/ ReadLock(t) \/ ReadAgain(t) \/ ReadUnlock(t)
  \/ WriteLock(t) \/ WriteAgain(t) \/ WriteUnlock(t) \/ Unlock(t)
  \/ CondStep(t) /\ UNCHANGED <<counts, at, rounds>>

Finished == \A t \in Thread : at[t] = "Out" /\ rounds[t] = 0

LockNext == (\E t \in Thread : LockStep(t)) \/ (Finished /\ UNCHANGED lockVars)

LockSpec == LockInit /\ [][LockNext]_lockVars

-----------------------------------------------------------------------------

\* A writer is alone, and the counters say who is inside.
WritersAlone ==
  /\ \A t, u \in Thread : at[t] = "Writing" /\ at[u] \in {"Reading", "Writing"} => t = u
  /\ activeReaders = Cardinality({t \in Thread : at[t] = "Reading"})
  /\ activeWriters = Cardinality({t \in Thread : at[t] = "Writing"})

\* No wakeup is lost: everybody who wants the lock gets it and leaves again.
EverybodyLeaves == <>Finished

=============================================================================
