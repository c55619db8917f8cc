---------------------------- MODULE ConditionVar ----------------------------
(***************************************************************************)
(* src/src/ConditionVar.cpp: the condition variables that tundra makes for *)
(* itself, out of a semaphore, an event and a critical section, on         *)
(* versions of Windows that have none.                                     *)
(*                                                                         *)
(* A section under waiters_count_lock_ is one step.  The operation a       *)
(* thread is in, and how far it has come, is call[t]; an operation is      *)
(* begun by a client, which sets call[t], and is over when call[t] is      *)
(* NoCall again.                                                           *)
(***************************************************************************)
EXTENDS Integers, FiniteSets

CONSTANTS
  Thread,     \* the threads
  NoThread,   \* nobody holds the mutex
  Cond        \* the condition variables, which share one mutex

ASSUME ThreadAssumption == NoThread \notin Thread /\ IsFiniteSet(Thread)

VARIABLES
  mutex,      \* who holds the external mutex
  waiters,    \* waiters_count_
  sema,       \* the count of sema_
  done,       \* waiters_done_: whether the auto-reset event is set
  broadcast,  \* was_broadcast_
  call        \* the operation every thread is in

condVars == <<mutex, waiters, sema, done, broadcast, call>>

NoCall == [at |-> "Client", cond |-> "none"]
In(at, c) == [at |-> at, cond |-> c]

\* Where an operation begins.
Wait(c)      == In("WaitEnter", c)
Signal(c)    == In("SignalEnter", c)
Broadcast(c) == In("BroadcastEnter", c)

CondInit ==
  /\ mutex = NoThread
  /\ waiters = [c \in Cond |-> 0]
  /\ sema = [c \in Cond |-> 0]
  /\ done = [c \in Cond |-> FALSE]
  /\ broadcast = [c \in Cond |-> FALSE]
  /\ call = [t \in Thread |-> NoCall]

Goto(t, at) == call' = [call EXCEPT ![t] = In(at, call[t].cond)]
Return(t)   == call' = [call EXCEPT ![t] = NoCall]

-----------------------------------------------------------------------------
(* CondWait. *)

WaitEnter(t, c) ==
  /\ call[t] = In("WaitEnter", c)
  /\ waiters' = [waiters EXCEPT ![c] = @ + 1]
  /\ Goto(t, "WaitRelease")
  /\ UNCHANGED <<mutex, sema, done, broadcast>>

\* SignalObjectAndWait: the mutex is released ...
WaitRelease(t, c) ==
  /\ call[t] = In("WaitRelease", c)
  /\ mutex' = NoThread
  /\ Goto(t, "WaitSema")
  /\ UNCHANGED <<waiters, sema, done, broadcast>>

\* ... and the thread sleeps on the semaphore.
WaitSema(t, c) ==
  /\ call[t] = In("WaitSema", c)
  /\ sema[c] > 0
  /\ sema' = [sema EXCEPT ![c] = @ - 1]
  /\ Goto(t, "WaitLeave")
  /\ UNCHANGED <<mutex, waiters, done, broadcast>>

\* Slip: a waiter that is the last one does not know it.
WaitLeave_NeverLast(t, c) ==
  /\ call[t] = In("WaitLeave", c)
  /\ waiters' = [waiters EXCEPT ![c] = @ - 1]
  /\ Goto(t, "WaitMutex")
  /\ UNCHANGED <<mutex, sema, done, broadcast>>

WaitLeave(t, c) ==
  /\ call[t] = In("WaitLeave", c)
  /\ waiters' = [waiters EXCEPT ![c] = @ - 1]
  /\ Goto(t, IF broadcast[c] /\ waiters[c] = 1 THEN "WaitDone" ELSE "WaitMutex")
  /\ UNCHANGED <<mutex, sema, done, broadcast>>

\* The last waiter lets the thread that broadcasts go on.
WaitDone(t, c) ==
  /\ call[t] = In("WaitDone", c)
  /\ done' = [done EXCEPT ![c] = TRUE]
  /\ Goto(t, "WaitMutex")
  /\ UNCHANGED <<mutex, waiters, sema, broadcast>>

WaitMutex(t, c) ==
  /\ call[t] = In("WaitMutex", c)
  /\ mutex = NoThread
  /\ mutex' = t
  /\ Return(t)
  /\ UNCHANGED <<waiters, sema, done, broadcast>>

-----------------------------------------------------------------------------
(* CondSignal and CondBroadcast. *)

SignalEnter(t, c) ==
  /\ call[t] = In("SignalEnter", c)
  /\ IF waiters[c] > 0 THEN Goto(t, "SignalRelease") ELSE Return(t)
  /\ UNCHANGED <<mutex, waiters, sema, done, broadcast>>

SignalRelease(t, c) ==
  /\ call[t] = In("SignalRelease", c)
  /\ sema' = [sema EXCEPT ![c] = @ + 1]
  /\ Return(t)
  /\ UNCHANGED <<mutex, waiters, done, broadcast>>

BroadcastEnter(t, c) ==
  /\ call[t] = In("BroadcastEnter", c)
  /\ IF waiters[c] > 0
     THEN /\ broadcast' = [broadcast EXCEPT ![c] = TRUE]
          /\ sema' = [sema EXCEPT ![c] = @ + waiters[c]]
          /\ Goto(t, "BroadcastDone")
     ELSE Return(t) /\ UNCHANGED <<sema, broadcast>>
  /\ UNCHANGED <<mutex, waiters, done>>

\* Slip: the thread that broadcasts does not wait for the last waiter.
BroadcastDone_NoWait(t, c) ==
  /\ call[t] = In("BroadcastDone", c)
  /\ done' = [done EXCEPT ![c] = FALSE]
  /\ Goto(t, "BroadcastReset")
  /\ UNCHANGED <<mutex, waiters, sema, broadcast>>

\* The event resets itself when a thread has seen it.
BroadcastDone(t, c) ==
  /\ call[t] = In("BroadcastDone", c)
  /\ done[c]
  /\ done' = [done EXCEPT ![c] = FALSE]
  /\ Goto(t, "BroadcastReset")
  /\ UNCHANGED <<mutex, waiters, sema, broadcast>>

BroadcastReset(t, c) ==
  /\ call[t] = In("BroadcastReset", c)
  /\ broadcast' = [broadcast EXCEPT ![c] = FALSE]
  /\ Return(t)
  /\ UNCHANGED <<mutex, waiters, sema, done>>

CondStep(t) ==
  \E c \in Cond :
    \/ WaitEnter(t, c) \/ WaitRelease(t, c) \/ WaitSema(t, c)
    \/ WaitLeave(t, c) \/ WaitDone(t, c) \/ WaitMutex(t, c)
    \/ SignalEnter(t, c) \/ SignalRelease(t, c)
    \/ BroadcastEnter(t, c) \/ BroadcastDone(t, c) \/ BroadcastReset(t, c)

-----------------------------------------------------------------------------

\* CondBroadcast clears was_broadcast_ without waiters_count_lock_ "because no
\* other waiter threads can wake up to access it": a thread that has the
\* semaphore and has not yet looked at the flag must not exist then.
NobodyLooksAtFlag ==
  \A t \in Thread, c \in Cond :
    call[t] = In("BroadcastReset", c) => \A u \in Thread : call[u] # In("WaitLeave", c)

=============================================================================
