----------------------------- MODULE TerminalIo -----------------------------
(***************************************************************************)
(* src/src/TerminalIo.cpp: how the output of child processes that run at   *)
(* the same time is kept apart.  One job owns the TTY and writes to it,    *)
(* the others fill line buffers; a job that takes the TTY, or exits,       *)
(* flushes its buffers first.                                              *)
(*                                                                         *)
(* A message is a sort key and a number of pieces of at most kLineBufSize-1 *)
(* bytes; the caller is a job that emits messages and then exits.          *)
(* s_LineLock is held for the whole of each action except the direct write *)
(* and the last broadcast of TerminalIoJobExit, which the code does after  *)
(* it has unlocked.                                                        *)
(***************************************************************************)
EXTENDS Integers, SequencesExt

CONSTANTS
  Job,            \* job ids: the indices of the build threads
  NoJob,          \* s_PrintingJobIndex = -1
  LineBufCount,   \* kLineBufCount
  KeyWidth        \* width of the int that holds a sort key

ASSUME TerminalAssumption ==
  /\ NoJob \notin Job
  /\ LineBufCount \in Nat \ {0} /\ KeyWidth \in Nat \ {0}

VARIABLES
  owner,      \* s_PrintingJobIndex
  free,       \* s_FreeLinebufCount
  lines,      \* s_QueuedLinebufs, up to s_QueuedLinebufCount
  tty,        \* what has been written to the terminal
  at,         \* where every job is
  back,       \* where it goes on after TerminalIoEmit
  said,       \* said[j]: what job j has emitted, as <<[key, pieces], ...>>
  piece       \* the first piece of its last message that is not yet emitted

terminalVars == <<owner, free, lines, tty, at, back, said, piece>>

-----------------------------------------------------------------------------
(* Helpers. *)

\* A line of output: the i-th message of job j, piece k.
Line(j, i, k) == [job |-> j, message |-> i, piece |-> k, key |-> said[j][i].key]

Remaining(j) == Last(said[j]).pieces - piece[j] + 1

Pieces(j, count) == [k \in 1 .. count |-> Line(j, Len(said[j]), piece[j] + k - 1)]

\* The difference of two ints, wrapped to their width.
CompareBuffers(x, y) ==
  ((x.key - y.key + 2^(KeyWidth - 1)) % 2^KeyWidth) - 2^(KeyWidth - 1)

\* What qsort can make of the lines: neighbours compare as not greater.  The
\* order of lines that compare as equal is not specified.
Sorted(s) ==
  {p \in SetToSeqs(ToSet(s)) :
      \A i \in 1 .. Len(p) - 1 : CompareBuffers(p[i], p[i + 1]) <= 0}

OfJob(j) == SelectSeq(lines, LAMBDA l : l.job = j)

\* The compaction loop of FlushOutputQueue: the last line moves into the slot
\* of a line that is removed.
RECURSIVE Compact(_, _, _)
Compact(s, i, j) ==
  IF i > Len(s) THEN s
  ELSE IF s[i].job # j THEN Compact(s, i + 1, j)
  ELSE Compact(SubSeq([s EXCEPT ![i] = s[Len(s)]], 1, Len(s) - 1), i, j)

\* Wakeups on s_CanPrint.  A job that slept in Emit or Exit tries again.
Asleep(j, p) == p[j] \in {"EmitWait", "ExitWait"}
Awake(a) == IF a = "EmitWait" THEN "Emit" ELSE "Exit"
CondBroadcast(p) == [j \in Job |-> IF Asleep(j, p) THEN Awake(p[j]) ELSE p[j]]
CondSignal(p) ==
  IF \E j \in Job : Asleep(j, p)
  THEN {[p EXCEPT ![j] = Awake(p[j])] : j \in {i \in Job : Asleep(i, p)}}
  ELSE {p}

\* FlushOutputQueue(j); p is where the jobs are when it signals s_CanPrint.
FlushOutputQueue(j, p) ==
  LET count == Len(OfJob(j))
  IN /\ \E out \in Sorted(OfJob(j)) : tty' = tty \o out
     /\ lines' = Compact(lines, 1, j)
     /\ free' = free + count
     /\ at' \in CASE count = 0 -> {p}
                  [] count = 1 -> CondSignal(p)
                  [] OTHER     -> {CondBroadcast(p)}

-----------------------------------------------------------------------------
(* TerminalIoEmit. *)

\* Job j calls TerminalIoEmit and goes on at `return' afterwards.
CallEmit(j, key, pieces, return) ==
  /\ said' = [said EXCEPT ![j] = Append(@, [key |-> key, pieces |-> pieces])]
  /\ piece' = [piece EXCEPT ![j] = 1]
  /\ at' = [at EXCEPT ![j] = "Emit"]
  /\ back' = [back EXCEPT ![j] = return]
  /\ UNCHANGED <<owner, free, lines, tty>>

\* Slip: a job that takes the TTY leaves its older lines in the queue.
EmitOwner_NoFlush(j) ==
  /\ at[j] = "Emit" /\ owner \in {NoJob, j}
  /\ owner' = j
  /\ at' = [at EXCEPT ![j] = "Write"]
  /\ UNCHANGED <<tty, lines, free, back, said, piece>>

\* The TTY is free or already owned: take it, older lines first; the message
\* is written after the mutex has been released.
EmitOwner(j) ==
  /\ at[j] = "Emit" /\ owner \in {NoJob, j}
  /\ owner' = j
  /\ LET p == [at EXCEPT ![j] = "Write"]
     IN IF owner = NoJob THEN FlushOutputQueue(j, p)
                         ELSE at' = p /\ UNCHANGED <<tty, lines, free>>
  /\ UNCHANGED <<back, said, piece>>

WriteDirectly(j) ==
  /\ at[j] = "Write"
  /\ tty' = tty \o Pieces(j, Remaining(j))
  /\ at' = [at EXCEPT ![j] = back[j]]
  /\ UNCHANGED <<owner, free, lines, back, said, piece>>

\* Another job has the TTY: as many pieces as there are free buffers go into
\* the queue, and the job waits if that was not enough.
EmitBuffered(j) ==
  LET count == IF Remaining(j) <= free THEN Remaining(j) ELSE free
      done  == count = Remaining(j)
  IN /\ at[j] = "Emit" /\ owner \notin {NoJob, j}
     /\ lines' = lines \o Pieces(j, count)
     /\ free' = free - count
     /\ piece' = [piece EXCEPT ![j] = IF done THEN 1 ELSE @ + count]
     /\ at' = [at EXCEPT ![j] = IF done THEN back[j] ELSE "EmitWait"]
     /\ UNCHANGED <<owner, tty, back, said>>

-----------------------------------------------------------------------------
(* TerminalIoJobExit. *)

ExitSleep(j) ==
  /\ at[j] = "Exit" /\ owner \notin {NoJob, j}
  /\ at' = [at EXCEPT ![j] = "ExitWait"]
  /\ UNCHANGED <<owner, free, lines, tty, back, said, piece>>

\* Slip: an exiting job does not wait for the TTY.
ExitFlush_NoWait(j) ==
  /\ at[j] = "Exit"
  /\ FlushOutputQueue(j, [at EXCEPT ![j] = "ExitWake"])
  /\ owner' = NoJob
  /\ UNCHANGED <<back, said, piece>>

\* Slip: an exiting job forgets its buffers.
ExitFlush_NoFlush(j) ==
  /\ at[j] = "Exit" /\ owner \in {NoJob, j}
  /\ at' = [at EXCEPT ![j] = "ExitWake"]
  /\ owner' = NoJob
  /\ UNCHANGED <<tty, lines, free, back, said, piece>>

\* Flush what is buffered and give the TTY back ...
ExitFlush(j) ==
  /\ at[j] = "Exit" /\ owner \in {NoJob, j}
  /\ FlushOutputQueue(j, [at EXCEPT ![j] = "ExitWake"])
  /\ owner' = NoJob
  /\ UNCHANGED <<back, said, piece>>

\* Slip: nobody is told.
ExitBroadcast_Silent(j) ==
  /\ at[j] = "ExitWake"
  /\ at' = [at EXCEPT ![j] = "Done"]
  /\ UNCHANGED <<owner, free, lines, tty, back, said, piece>>

\* ... then, without the mutex, tell everybody who waits for it.
ExitBroadcast(j) ==
  /\ at[j] = "ExitWake"
  /\ at' = CondBroadcast([at EXCEPT ![j] = "Done"])
  /\ UNCHANGED <<owner, free, lines, tty, back, said, piece>>

SpuriousWakeup(j) ==
  /\ Asleep(j, at)
  /\ at' = [at EXCEPT ![j] = Awake(@)]
  /\ UNCHANGED <<owner, free, lines, tty, back, said, piece>>

-----------------------------------------------------------------------------

TerminalInit(start) ==
  /\ owner = NoJob /\ free = LineBufCount
  /\ lines = <<>> /\ tty = <<>>
  /\ at = start
  /\ back = at
  /\ said = [j \in Job |-> <<>>] /\ piece = [j \in Job |-> 1]

TerminalStep(j) ==
  \/ EmitOwner(j) \/ WriteDirectly(j) \/ EmitBuffered(j)
  \/ ExitSleep(j) \/ ExitFlush(j) \/ ExitBroadcast(j)

-----------------------------------------------------------------------------
(* Properties. *)

\* The output of a job is in one piece: no line of another job comes between
\* two of its lines, although the owner writes without the mutex.
OutputTogether ==
  \A i, k \in DOMAIN tty : i < k /\ tty[i].job = tty[k].job =>
    \A m \in i .. k : tty[m].job = tty[i].job

\* The lines of a job come out in the order in which it emitted them, buffered
\* or not.
OutputInOrder ==
  \A i, k \in DOMAIN tty : i < k /\ tty[i].job = tty[k].job =>
    \/ tty[i].message < tty[k].message
    \/ tty[i].message = tty[k].message /\ tty[i].piece < tty[k].piece

\* When a job has left TerminalIoJobExit all that it emitted is on the
\* terminal, once, the TTY is not its any more, and no line buffer has leaked.
NothingLost ==
  /\ free + Len(lines) = LineBufCount
  /\ \A j \in Job : at[j] \in {"ExitWake", "Done"} =>
       /\ \A i \in DOMAIN said[j] : \A k \in 1 .. said[j][i].pieces :
            Cardinality({m \in DOMAIN tty : tty[m] = Line(j, i, k)}) = 1
       /\ owner # j

=============================================================================
