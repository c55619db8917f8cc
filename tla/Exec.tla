-------------------------------- MODULE Exec --------------------------------
(***************************************************************************)
(* src/src/ExecUnix.cpp: ExecuteProcess runs a command as a child process, *)
(* reads its stdout and stderr through two pipes and hands what it reads   *)
(* to TerminalIo.  Every job is a build thread inside ExecuteProcess, so   *)
(* the calls into TerminalIo are steps of the same thread.                 *)
(*                                                                         *)
(* What one read() returns is a chunk.  A chunk has at most 8191 bytes and *)
(* fits a line buffer.  The sort key of a chunk is the number of chunks    *)
(* before it: the code counts reads that returned nothing as well, which   *)
(* leaves the order of the keys as it is.                                  *)
(***************************************************************************)
EXTENDS TerminalIo

CONSTANTS
  Plan,        \* Plan[j]: the streams the child of job j writes a chunk to
  Statuses,    \* Statuses[j]: how it may end: exit codes, or Signalled
  Annotated,   \* the jobs whose node has an annotation to print
  Echo,        \* kFlagEchoCommandLines
  PipeSize,    \* chunks a pipe holds
  Faulty,      \* the jobs whose calls or children behave in unusual ways
  Late         \* the jobs whose silent command has ended when the model starts

Stream == {"out", "err"}
\* Exit codes are 0 .. 255; other states of a child get other numbers.
Signalled == 256
Running == 257
NotStarted == 258
INT_MAX == 2^(KeyWidth - 1) - 1

ASSUME ExecAssumption ==
  /\ \A j \in Job : Plan[j] \in Seq(Stream)
  /\ Annotated \subseteq Job /\ Faulty \subseteq Job
  /\ Late \subseteq Job \ Annotated /\ \A j \in Late : Plan[j] = <<>> /\ ~Echo
  /\ Echo \in BOOLEAN /\ PipeSize \in Nat \ {0}

VARIABLES
  child,     \* the status of the child process of a job
  wrote,     \* chunks it has written
  pipe,      \* pipe[j][s]: chunks in the pipe, by their place in Plan[j]
  holders,   \* the jobs whose child has the write ends of the pipes of j
  open,      \* rfds: the streams that are still read
  ready,     \* read_fds after select(), minus the ones already looked at
  again,     \* errno is EAGAIN; it is never cleared
  got,       \* got[j][s]: the chunks read
  result     \* ExecResult; -1 before the return

childVars == <<child, wrote, pipe>>
readVars  == <<open, ready, again, got>>
execVars  == <<terminalVars, childVars, holders, readVars, result>>

-----------------------------------------------------------------------------
(* Helpers. *)

Goto(j, place) ==
  /\ at' = [at EXCEPT ![j] = place]
  /\ UNCHANGED <<owner, free, lines, tty, back, said, piece>>

\* A child another thread forks while the write ends of j are open gets them
\* too; the parent closes its own in ExecuteProcess.
WriteEndOpen(j) ==
  \/ at[j] \in {"Fork", "Start"}
  \/ \E k \in holders[j] : child[k] = Running

HasData(j, s) == pipe[j][s] # <<>>
AtEnd(j, s)   == pipe[j][s] = <<>> /\ ~WriteEndOpen(j)
Chunks(j)     == Cardinality({i \in DOMAIN said[j] : said[j][i].key \notin {-2, -1, INT_MAX}})

-----------------------------------------------------------------------------
(* Starting the command. *)

\* Both pipes; if the second fails the first is closed again.
OpenPipes(j) ==
  /\ at[j] = "Pipe"
  /\ \/ Goto(j, "Fork") /\ UNCHANGED result
     \/ /\ j \in Faulty
        /\ Goto(j, "Done") /\ result' = [result EXCEPT ![j] = 1]
  /\ UNCHANGED <<childVars, holders, readVars>>

\* The child has every write end that is open in the process now.
Fork(j) ==
  /\ at[j] = "Fork"
  /\ \/ /\ Goto(j, "Start")
        /\ child' = [child EXCEPT ![j] = Running]
        /\ holders' = [k \in Job |-> IF at[k] \in {"Fork", "Start"} THEN holders[k] \cup {j} ELSE holders[k]]
        /\ UNCHANGED result
     \/ /\ j \in Faulty
        /\ Goto(j, "Done") /\ result' = [result EXCEPT ![j] = 1]
        /\ UNCHANGED <<child, holders>>
  /\ UNCHANGED <<wrote, pipe, readVars>>

\* The write ends are closed and the annotation is printed.
Annotate(j) ==
  /\ at[j] = "Start"
  /\ IF j \in Annotated THEN CallEmit(j, -2, 1, "Echo") ELSE Goto(j, "Echo")
  /\ UNCHANGED <<childVars, holders, readVars, result>>

EchoCommand(j) ==
  /\ at[j] = "Echo"
  /\ IF Echo THEN CallEmit(j, -1, 1, "Select") ELSE Goto(j, "Select")
  /\ UNCHANGED <<childVars, holders, readVars, result>>

-----------------------------------------------------------------------------
(* The select loop. *)

\* select() reports what can be read or is at its end, and may by mistake report
\* a pipe that turns out to be empty.  With nothing to report it times
\* out; while the child runs that leads back here.
Select(j) ==
  /\ at[j] = "Select"
  /\ \E r \in SUBSET open[j] :
       /\ LET there == {s \in open[j] : HasData(j, s) \/ AtEnd(j, s)}
          IN IF j \in Faulty THEN there \subseteq r ELSE r = there
       /\ r = {} => child[j] # Running \/ open[j] = {}
       /\ ready' = [ready EXCEPT ![j] = r]
  /\ Goto(j, "Read")
  /\ UNCHANGED <<childVars, holders, open, again, got, result>>

\* select() fails with EINTR: the loop starts again.
SelectInterrupted(j) ==
  /\ at[j] = "Select" /\ open[j] # {} /\ j \in Faulty
  /\ again' = [again EXCEPT ![j] = FALSE]
  /\ UNCHANGED <<terminalVars, childVars, holders, open, ready, got, result>>

\* The next descriptor of the loop over read_fds: stdout first.
NextReady(j) == IF "out" \in ready[j] THEN "out" ELSE "err"

\* Slip: an empty read always ends the stream.
EmptyRead_Closes(j, s) ==
  /\ open' = [open EXCEPT ![j] = @ \ {s}]
  /\ UNCHANGED again

\* EmitData with count <= 0: the stream is done unless errno says EAGAIN, be it
\* from this read or from an earlier one.
EmptyRead(j, s) ==
  /\ again' = [again EXCEPT ![j] = @ \/ ~AtEnd(j, s)]
  /\ open' = [open EXCEPT ![j] = IF again'[j] THEN @ ELSE @ \ {s}]

EmitData(j) ==
  LET s == NextReady(j)
  IN /\ at[j] = "Read" /\ ready[j] # {}
     /\ ready' = [ready EXCEPT ![j] = @ \ {s}]
     /\ IF HasData(j, s)
        THEN /\ CallEmit(j, Chunks(j), 1, "Read")
             /\ pipe' = [pipe EXCEPT ![j][s] = Tail(@)]
             /\ got' = [got EXCEPT ![j][s] = Append(@, Head(pipe[j][s]))]
             /\ UNCHANGED <<open, again>>
        ELSE /\ EmptyRead(j, s)
             /\ UNCHANGED <<terminalVars, pipe, got>>
     /\ UNCHANGED <<child, wrote, holders, result>>

\* waitpid() does not block while a pipe is open.
StillRunning(j) ==
  /\ at[j] = "Read" /\ ready[j] = {}
  /\ child[j] = Running /\ open[j] # {}
  /\ Goto(j, "Select")
  /\ UNCHANGED <<childVars, holders, readVars, result>>

\* The end of ExecuteProcess for a given status: the pipes are closed with what
\* is in them.
Report(j, status) ==
  LET failed == status = Signalled \/ (status # 0 /\ ~Echo)
  IN /\ pipe' = [pipe EXCEPT ![j] = [s \in Stream |-> <<>>]]
     /\ result' = [result EXCEPT ![j] = IF status = Signalled THEN 1 ELSE status]
     /\ IF failed THEN CallEmit(j, INT_MAX, 1, "Exit") ELSE Goto(j, "Exit")

\* Slip: once the pipes are closed the child counts as done.
Reap_NoWait(j) ==
  /\ at[j] = "Read" /\ ready[j] = {}
  /\ child[j] # Running \/ open[j] = {}
  /\ Report(j, IF child[j] = Running THEN 0 ELSE child[j])
  /\ UNCHANGED <<child, wrote, holders, readVars>>

\* The child has ended: whatever is still in the pipes is dropped.
Reap(j) ==
  /\ at[j] = "Read" /\ ready[j] = {}
  /\ child[j] # Running
  /\ Report(j, child[j])
  /\ UNCHANGED <<child, wrote, holders, readVars>>

\* waitpid() fails: status 1 is read as the signal 1.
WaitpidFails(j) ==
  /\ at[j] = "Read" /\ ready[j] = {} /\ j \in Faulty
  /\ Report(j, Signalled)
  /\ UNCHANGED <<child, wrote, holders, readVars>>

-----------------------------------------------------------------------------
(* The child process. *)

\* The next chunk; the child sleeps while the pipe is full.
ChildWrite(j) ==
  /\ child[j] = Running /\ wrote[j] < Len(Plan[j])
  /\ LET s == Plan[j][wrote[j] + 1]
     IN /\ Len(pipe[j][s]) < PipeSize
        /\ pipe' = [pipe EXCEPT ![j][s] = Append(@, wrote[j] + 1)]
  /\ wrote' = [wrote EXCEPT ![j] = @ + 1]
  /\ UNCHANGED <<terminalVars, child, holders, readVars, result>>

\* It may close its output and run on.
ChildClose(j) ==
  /\ child[j] = Running /\ wrote[j] = Len(Plan[j]) /\ j \in holders[j] /\ j \in Faulty
  /\ holders' = [holders EXCEPT ![j] = @ \ {j}]
  /\ UNCHANGED <<terminalVars, childVars, readVars, result>>

\* It exits when it is done; a signal ends it anywhere.
ChildEnd(j) ==
  /\ child[j] = Running
  /\ \E status \in Statuses[j] :
       /\ wrote[j] = Len(Plan[j]) \/ status = Signalled
       /\ child' = [child EXCEPT ![j] = status]
  /\ UNCHANGED <<terminalVars, wrote, pipe, holders, readVars, result>>

-----------------------------------------------------------------------------

ExecInit ==
  /\ TerminalInit([j \in Job |-> IF j \in Late THEN "Read" ELSE "Pipe"])
  /\ child \in [Job -> {NotStarted} \cup UNION {Statuses[j] : j \in Late}]
  /\ \A j \in Job : IF j \in Late THEN child[j] \in Statuses[j] ELSE child[j] = NotStarted
  /\ wrote = [j \in Job |-> 0]
  /\ pipe = [j \in Job |-> [s \in Stream |-> <<>>]]
  /\ holders = [j \in Job |-> {}]
  /\ open = [j \in Job |-> Stream] /\ ready = [j \in Job |-> {}]
  /\ again = [j \in Job |-> FALSE]
  /\ got = [j \in Job |-> [s \in Stream |-> <<>>]]
  /\ result = [j \in Job |-> -1]

ThreadStep(j) ==
  \/ OpenPipes(j) \/ Fork(j) \/ Annotate(j) \/ EchoCommand(j)
  \/ Select(j) \/ EmitData(j) \/ StillRunning(j) \/ Reap(j)
  \/ TerminalStep(j) /\ UNCHANGED <<childVars, holders, readVars, result>>

ChildStep(j) == ChildWrite(j) \/ ChildEnd(j)

AllReturned == (\A j \in Job : at[j] = "Done") /\ UNCHANGED execVars

ExecNext ==
  \/ \E j \in Job :
       \/ ThreadStep(j) \/ ChildStep(j)
       \/ SelectInterrupted(j) \/ WaitpidFails(j) \/ ChildClose(j)
       \/ SpuriousWakeup(j) /\ UNCHANGED <<childVars, holders, readVars, result>>
  \/ AllReturned

ExecSpec == ExecInit /\ [][ExecNext]_execVars

\* Threads and children are scheduled and commands end; spurious wakeups may go
\* on for ever.
ExecFairSpec ==
  /\ ExecSpec
  /\ \A j \in Job : WF_execVars(ThreadStep(j)) /\ WF_execVars(ChildStep(j))

-----------------------------------------------------------------------------
(* Properties. *)

\* What a child writes to a stream is read in order and without gaps; all of
\* it has been read if ExecuteProcess saw the end of the pipe, and success is
\* reported only for a child that has ended with success.
ReadsWhatWasWritten ==
  \A j \in Job :
    /\ \A s \in Stream :
         LET written == SelectSeq([i \in 1 .. wrote[j] |-> i], LAMBDA i : Plan[j][i] = s)
         IN /\ IsPrefix(got[j][s], written)
            /\ s \notin open[j] => got[j][s] = written
    /\ result[j] = 0 => child[j] = 0

\* ExecuteProcess returns for every job once its command has ended: neither a
\* full pipe, nor a pipe another command holds open, nor the wait for the TTY
\* stops it.
EveryJobReturns == <>(\A j \in Job : at[j] = "Done")

=============================================================================
