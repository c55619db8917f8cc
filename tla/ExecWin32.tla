----------------------------- MODULE ExecWin32 -----------------------------
(***************************************************************************)
(* Running a command on Windows (src/src/ExecWin32.cpp): response files    *)
(* for long command lines, the environment block, the temporary file that  *)
(* collects a job's output, and the console.                               *)
(*                                                                         *)
(* A command is cut where the code looks for its @RESPONSE section:        *)
(* head, kind ("none", "optional" for @RESPONSE|, "always" for @RESPONSE!),*)
(* option and rest.  Texts are sequences of characters; "nl" is a newline. *)
(***************************************************************************)
EXTENDS Integers, SequencesExt

CONSTANTS MaxCommand,    \* 8000, the longest command without a response file
          CommandBuf,    \* 511, characters of command_buf
          OptionBuf,     \* 31, characters of option_buf
          NewCmd,        \* 8191, characters of new_cmd
          BlockMax,      \* 128 * 1024 - 2, of the environment block
          ReadBuf        \* 1023, of FreeFd's buffer

Upto(text, n) == SubSeq(text, 1, IF Len(text) < n THEN Len(text) ELSE n)

\* The loops that "drop any newlines in the command line".
NoNewlines(text) == [i \in DOMAIN text |-> IF text[i] = "nl" THEN "sp" ELSE text[i]]

CommandLen(cmd) ==
  Len(cmd.head) + Len(cmd.rest) + IF cmd.kind = "none" THEN 0 ELSE Len(cmd.option) + 11

NeedsFile(cmd) == cmd.kind = "always" \/ (cmd.kind = "optional" /\ CommandLen(cmd) > MaxCommand)

\* What ExecuteProcess gives to Win32Spawn; file is the name of the response file.
NewCommand(cmd, file) ==
  IF NeedsFile(cmd)
  THEN Upto(cmd.head \o <<"sp">> \o Upto(cmd.option, OptionBuf) \o <<file>>, NewCmd)
  ELSE NoNewlines(Upto((IF cmd.kind = "none" THEN cmd.head ELSE Upto(cmd.head, CommandBuf))
                         \o cmd.rest, NewCmd))

-----------------------------------------------------------------------------
(* MakeEnvBlock.  A variable is <<name, value>>; a name is a record of its *)
(* letters and their case, for names are compared without it.              *)

SameName(a, b) == a.letters = b.letters

\* Slip: a variable that is replaced stays available for the next name.
Mark_Nothing(used, x) == used

Mark(used, x) == used \cup {x}

\* AppendEnvVar, with room for "=" and the terminator.
AppendEnvVar(s, binding) ==
  IF s.size + Len(binding[2]) + 3 > BlockMax THEN [s EXCEPT !.ok = FALSE]
  ELSE [s EXCEPT !.size = @ + Len(binding[2]) + 3, !.block = Append(@, binding)]

\* The parent's variables, the ones that are set in their places, then the rest.
MakeEnvBlock(win32Env, vars) ==
  LET Place(s, binding) ==
        LET x == SelectInSeq([i \in DOMAIN vars |-> i],
                             LAMBDA i : i \notin s.used /\ SameName(vars[i][1], binding[1]))
        IN IF ~s.ok THEN s
           ELSE IF x = 0 THEN AppendEnvVar(s, binding)
           ELSE [AppendEnvVar(s, vars[x]) EXCEPT !.used = Mark(@, x)]
      placed == FoldLeft(Place, [block |-> <<>>, size |-> 0, used |-> {}, ok |-> TRUE], win32Env)
      Rest(s, x) == IF ~s.ok THEN s ELSE IF x \in s.used THEN s ELSE AppendEnvVar(s, vars[x])
  IN FoldLeft(Rest, placed, [x \in DOMAIN vars |-> x])

-----------------------------------------------------------------------------
(* Win32Spawn.  A state has the contents of the temporary files, one for   *)
(* each job, the console, and the response files that are on the disk.     *)

StateInit(jobs) == [temp |-> [j \in jobs |-> <<>>], console |-> <<>>, files |-> {}, sequence |-> 0]

\* FreeFd's "hack to get rid of Foo.cpp output": a short output that is the name of
\* a source file.
IsSourceName(text) ==
  /\ Len(text) > 1 /\ text[Len(text)] = ".cpp"
  /\ \A i \in 1 .. Len(text) - 1 : text[i] # "sp"

\* Slip: the file is not emptied for the next command.
FreeFd_Keep(s, job) ==
  LET text == s.temp[job]
      silent == Len(text) < ReadBuf /\ IsSourceName(text)
  IN [s EXCEPT !.console = IF silent THEN @ ELSE @ \o text]

\* FreeFd: the output goes to the console in one piece, the file is emptied.
FreeFd(s, job) ==
  LET text == s.temp[job]
      silent == Len(text) < ReadBuf /\ IsSourceName(text)
  IN [s EXCEPT !.console = IF silent THEN @ ELSE @ \o text, !.temp[job] = <<>>]

\* Win32Spawn.  How it goes: the environment does not fit, no job object, no
\* process, the command ends with a code, or the build is interrupted and the
\* command killed; output is what the command wrote before.
Win32Spawn(s, job, run) ==
  LET announced == [s EXCEPT !.console = @ \o run.annotation]
      Wrote(text) == [announced EXCEPT !.temp[job] = @ \o text]
  IN CASE run.end = "noenv" -> [state |-> announced, code |-> 1]
       [] run.end = "nojob" -> [state |-> Wrote(<<"error">>), code |-> 1]
       [] run.end = "nolaunch" -> [state |-> FreeFd(Wrote(<<"error">>), job), code |-> 1]
       [] run.end = "exit" -> [state |-> FreeFd(Wrote(run.output), job), code |-> run.code]
       [] run.end = "killed" -> [state |-> FreeFd(Wrote(run.output), job), code |-> 1]

\* ExecuteProcess: the response file is there while the command runs.
ExecuteProcess(s, job, cmd, run) ==
  LET file == [s EXCEPT !.sequence = @ + 1, !.files = @ \cup {s.sequence + 1}]
      spawned == Win32Spawn(file, job, run)
  IN IF ~NeedsFile(cmd) THEN Win32Spawn(s, job, run)
     ELSE IF Len(cmd.head) > CommandBuf THEN [state |-> file, code |-> 1]
     ELSE [spawned EXCEPT !.state.files = @ \ {s.sequence + 1}]

-----------------------------------------------------------------------------

\* The environment: what is set has its value, what is not is inherited, every name
\* is there once.
EnvironmentRight(win32Env, vars) ==
  LET s == MakeEnvBlock(win32Env, vars)
      Names(v) == {b[1].letters : b \in ToSet(v)}
      Value(v, name) == (CHOOSE b \in ToSet(v) : b[1].letters = name)[2]
  IN s.ok => /\ Len(s.block) = Cardinality(Names(win32Env) \cup Names(vars))
             /\ \A name \in Names(win32Env) \cup Names(vars) :
                  name \in Names(s.block) /\
                  Value(s.block, name) = Value(IF name \in Names(vars) THEN vars ELSE win32Env, name)

\* The command: with a response file or without, all of it reaches the command, or
\* it fails; that is, unless it is longer than the buffers on the way.
CommandRight(cmd) ==
  LET new == NewCommand(cmd, "file")
      whole == cmd.head \o cmd.rest
  IN (Len(cmd.head) <= CommandBuf /\ Len(whole) <= NewCmd /\ Len(cmd.option) <= OptionBuf) =>
       IF NeedsFile(cmd) THEN new = cmd.head \o <<"sp">> \o cmd.option \o <<"file">>
       ELSE Len(new) = Len(whole) /\ \A i \in DOMAIN whole :
              new[i] = IF whole[i] = "nl" THEN "sp" ELSE whole[i]

\* The console: each command's annotation and then its own output and no other's,
\* even where several commands use the same job's file, and no response file stays
\* behind.  Left out are commands for which no job object could be made: their
\* error stays in the file and comes out with the next command's output.
OutputRight(runs) ==
  LET plain == [head |-> <<"a">>, kind |-> "none", option |-> <<>>, rest |-> <<>>]
      file  == [plain EXCEPT !.kind = "always"]
      Step(s, r) == ExecuteProcess(s, r.job, IF r.file THEN file ELSE plain, r.run).state
      end == FoldLeft(Step, StateInit({r.job : r \in ToSet(runs)}), runs)
      Shown(run) == run.annotation \o
        CASE run.end = "noenv" -> <<>> [] run.end = "nolaunch" -> <<"error">>
          [] OTHER -> IF IsSourceName(run.output) THEN <<>> ELSE run.output
  IN /\ end.console = FlattenSeq([i \in DOMAIN runs |-> Shown(runs[i].run)])
     /\ end.files = {}

=============================================================================
