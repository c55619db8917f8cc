---------------------------- MODULE CommandLine ----------------------------
(***************************************************************************)
(* The options of the command line (Main.cpp).  An argument is             *)
(* [form, name, value, text]: -n and --name have the forms "short" and     *)
(* "long", everything else is a "word"; --name=value has a value of one    *)
(* element, and text is the argument as it stands.                         *)
(***************************************************************************)
EXTENDS Integers, SequencesExt

\* g_OptionTemplates: the name of an option and its type.
OptionType ==
  [name \in {"threads"} |-> "int"]
    @@ [name \in {"profile", "working-dir", "dagfile"} |-> "string"]
    @@ [name \in {"dry-run", "force-dag-regen", "dag-regen-only", "show-targets", "verbose",
                  "quiet", "clean", "rebuild", "spammy-verbose", "debug", "debug-signing",
                  "stats", "help", "continue", "unprotected", "ide-gen", "quickstart"} |-> "bool"]

\* Slip: the value of a short option stays on the command line.
AssignOptionValue_One(options, name, value, short) ==
  IF OptionType[name] = "bool" THEN [count |-> 1, options |-> (name :> <<>>) @@ options]
  ELSE IF value = <<>> THEN [count |-> 0, options |-> options]
  ELSE [count |-> 1, options |-> (name :> value) @@ options]

\* AssignOptionValue: the options, and how many arguments were used up.
AssignOptionValue(options, name, value, short) ==
  IF OptionType[name] = "bool" THEN [count |-> 1, options |-> (name :> <<>>) @@ options]
  ELSE IF value = <<>> THEN [count |-> 0, options |-> options]
  ELSE [count |-> IF short THEN 2 ELSE 1, options |-> (name :> value) @@ options]

\* InitOptions: the loop from an argument on.  What is left are the targets.
RECURSIVE InitOptions(_, _)
InitOptions(options, argv) ==
  IF argv = <<>> \/ Head(argv).form = "word"
  THEN [ok |-> TRUE, options |-> options, targets |-> argv]
  ELSE LET arg   == Head(argv)
           value == IF arg.form = "long" THEN arg.value
                    ELSE IF Len(argv) > 1 THEN <<argv[2].text>> ELSE <<>>
           done  == AssignOptionValue(options, arg.name, value, arg.form = "short")
       IN IF arg.name \notin DOMAIN OptionType \/ (arg.form = "short" /\ arg.value # <<>>)
          THEN [ok |-> FALSE]
          ELSE IF done.count = 0 THEN [ok |-> FALSE]
          ELSE InitOptions(done.options, SubSeq(argv, done.count + 1, Len(argv)))

-----------------------------------------------------------------------------

\* The arguments for a setting [form, name, value].
Arguments(setting) ==
  LET Arg(value) == [form |-> setting.form, name |-> setting.name, value |-> value, text |-> setting.name]
      Word == [form |-> "word", name |-> "", value |-> <<>>, text |-> setting.value]
  IN IF setting.value = "" THEN <<Arg(<<>>)>>
     ELSE IF setting.form = "long" THEN <<Arg(<<setting.value>>)>> ELSE <<Arg(<<>>), Word>>

\* A command line of settings and targets is read as it was meant: each option has
\* the value it was given last, no value is taken for a target and no target for a
\* value; an option that nobody knows, or that lacks its value, is refused.
CommandLineRight(settings, targets) ==
  LET argv == FlattenSeq([i \in DOMAIN settings |-> Arguments(settings[i])])
                \o [i \in DOMAIN targets |->
                      [form |-> "word", name |-> "", value |-> <<>>, text |-> targets[i]]]
      r == InitOptions(<<>>, argv)
      Meant(i) == /\ settings[i].name \in DOMAIN OptionType
                  /\ settings[i].value = "" <=> OptionType[settings[i].name] = "bool"
      Refused(i) == \/ settings[i].name \notin DOMAIN OptionType
                    \/ /\ OptionType[settings[i].name] # "bool" /\ settings[i].value = ""
                       /\ settings[i].form = "long" \/ (i = Len(settings) /\ targets = <<>>)
      LastOf(name) == SelectLastInSeq(settings, LAMBDA s : s.name = name)
  IN /\ (\E i \in DOMAIN settings : Refused(i) /\ \A k \in 1 .. i - 1 : Meant(k)) => ~r.ok
     /\ (\A i \in DOMAIN settings : Meant(i)) =>
          /\ r.ok /\ Len(r.targets) = Len(targets)
          /\ \A i \in DOMAIN targets : r.targets[i].text = targets[i]
          /\ DOMAIN r.options = {s.name : s \in Range(settings)}
          /\ \A name \in DOMAIN r.options :
               r.options[name] = IF OptionType[name] = "bool" THEN <<>>
                                 ELSE <<settings[LastOf(name)].value>>

=============================================================================
