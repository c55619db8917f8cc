---------------------------- MODULE Interpolate ----------------------------
(***************************************************************************)
(* $(NAME:options) in the strings of build scripts (LuaInterpolate.cpp).   *)
(*                                                                         *)
(* A text is a sequence of characters.  An environment is a sequence of    *)
(* tables from names to lists of texts, the innermost first; vars has the  *)
(* table of variables of this call, or nothing.                            *)
(***************************************************************************)
EXTENDS Integers, SequencesExt

CONSTANTS InternalSize,  \* kInternalBufferSize
          MaxOptions     \* kMaxOptions

ASSUME InterpolateAssumption == InternalSize \in Nat /\ MaxOptions \in Nat

Separators == {"/", "\\"}

-----------------------------------------------------------------------------
(* StringBuffer: characters are in the internal buffer until they do not   *)
(* fit there; the buffer on the heap counts when it has any.               *)

EmptyBuffer == [internal |-> <<>>, heap |-> <<>>]

\* GetBuffer and GetSize.
Content(b) == IF b.heap # <<>> THEN b.heap ELSE b.internal

\* Slip: what was in the internal buffer stays there.
Add_Leave(b, data) ==
  CASE b.heap # <<>> -> [b EXCEPT !.heap = @ \o data]
    [] b.heap = <<>> /\ Len(data) + Len(b.internal) <= InternalSize ->
         [b EXCEPT !.internal = @ \o data]
    [] OTHER -> [b EXCEPT !.heap = data]

\* Add and Grow.
Add(b, data) ==
  CASE b.heap # <<>> -> [b EXCEPT !.heap = @ \o data]
    [] b.heap = <<>> /\ Len(data) + Len(b.internal) <= InternalSize ->
         [b EXCEPT !.internal = @ \o data]
    [] OTHER -> [b EXCEPT !.heap = b.internal \o data]

\* Writes into GetBuffer(), and Shrink if there are fewer characters now.
Rewrite(b, data) ==
  IF b.heap # <<>> THEN [b EXCEPT !.heap = data] ELSE [b EXCEPT !.internal = data]

Prepend(b, data) == Rewrite(Add(b, data), data \o Content(b))

PrependUnless(b, data) == IF IsPrefix(data, Content(b)) THEN b ELSE Prepend(b, data)

AppendUnless(b, data) == IF IsSuffix(data, Content(b)) THEN b ELSE Add(b, data)

\* ToForwardSlashes, ToBackSlashes, ToUppercase and ToLowercase.
Convert(b, from, to) ==
  Rewrite(b, [i \in DOMAIN Content(b) |-> IF Content(b)[i] = from THEN to ELSE Content(b)[i]])

\* The last position with one of some characters, or zero.
LastOf(text, chars) == SelectLastInSeq(text, LAMBDA ch : ch \in chars)

DropSuffix(b) ==
  LET i == LastOf(Content(b), {"."})
  IN IF i = 0 THEN b ELSE Rewrite(b, SubSeq(Content(b), 1, i - 1))

GetFilename(b) ==
  LET i == LastOf(Content(b), Separators)
  IN IF i = 0 THEN b ELSE Rewrite(b, SubSeq(Content(b), i + 1, Len(Content(b))))

GetFilenameDir(b) ==
  LET i == LastOf(Content(b), Separators)
  IN IF i = 0 THEN b ELSE Rewrite(b, SubSeq(Content(b), 1, i - 1))

\* Drops one backslash at the end, doubles the others.
PrepQuoteCommon(b) ==
  LET cut  == IF IsSuffix(<<"\\">>, Content(b)) THEN Rewrite(b, Front(Content(b))) ELSE b
      text == FoldLeft(LAMBDA t, ch : t \o IF ch = "\\" THEN <<ch, ch>> ELSE <<ch>>,
                       <<>>, Content(cut))
      more == SubSeq(text, Len(Content(cut)) + 1, Len(text))
  IN IF more = <<>> THEN cut ELSE Rewrite(Add(cut, more), text)

\* Quote: nothing to do for what has quotes, except for a backslash at its end.
Quote(b) ==
  LET text == Content(b)
      n    == Len(text)
  IN IF n > 0 /\ text[1] = "\"" /\ text[n] = "\""
     THEN IF n > 1 /\ text[n - 1] = "\\" THEN Rewrite(b, SubSeq(text, 1, n - 2) \o <<"\"">>) ELSE b
     ELSE Add(Prepend(PrepQuoteCommon(b), <<"\"">>), <<"\"">>)

EscapeForCmdlineDefine(b) ==
  Add(Prepend(PrepQuoteCommon(b), <<"\\", "\"">>), <<"\\", "\"">>)

Options == {"p", "a", "P", "A", "f", "b", "n", "u", "l", "B", "F", "D", "q", "#", "[", "j"}

\* What an option does to an item.
Apply(b, option, data) ==
  CASE option = "p" -> Prepend(b, data)
    [] option = "a" -> Add(b, data)
    [] option = "P" -> PrependUnless(b, data)
    [] option = "A" -> AppendUnless(b, data)
    [] option \in {"f", "n"} -> Convert(b, "\\", "/")
    [] option = "b" -> Convert(b, "/", "\\")
    [] option = "u" -> Convert(b, "a", "A")
    [] option = "l" -> Convert(b, "A", "a")
    [] option = "B" -> DropSuffix(b)
    [] option = "F" -> GetFilename(b)
    [] option = "D" -> GetFilenameDir(b)
    [] option = "q" -> Quote(b)
    [] option = "#" -> EscapeForCmdlineDefine(b)
    [] option \in {"[", "j"} -> b

-----------------------------------------------------------------------------
(* The interpolation.  A result is a text, or a failure. *)

Failure == [ok |-> FALSE]
Result(text) == [ok |-> TRUE, text |-> text]

\* LuaEnvLookupScope: the first table that has the name; the tables of the call
\* come first.
Lookup(name, vars, envs) ==
  LET tables == vars \o envs
      i == SelectInSeq(tables, LAMBDA t : name \in DOMAIN t)
  IN IF i = 0 THEN [valid |-> FALSE] ELSE [valid |-> TRUE, items |-> tables[i][name]]

\* Slip: the first parenthesis ends the variable.
FindEndParen_First(str) == SelectInSeq(str, LAMBDA ch : ch = ")")

\* FindEndParen: where the nesting is back to zero, or zero.
FindEndParen(str) ==
  LET Nesting[i \in 0 .. Len(str)] ==
        IF i = 0 THEN 1
        ELSE Nesting[i - 1] + (CASE str[i] = "(" -> 1 [] str[i] = ")" -> -1 [] OTHER -> 0)
  IN SelectInSeq([i \in DOMAIN str |-> Nesting[i]], LAMBDA n : n = 0)

\* UnescapeOption.
UnescapeOption(text) ==
  LET kept == {i \in DOMAIN text : ~(text[i] = "\\" /\ i < Len(text) /\ text[i + 1] = ":")}
  IN SelectSeq([i \in DOMAIN text |-> IF i \in kept THEN text[i] ELSE ""], LAMBDA ch : ch # "")

\* Slip: a backslash before a colon says nothing.
SplitOptions_Escaped(data) ==
  LET colons == SelectSeq([i \in DOMAIN data |-> i], LAMBDA i : data[i] = ":")
      End(k) == IF k < Len(colons) THEN colons[k + 1] - 1 ELSE Len(data)
  IN [name |-> SubSeq(data, 1, IF colons = <<>> THEN Len(data) ELSE colons[1] - 1),
      options |-> [k \in DOMAIN colons |-> UnescapeOption(SubSeq(data, colons[k] + 1, End(k)))]]

\* The name and the options: they start at colons without a backslash.
SplitOptions(data) ==
  LET colons == SelectSeq([i \in DOMAIN data |-> i],
                          LAMBDA i : data[i] = ":" /\ (i > 1 => data[i - 1] # "\\"))
      End(k) == IF k < Len(colons) THEN colons[k + 1] - 1 ELSE Len(data)
  IN [name |-> SubSeq(data, 1, IF colons = <<>> THEN Len(data) ELSE colons[1] - 1),
      options |-> [k \in DOMAIN colons |-> UnescapeOption(SubSeq(data, colons[k] + 1, End(k)))]]

\* atoi, for an index of one digit.
Atoi(text) == IF text = <<>> THEN 0
              ELSE CASE text[1] = "1" -> 1 [] text[1] = "2" -> 2 [] text[1] = "3" -> 3 [] OTHER -> 0

\* The last option that starts with a character decides.
LastOption(options, ch) == SelectLastInSeq(options, LAMBDA o : o # <<>> /\ o[1] = ch)

RECURSIVE DoInterpolate(_, _, _, _)

\* InterpolateVar: str is what is between the parentheses.
InterpolateVar(output, str, vars, envs) ==
  LET var     == DoInterpolate(EmptyBuffer, str, vars, envs)
      split   == SplitOptions(Content(var.text))
      options == split.options
      scope   == Lookup(split.name, vars, envs)
      j       == LastOption(options, "j")
      join    == IF j = 0 THEN <<" ">> ELSE Tail(options[j])
      Index(k) == Atoi(Tail(options[k]))
      chosen  == {k \in DOMAIN options : options[k] # <<>> /\ options[k][1] = "["}
      items   == IF chosen = {} THEN scope.items
                 ELSE LET k == LastOption(options, "[") IN <<scope.items[Index(k)]>>
      Item(text) ==
        FoldLeft(LAMBDA b, o : Apply(b, o[1], Tail(o)),
                 DoInterpolate(EmptyBuffer, text, vars, envs).text, options)
  IN IF ~var.ok \/ Len(options) > MaxOptions THEN Failure
     ELSE IF ~scope.valid \/ \E k \in chosen : Index(k) \notin DOMAIN scope.items THEN Failure
     ELSE IF \E i \in DOMAIN items :
               ~DoInterpolate(EmptyBuffer, items[i], vars, envs).ok THEN Failure
     ELSE IF items # <<>> /\ \E k \in DOMAIN options :
               options[k] = <<>> \/ options[k][1] \notin Options THEN Failure
     ELSE Result(FoldLeft(LAMBDA b, i : Add(IF i = 1 THEN b ELSE Add(b, join),
                                            Content(Item(items[i]))),
                          output, [i \in DOMAIN items |-> i]))

\* Slip: $(<) and $(@) are always looked up.
Deferred_Never(str, i, vars) == FALSE

\* $(<) and $(@) stay as they are in a call without variables.
Deferred(str, i, vars) == vars = <<>> /\ i + 2 <= Len(str) /\ str[i + 2] \in {"<", "@"}

DoInterpolate(output, str, vars, envs) ==
  IF str = <<>> THEN Result(output)
  ELSE IF Len(str) > 1 /\ str[1] = "$" /\ str[2] = "(" /\ ~Deferred(str, 1, vars)
       THEN LET rest == SubSeq(str, 3, Len(str))
                end  == FindEndParen(rest)
                done == InterpolateVar(output, SubSeq(rest, 1, end - 1), vars, envs)
            IN IF end = 0 THEN Failure
               ELSE IF ~done.ok THEN Failure
               ELSE DoInterpolate(done.text, SubSeq(rest, end + 1, Len(rest)), vars, envs)
       ELSE DoInterpolate(Add(output, <<str[1]>>), Tail(str), vars, envs)

\* LuaInterpolate.
LuaInterpolate(input, vars, envs) ==
  LET r == DoInterpolate(EmptyBuffer, input, vars, envs)
  IN IF r.ok THEN Result(Content(r.text)) ELSE Failure

-----------------------------------------------------------------------------
(* What the options promise, on plain texts; and templates that are trees: *)
(* a part is a character, or a variable with a name and options, whose     *)
(* parts are templates again.                                              *)

\* The part of a text after the last of some characters, if there is one.
AfterLast(text, chars) ==
  CHOOSE u \in {SubSeq(text, i, Len(text)) : i \in 1 .. Len(text) + 1} :
    /\ \A i \in DOMAIN u : u[i] \notin chars
    /\ u = text \/ text[Len(text) - Len(u)] \in chars

BeforeLast(text, chars) ==
  LET u == AfterLast(text, chars)
  IN IF u = text THEN text ELSE SubSeq(text, 1, Len(text) - Len(u) - 1)

\* What a tool reads for an argument with backslashes and quotes.
ReadBack(text) ==
  LET Read[i \in 1 .. Len(text) + 2] ==
        IF i > Len(text) THEN <<>>
        ELSE IF text[i] = "\\" /\ i < Len(text) THEN <<text[i + 1]>> \o Read[i + 2]
        ELSE IF text[i] = "\"" THEN Read[i + 1] ELSE <<text[i]>> \o Read[i + 1]
  IN Read[1]

\* A text without the backslash at its end.
Closed(text) == IF IsSuffix(<<"\\">>, text) THEN Front(text) ELSE text

\* Does text u result from an option on text t?
Means(option, data, t, u) ==
  CASE option = "p" -> u = data \o t
    [] option = "a" -> u = t \o data
    [] option = "P" -> IsPrefix(data, u) /\ (u = t \/ (u = data \o t /\ ~IsPrefix(data, t)))
    [] option = "A" -> IsSuffix(data, u) /\ (u = t \/ (u = t \o data /\ ~IsSuffix(data, t)))
    [] option = "B" -> u = BeforeLast(t, {"."})
    [] option = "F" -> u = AfterLast(t, Separators)
    [] option = "D" -> u = BeforeLast(t, Separators)
    [] option = "q" -> Head(u) = "\"" /\ Last(u) = "\"" /\ ReadBack(u) = Closed(t)
    [] option = "#" -> ReadBack(u) = <<"\"">> \o Closed(t) \o <<"\"">>
    [] option = "b" -> Len(u) = Len(t) /\ \A i \in DOMAIN t :
                         u[i] = IF t[i] \in Separators THEN "\\" ELSE t[i]
    [] option = "f" -> Len(u) = Len(t) /\ \A i \in DOMAIN t :
                         u[i] = IF t[i] \in Separators THEN "/" ELSE t[i]

\* A text put into a buffer one character at a time.
Filled(text) == FoldLeft(LAMBDA b, ch : Add(b, <<ch>>), EmptyBuffer, text)

\* An option on a text gives what the manual says of it, wherever its characters
\* are kept.
OptionRight(option, data, text) ==
  Means(option, data, text, Content(Apply(Filled(text), option, data)))

\* A text that an option leaves nothing of, when it is too long for the internal
\* buffer.
Vanishes(option, text) ==
  /\ Len(text) > InternalSize
  /\ Content(Apply([internal |-> text, heap |-> <<>>], option, <<>>)) = <<>>

\* The text of a template.
RECURSIVE TextOf(_)
TextOf(parts) ==
  FoldLeft(LAMBDA t, part :
             t \o IF DOMAIN part = {"ch"} THEN <<part.ch>>
                  ELSE <<"$", "(">> \o TextOf(part.name)
                         \o FlattenSeq([k \in DOMAIN part.options |->
                              <<":", part.options[k][1]>> \o TextOf(part.options[k][2])])
                         \o <<")">>, <<>>, parts)

\* What a template stands for: a variable's values are templates of the table.
RECURSIVE ValueOf(_, _)
ValueOf(parts, table) ==
  LET Joined(part) == LET k == LastOption(part.options, "j")
                      IN IF k = 0 THEN <<" ">>
                         ELSE UnescapeOption(ValueOf(part.options[k][2], table))
      Item(part, value) ==
        FoldLeft(LAMBDA t, o : Content(Apply([internal |-> t, heap |-> <<>>], o[1],
                                             UnescapeOption(ValueOf(o[2], table)))),
                 ValueOf(value, table), part.options)
      Values(part) == LET items == table[ValueOf(part.name, table)]
                      IN [i \in DOMAIN items |-> Item(part, items[i])]
  IN FoldLeft(LAMBDA t, part :
                t \o IF DOMAIN part = {"ch"} THEN <<part.ch>>
                     ELSE LET values == Values(part)
                          IN FlattenSeq([i \in DOMAIN values |->
                               (IF i = 1 THEN <<>> ELSE Joined(part)) \o values[i]]),
              <<>>, parts)

\* A table of templates as a table of texts.
TextsOf(table) ==
  [name \in DOMAIN table |-> [i \in DOMAIN table[name] |-> TextOf(table[name][i])]]

\* A string is interpolated to what its template stands for (nested variables,
\* joined values, escaped colons and parentheses among them), where the tables of
\* the call hide the environment's, and an inner environment an outer one's.
TemplateRight(parts, vars, envs) ==
  LET tables == vars \o envs
      merged == FoldRight(LAMBDA inner, outer : inner @@ outer, tables, <<>>)
      Texts(ts) == [i \in DOMAIN ts |-> TextsOf(ts[i])]
  IN LuaInterpolate(TextOf(parts), Texts(vars), Texts(envs)) = Result(ValueOf(parts, merged))

=============================================================================
