--------------------------- MODULE IncludeScanner ---------------------------
(***************************************************************************)
(* The files that a text includes (IncludeScanner.cpp): one line at a      *)
(* time, for the C preprocessor and for scanners made of keywords.         *)
(*                                                                         *)
(* A text is a sequence of characters; the word after the # is one.  An    *)
(* include is [string, system, follow].                                    *)
(***************************************************************************)
EXTENDS Integers, SequencesExt

Include(string, system, follow) ==
  [string |-> string, system |-> system, follow |-> follow]

\* What is left of a line after its leading space.
SkipSpace(line) ==
  LET i == SelectInSeq(line, LAMBDA ch : ch # " ")
  IN IF i = 0 THEN <<>> ELSE SubSeq(line, i, Len(line))

\* The separator that closes, for one that opens.
Closing == ("<" :> ">") @@ ("\"" :> "\"")

\* A name up to its closing separator, if there is one.
UpTo(rest, closing, follow) ==
  LET i == SelectInSeq(rest, LAMBDA ch : ch = closing)
  IN IF i = 0 THEN <<>> ELSE <<Include(SubSeq(rest, 1, i - 1), closing = ">", follow)>>

\* Slip: space after the word is not asked for.
ScanCppLine_NoSpace(line) ==
  LET hash == SkipSpace(line)
      word == IF hash = <<>> THEN <<>> ELSE SkipSpace(Tail(hash))
      open == IF word = <<>> THEN <<>> ELSE SkipSpace(Tail(word))
  IN IF /\ hash # <<>> /\ hash[1] = "#"
        /\ word # <<>> /\ word[1] = "include"
        /\ open # <<>> /\ open[1] \in DOMAIN Closing
     THEN UpTo(Tail(open), Closing[open[1]], TRUE)
     ELSE <<>>

\* ScanCppLine: no include, or one.
ScanCppLine(line) ==
  LET hash == SkipSpace(line)
      word == IF hash = <<>> THEN <<>> ELSE SkipSpace(Tail(hash))
      open == IF word = <<>> THEN <<>> ELSE SkipSpace(Tail(word))
  IN IF /\ hash # <<>> /\ hash[1] = "#"
        /\ word # <<>> /\ word[1] = "include"
        /\ Len(word) > 1 /\ word[2] = " "
        /\ open # <<>> /\ open[1] \in DOMAIN Closing
     THEN UpTo(Tail(open), Closing[open[1]], TRUE)
     ELSE <<>>

\* Slip: what follows the last newline is not a line.
LinesOf_Ended(text) ==
  LET ends == SelectSeq([i \in DOMAIN text |-> i], LAMBDA i : text[i] = "\n")
  IN [k \in DOMAIN ends |-> SubSeq(text, IF k = 1 THEN 1 ELSE ends[k - 1] + 1, ends[k] - 1)]

\* GetNextLine, until there is none.
LinesOf(text) ==
  LET ends == Append(SelectSeq([i \in DOMAIN text |-> i], LAMBDA i : text[i] = "\n"),
                     Len(text) + 1)
  IN [k \in DOMAIN ends |-> SubSeq(text, IF k = 1 THEN 1 ELSE ends[k - 1] + 1, ends[k] - 1)]

ScanIncludesCpp(text) ==
  FoldLeft(LAMBDA found, line : found \o ScanCppLine(line), <<>>, LinesOf(text))

\* ScanLineGeneric, for a scanner with keywords [string, follow] and flags.
ScanLineGeneric(line, config) ==
  LET start == SkipSpace(line)
      k     == SelectInSeq(config.keywords, LAMBDA kw : IsPrefix(kw.string, start))
      follow == config.keywords[k].follow
      after == SubSeq(start, Len(config.keywords[k].string) + 1, Len(start))
      open  == SkipSpace(after)
      closing == Closing @@ (">" :> "<")
      end   == SelectInSeq(open, LAMBDA ch : ch = " ")
      token == IF end = 0 THEN open ELSE SubSeq(open, 1, end - 1)
  IN IF (config.space /\ start = line) \/ k = 0 THEN <<>>
     ELSE IF after = <<>> \/ after[1] # " " \/ open = <<>> THEN <<>>
     ELSE IF ~config.separators THEN <<Include(token, config.bareIsSystem, follow)>>
     ELSE IF open[1] \notin DOMAIN closing THEN <<>>
     ELSE UpTo(Tail(open), closing[open[1]], follow)

ScanIncludesGeneric(text, config) ==
  FoldLeft(LAMBDA found, line : found \o ScanLineGeneric(line, config), <<>>, LinesOf(text))

-----------------------------------------------------------------------------
(* The shape of a line that includes a file. *)

SpaceIn(line, from, to) == \A i \in from .. to : line[i] = " "

\* The includes of a line, after a word that ends at position w.
NamesAfter(line, w, pairs, follow) ==
  {Include(SubSeq(line, p[1] + 1, p[2] - 1), line[p[2]] = ">", follow) :
     p \in {p \in (w + 2 .. Len(line)) \X (w + 3 .. Len(line)) :
              /\ p[1] < p[2] /\ <<line[p[1]], line[p[2]]>> \in pairs
              /\ SpaceIn(line, w + 1, p[1] - 1)
              /\ \A i \in p[1] + 1 .. p[2] - 1 : line[i] # line[p[2]]}}

Pairs == {<<"<", ">">>, <<"\"", "\"">>}

\* Space, #, space, include, and a name.
CppIncludes(line) ==
  UNION {UNION {NamesAfter(line, w, Pairs, TRUE) :
                  w \in {w \in DOMAIN line : /\ w > h /\ line[w] = "include"
                                            /\ SpaceIn(line, h + 1, w - 1)}} :
           h \in {h \in DOMAIN line : line[h] = "#" /\ SpaceIn(line, 1, h - 1)}}

\* Space, a keyword that no earlier keyword is the start of, and a name or a word.
GenericIncludes(line, config) ==
  LET At(k, i) == IsPrefix(config.keywords[k].string, SubSeq(line, i, Len(line)))
      Words(w) == {Include(SubSeq(line, p[1], p[2]), config.bareIsSystem, TRUE) :
                     p \in {p \in (w + 2 .. Len(line)) \X (w + 2 .. Len(line)) :
                              /\ p[1] <= p[2] /\ SpaceIn(line, w + 1, p[1] - 1)
                              /\ \A i \in p[1] .. p[2] : line[i] # " "
                              /\ p[2] < Len(line) => line[p[2] + 1] = " "}}
      Found(k, i) ==
        LET w == i + Len(config.keywords[k].string) - 1
        IN {[inc EXCEPT !.follow = config.keywords[k].follow] : inc \in
              IF config.separators THEN NamesAfter(line, w, Pairs \cup {<<">", "<">>}, TRUE)
              ELSE Words(w)}
  IN UNION {Found(ki[1], ki[2]) : ki \in
             {ki \in (DOMAIN config.keywords) \X ((IF config.space THEN 2 ELSE 1) .. Len(line)) :
                /\ SpaceIn(line, 1, ki[2] - 1) /\ line[ki[2]] # " " /\ At(ki[1], ki[2])
                /\ \A k \in 1 .. ki[1] - 1 : ~At(k, ki[2])}}

\* Both scanners find the includes of a text's lines, each line's own, in order:
\* nothing is read across the end of a line, and a last line that no newline ends
\* is read like the others.
ScannersRight(lines, ended, config) ==
  LET text  == FlattenSeq([i \in DOMAIN lines |->
                 IF i < Len(lines) \/ ended THEN Append(lines[i], "\n") ELSE lines[i]])
      InOrder(found, Of(_)) ==
        LET with == SelectSeq(lines, LAMBDA line : Of(line) # {})
        IN Len(found) = Len(with) /\ \A i \in DOMAIN with : Of(with[i]) = {found[i]}
  IN /\ InOrder(ScanIncludesCpp(text), CppIncludes)
     /\ InOrder(ScanIncludesGeneric(text, config), LAMBDA line : GenericIncludes(line, config))

=============================================================================
