------------------------------ MODULE JsonText ------------------------------
(***************************************************************************)
(* How the graph gets from the build scripts to the DAG generator: the     *)
(* writer of src/src/LuaJsonWriter.cpp and the parser of JsonParse.cpp.    *)
(*                                                                         *)
(* A text is a sequence of lexemes; a string's lexeme has the characters   *)
(* between its quotes, escapes included.  A document is a record with one  *)
(* field, named for its type.                                              *)
(***************************************************************************)
EXTENDS Integers, SequencesExt

Lex(type) == [type |-> type, body |-> <<>>]
StringLex(body) == [type |-> "string", body |-> body]

Number    == [number |-> 1]
Str(s)    == [string |-> s]
Array(v)  == [array |-> v]
Object(v) == [object |-> v]    \* pairs of a name and a document

-----------------------------------------------------------------------------
(* LuaJsonWriter. *)

\* s_EscapeTable.
Escape ==
  [ch \in {"newline", "return", "tab", "vtab", "formfeed", "backslash", "quote"} |->
     CASE ch = "newline" -> "n" [] ch = "return" -> "r" [] ch = "tab" -> "t"
       [] ch = "vtab" -> "v" [] ch = "formfeed" -> "f" [] OTHER -> ch]

\* WriteEscapedString.
Escaped(s) ==
  FoldLeft(LAMBDA body, ch : body \o IF ch \in DOMAIN Escape THEN <<"backslash", Escape[ch]>>
                                     ELSE <<ch>>, <<>>, s)

\* A writer: m_FirstElem, the buffer, and what is in the file.
WriterNew == [first |-> TRUE, buffer |-> <<>>, file |-> <<>>]

Flush(w) == [w EXCEPT !.file = @ \o w.buffer, !.buffer = <<>>]

\* Slip: a full buffer is emptied, but not written.
Append1_Lossy(size, w, lexeme) ==
  IF Len(w.buffer) = size THEN [w EXCEPT !.buffer = <<lexeme>>]
  ELSE [w EXCEPT !.buffer = Append(@, lexeme)]

\* BufferedWriterAppend: a full buffer is flushed first.
Append1(size, w, lexeme) ==
  LET room == IF Len(w.buffer) = size THEN Flush(w) ELSE w
  IN [room EXCEPT !.buffer = Append(@, lexeme)]

\* WriteCommon: a comma unless this is the first element, and the name, if any.
WriteCommon(size, w, name) ==
  LET comma == IF w.first THEN w ELSE Append1(size, w, Lex(","))
      named == FoldLeft(LAMBDA u, lexeme : Append1(size, u, lexeme), comma,
                        IF name = <<>> THEN <<>> ELSE <<StringLex(Escaped(name[1])), Lex(":")>>)
  IN [named EXCEPT !.first = FALSE]

\* Slip: after the end of an array its first element is still to come.
EndElement_First(size, w, type) == [Append1(size, w, Lex(type)) EXCEPT !.first = TRUE]

\* LuaJsonEndArray and LuaJsonEndObject.
EndElement(size, w, type) == [Append1(size, w, Lex(type)) EXCEPT !.first = FALSE]

BeginElement(size, w, type, name) ==
  [Append1(size, WriteCommon(size, w, name), Lex(type)) EXCEPT !.first = TRUE]

\* The calls a script makes for a document; name is empty or has one element.
RECURSIVE WriteDocument(_, _, _, _)
WriteDocument(size, w, doc, name) ==
  LET type == CHOOSE f \in DOMAIN doc : TRUE
      Element(u, v) == WriteDocument(size, u, v, <<>>)
      Member(u, pair) == WriteDocument(size, u, pair[2], <<pair[1]>>)
  IN CASE type = "number" -> Append1(size, WriteCommon(size, w, name), Lex("number"))
       [] type = "string" ->
            Append1(size, WriteCommon(size, w, name), StringLex(Escaped(doc.string)))
       [] type = "array" ->
            EndElement(size, FoldLeft(Element, BeginElement(size, w, "[", name), doc.array), "]")
       [] type = "object" ->
            EndElement(size, FoldLeft(Member, BeginElement(size, w, "{", name), doc.object), "}")

\* LuaJsonGc: what is in the file when the writer is closed.
Written(size, doc) == Flush(WriteDocument(size, WriterNew, doc, <<>>)).file

-----------------------------------------------------------------------------
(* JsonParse. *)

Fail == [ok |-> FALSE]
Good(value, pos) == [ok |-> TRUE, value |-> value, pos |-> pos]

\* The lexeme at a position, the end of the file after the last one.
Peek(text, pos) == IF pos <= Len(text) THEN text[pos].type ELSE "eof"

\* The escapes that the parser knows: not the one for a vertical tab, and one for
\* the slash besides.
Unescapable == [code \in {"n", "r", "t", "f", "backslash", "quote", "slash"} |->
                  IF code = "slash" THEN code
                  ELSE CHOOSE ch \in DOMAIN Escape : Escape[ch] = code]

\* GetStringLexeme: what a string's body stands for.
Unescape(body) ==
  LET Read[i \in 1 .. Len(body) + 2] ==
        IF i > Len(body) THEN [ok |-> TRUE, string |-> <<>>]
        ELSE IF body[i] # "backslash"
             THEN [Read[i + 1] EXCEPT !.string = <<body[i]>> \o @]
             ELSE IF i < Len(body) /\ body[i + 1] \in DOMAIN Unescapable
                  THEN [Read[i + 2] EXCEPT !.string = <<Unescapable[body[i + 1]]>> \o @]
                  ELSE [ok |-> FALSE, string |-> <<>>]
  IN Read[1]

\* Slip: an array may end after a comma.
MayEnd_Comma(text, pos, comma) == Peek(text, pos) = "]"

\* JsonParseArray looks for the end before it looks for a comma, and parses a
\* value after a comma.
MayEnd(text, pos, comma) == Peek(text, pos) = "]" /\ ~comma

RECURSIVE JsonParseValue(_, _), JsonParseArray(_, _, _, _), JsonParseObject(_, _, _, _)

JsonParseValue(text, pos) ==
  LET type == Peek(text, pos)
  IN CASE type = "number" -> Good(Number, pos + 1)
       [] type = "string" ->
            LET s == Unescape(text[pos].body)
            IN IF s.ok THEN Good(Str(s.string), pos + 1) ELSE Fail
       [] type = "[" -> JsonParseArray(text, pos + 1, <<>>, FALSE)
       [] type = "{" -> JsonParseObject(text, pos + 1, <<>>, "none")
       [] OTHER -> Fail

\* The loop of JsonParseArray; comma: one was just skipped.
JsonParseArray(text, pos, values, comma) ==
  IF MayEnd(text, pos, comma) THEN Good(Array(values), pos + 1)
  ELSE IF values # <<>> /\ ~comma
       THEN IF Peek(text, pos) = "," THEN JsonParseArray(text, pos + 1, values, TRUE) ELSE Fail
       ELSE LET value == JsonParseValue(text, pos)
            IN IF value.ok
               THEN JsonParseArray(text, value.pos, Append(values, value.value), FALSE)
               ELSE Fail

\* The loop of JsonParseObject; seen: the last thing was a "value", a "comma" or
\* "none".
JsonParseObject(text, pos, pairs, seen) ==
  CASE Peek(text, pos) = "string" ->
         LET name  == Unescape(text[pos].body)
             value == JsonParseValue(text, pos + 2)
         IN IF seen = "value" \/ ~name.ok \/ Peek(text, pos + 1) # ":" THEN Fail
            ELSE IF value.ok
                 THEN JsonParseObject(text, value.pos,
                                      Append(pairs, <<name.string, value.value>>), "value")
                 ELSE Fail
    [] Peek(text, pos) = "}" -> Good(Object(pairs), pos + 1)
    [] Peek(text, pos) = "," ->
         IF seen = "value" THEN JsonParseObject(text, pos + 1, pairs, "comma") ELSE Fail
    [] OTHER -> Fail

JsonParse(text) ==
  LET root == JsonParseValue(text, 1)
  IN IF root.ok /\ Peek(text, root.pos) = "eof" THEN root ELSE Fail

-----------------------------------------------------------------------------
(* The texts of a document, from the grammar. *)

\* Texts with a comma between each two.
RECURSIVE Comma(_)
Comma(texts) ==
  IF Len(texts) <= 1 THEN FlattenSeq(texts)
  ELSE Head(texts) \o <<Lex(",")>> \o Comma(Tail(texts))

RECURSIVE Render(_)
Render(doc) ==
  CASE DOMAIN doc = {"number"} -> <<Lex("number")>>
    [] DOMAIN doc = {"string"} -> <<StringLex(Escaped(doc.string))>>
    [] DOMAIN doc = {"array"} ->
         <<Lex("[")>> \o Comma([i \in DOMAIN doc.array |-> Render(doc.array[i])]) \o <<Lex("]")>>
    [] DOMAIN doc = {"object"} ->
         <<Lex("{")>>
           \o Comma([i \in DOMAIN doc.object |->
                       <<StringLex(Escaped(doc.object[i][1])), Lex(":")>> \o Render(doc.object[i][2])])
           \o <<Lex("}")>>

\* The parser lets one comma stand between the last member of an object and its
\* end.
TrailingComma(text, i) ==
  /\ i > 1 /\ i < Len(text)
  /\ text[i].type = "," /\ text[i + 1].type = "}" /\ text[i - 1].type \notin {"{", ",", ":", "["}

Strict(text) == SelectSeq([i \in DOMAIN text |-> i], LAMBDA i : ~TrailingComma(text, i))

\* What is written is the document's text, whatever the size of the buffer, and
\* it is read as the document that was written.
WriterRight(size, doc) ==
  Written(size, doc) = Render(doc) /\ JsonParse(Written(size, doc)) = Good(doc, Len(Render(doc)) + 1)

\* The parser accepts nothing but texts of documents, trailing commas in objects
\* aside: whatever it accepts, written again, is what was read.
ParserRight(text) ==
  LET root == JsonParse(text)
  IN root.ok => Render(root.value) = [i \in DOMAIN Strict(text) |-> text[Strict(text)[i]]]

=============================================================================
