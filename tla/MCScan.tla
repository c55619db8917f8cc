------------------------------- MODULE MCScan -------------------------------
(***************************************************************************)
(* Small instances of Scan for TLC.                                        *)
(***************************************************************************)
EXTENDS Scan

CONSTANTS t1, t2

Quoted(name) == [name |-> name, system |-> FALSE]
Angled(name) == [name |-> name, system |-> TRUE]

\* One source, and two headers of the same name; the one in "i" may include
\* itself through "g", and the other one hides it from quotes.
Paths == {<<"s", "c">>, <<"s", "h">>, <<"i", "h">>, <<"i", "g">>}

\* The same source is scanned with two scanners, and only one of them looks
\* into "i".
SameInput == [t \in Thread |-> <<"s", "c">>]
OwnScanner == [t \in Thread |-> IF t = t1 THEN 1 ELSE 2]
SearchPaths == <<<<"i">>, <<"s">>>>

Contents ==
  [p \in Paths |->
     CASE p = <<"s", "c">> -> {<<Quoted("h"), Angled("h")>>, <<Angled("g")>>}
       [] p = <<"i", "h">> -> {<<Quoted("g")>>, <<>>}
       [] p = <<"i", "g">> -> {<<Angled("h")>>}
       [] OTHER -> {<<Quoted("x")>>}]

\* The source may go and come back; no file includes it.
Fleeting == {<<"s", "c">>}

Rank == <<<<"s", "c">>, <<"i", "h">>, <<"i", "g">>, <<"s", "h">>>>
Keys == [k \in {1, 2} \X Paths |->
           (IF k[1] = 1 THEN 0 ELSE 10) + CHOOSE i \in 1 .. 4 : Rank[i] = k[2]]
=============================================================================
