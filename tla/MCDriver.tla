------------------------------ MODULE MCDriver ------------------------------
(***************************************************************************)
(* Small instances of Driver for TLC.                                      *)
(***************************************************************************)
EXTENDS Driver, TLC

CONSTANTS n1, n2, n3

Plain(targets, mode, regen) == [targets |-> targets, mode |-> mode, regen |-> regen]

\* The second script gives the first node another output and replaces the
\* second node, whose directory goes; the third is the first again.
First ==
  [nodes |-> {n1, n2}, default |-> {n2},
   deps |-> n1 :> {} @@ n2 :> {n1},
   out  |-> n1 :> {<<"o", "a">>} @@ n2 :> {<<"o", "x", "b">>},
   aux  |-> n1 :> {} @@ n2 :> {<<"o", "l">>}]
Second ==
  [nodes |-> {n1, n3}, default |-> {n1, n3},
   deps |-> n1 :> {} @@ n3 :> {},
   out  |-> n1 :> {<<"o", "c">>} @@ n3 :> {<<"o", "d">>},
   aux  |-> n1 :> {} @@ n3 :> {<<"o", "l">>}]
Changing == <<First, Second, First>>

AllOptions ==
  {Plain({}, "build", FALSE), Plain({n1}, "build", FALSE), Plain({}, "rebuild", TRUE),
   Plain({}, "clean", FALSE), Plain({}, "show", FALSE)}

=============================================================================
