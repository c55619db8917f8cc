------------------------------- MODULE MCExec -------------------------------
(***************************************************************************)
(* Small instances of Exec for TLC.  A sort key is an int of 5 bits:       *)
(* INT_MAX is 15; -2 and -1 stand for the annotation and the command line, *)
(* which ExecuteProcess gives -200 and -199.                               *)
(***************************************************************************)
EXTENDS Exec

CONSTANTS j1, j2, j3

\* One command fills a pipe, one has nothing to say
\* but its annotation, one has ended without a word.
Plans == j1 :> <<"out", "out">> @@ j2 :> <<>> @@ j3 :> <<>>
Ends  == j1 :> {0} @@ j2 :> {0} @@ j3 :> {Signalled}

\* A command with an annotation fails while another one writes.
FailingPlans == j1 :> <<"out">> @@ j2 :> <<>>
FailingEnds  == j1 :> {0} @@ j2 :> {1}
=============================================================================
