----------------------------- MODULE MCSession -----------------------------
(***************************************************************************)
(* Small instances of Session for TLC.                                     *)
(***************************************************************************)
EXTENDS Session, TLC

CONSTANTS a, b, c, w1

\* b is made from the output of a.
ChainDeps == a :> {} @@ b :> {a}
\* a and b are independent.
FlatDeps  == [n \in Node |-> {}]
\* Kills and removals, but not both in one history.
Usual == {[digest |-> TRUE,  crash |-> FALSE, remove |-> TRUE],
          [digest |-> FALSE, crash |-> FALSE, remove |-> TRUE],
          [digest |-> TRUE,  crash |-> TRUE,  remove |-> FALSE],
          [digest |-> FALSE, crash |-> TRUE,  remove |-> FALSE]}
Killed == {[digest |-> FALSE, crash |-> TRUE, remove |-> TRUE]}
Calm   == {[digest |-> FALSE, crash |-> FALSE, remove |-> FALSE]}
OnePass   == [n \in Node |-> 0]
=============================================================================
