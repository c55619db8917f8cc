---------------------------- MODULE MCBuildQueue ----------------------------
(***************************************************************************)
(* Small instances of BuildQueue for TLC.                                  *)
(***************************************************************************)
EXTENDS BuildQueue, TLC

CONSTANTS a, b, c, d, e, w1, w2

\* One pass: two expensive nodes depend on a, and d depends on both.
DiamondDeps == a :> {} @@ b :> {a} @@ c :> {a} @@ d :> {b, c}
OnePass     == [n \in Node |-> 0]

\* Two passes: three independent expensive nodes and e, which has no action and
\* waits for a; then d waits for c and e.
LayeredDeps == a :> {} @@ b :> {} @@ c :> {} @@ e :> {a} @@ d :> {c, e}
TwoPasses   == [n \in Node |-> IF n = d THEN 1 ELSE 0]

\* One pass of independent nodes.
FlatDeps == [n \in Node |-> {}]

\* The worker threads are interchangeable.
Workers == Permutations(Worker)
=============================================================================
