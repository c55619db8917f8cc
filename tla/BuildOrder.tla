----------------------------- MODULE BuildOrder -----------------------------
(***************************************************************************)
(* What a build promises, without threads, locks, queues or wakeups: the   *)
(* order in which the nodes of a DAG may be checked and built.  Module     *)
(* BuildQueue is shown to implement it.                                    *)
(***************************************************************************)
EXTENDS Integers, FiniteSets

CONSTANTS Node, Deps, PassOf, PassCount, Expensive, Limit, ContinueOnError

VARIABLES
  stage,   \* how far every node is
  pass     \* the pass that is being built

Stage == {"waiting", "checking", "running", "ok", "failed"}

Finished(n) == stage[n] \in {"ok", "failed"}

Init ==
  /\ stage = [n \in Node |-> "waiting"]
  /\ pass = -1

\* The next pass begins when every node of this one has been built.
NextPass ==
  /\ pass + 1 < PassCount
  /\ \A n \in Node : PassOf[n] <= pass => stage[n] = "ok"
  /\ pass' = pass + 1
  /\ UNCHANGED stage

\* A node of the pass is looked at once its dependencies are finished, and only
\* while there is no error or errors are to be ignored.
Check(n) ==
  /\ PassOf[n] = pass /\ stage[n] = "waiting"
  /\ \A d \in Deps[n] : Finished(d)
  /\ ContinueOnError \/ \A m \in Node : stage[m] # "failed"
  /\ stage' = [stage EXCEPT ![n] = "checking"]
  /\ UNCHANGED pass

\* The node is up to date, or has nothing to run.
Skip(n) ==
  /\ stage[n] = "checking"
  /\ stage' = [stage EXCEPT ![n] = "ok"]
  /\ UNCHANGED pass

\* The action starts: at most Limit expensive actions run at a time.
Run(n) ==
  /\ stage[n] = "checking"
  /\ n \in Expensive => Cardinality({m \in Expensive : stage[m] = "running"}) < Limit
  /\ stage' = [stage EXCEPT ![n] = "running"]
  /\ UNCHANGED pass

Finish(n) ==
  /\ stage[n] = "running"
  /\ \E r \in {"ok", "failed"} : stage' = [stage EXCEPT ![n] = r]
  /\ UNCHANGED pass

Next == NextPass \/ \E n \in Node : Check(n) \/ Skip(n) \/ Run(n) \/ Finish(n)

Spec == Init /\ [][Next]_<<stage, pass>>

=============================================================================
