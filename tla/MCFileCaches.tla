---------------------------- MODULE MCFileCaches ----------------------------
(***************************************************************************)
(* Small instances of FileCaches for TLC.                                  *)
(***************************************************************************)
EXTENDS FileCaches

CONSTANTS src, out, dir, t1, t2

OwnedByFirst == [f \in Output |-> t1]

\* In a table of eight slots src and out both probe from the last one.
Hashes == [f \in File |-> CASE f = src -> 15 [] f = out -> 7 [] OTHER -> 8]

=============================================================================
