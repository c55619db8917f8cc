-------------------------- MODULE SortedArrayUtil --------------------------
(***************************************************************************)
(* src/src/SortedArrayUtil.hpp: looking a key up in a sorted array, and    *)
(* the merge that writes the scan cache and the build state.  Keys are     *)
(* numbers; both operators only compare them.                              *)
(***************************************************************************)
EXTENDS Integers, Sequences

\* std::lower_bound: halves the range until nothing is left of it, and relies
\* on the order of the keys for every half it throws away.
LowerBound(keys, key) ==
  LET Search[first \in 1 .. Len(keys) + 1, count \in 0 .. Len(keys)] ==
        LET half == count \div 2
        IN IF count = 0 THEN first
           ELSE IF keys[first + half] < key
                THEN Search[first + half + 1, count - half - 1]
                ELSE Search[first, half]
  IN Search[1, Len(keys)]

\* The index of the key, or 0 where the code returns nullptr.
BinarySearch(keys, key) ==
  LET index == LowerBound(keys, key)
  IN IF index <= Len(keys) /\ keys[index] = key THEN index ELSE 0

\* TraverseSortedArrays: what the callbacks write, in the order in which they are
\* called; written1[i] and written2[i] are the records that the call for index i
\* writes.  Where the keys agree the second array is passed over.
TraverseSortedArrays(keys1, written1, keys2, written2) ==
  LET Merge[i1 \in 1 .. Len(keys1) + 1, i2 \in 1 .. Len(keys2) + 1] ==
        IF i1 <= Len(keys1) /\ (i2 > Len(keys2) \/ keys1[i1] <= keys2[i2])
        THEN written1[i1]
               \o Merge[i1 + 1,
                        IF i2 <= Len(keys2) /\ keys1[i1] = keys2[i2] THEN i2 + 1 ELSE i2]
        ELSE IF i2 <= Len(keys2) THEN written2[i2] \o Merge[i1, i2 + 1]
             ELSE <<>>
  IN Merge[1, 1]

=============================================================================
