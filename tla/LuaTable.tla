------------------------------ MODULE LuaTable ------------------------------
(***************************************************************************)
(* The tables of the build scripts' language (src/lua/src/ltable.c): an    *)
(* array part, and a hash part whose collisions are chained through the    *)
(* nodes themselves, grown and split anew when it is full.                 *)
(*                                                                         *)
(* A key is a number: positive ones are the integers that may live in the  *)
(* array part, negative ones stand for all other keys.  Zero is nil, as a  *)
(* key, a value and a next pointer.  Nodes are counted from one.           *)
(***************************************************************************)
EXTENDS Integers, SequencesExt, FiniteSetsExt

CONSTANTS KeyHash(_),   \* the hash of a key
          MaxInt        \* MAX_INT, where unbound_search gives up doubling

Nil == 0
EmptyNode == [key |-> Nil, val |-> Nil, next |-> Nil]

\* Without a hash part a table uses the dummy node.
IsDummy(t) == t.dummy
SizeNode(t) == Len(t.node)

\* ceillog2.
Log2[n \in 1 .. 64] == IF n = 1 THEN 0 ELSE Log2[(n + 1) \div 2] + 1

\* setnodevector.
WithNodeVector(t, size) ==
  LET n == IF size = 0 THEN 1 ELSE 2 ^ Log2[size]
  IN [t EXCEPT !.node = [i \in 1 .. n |-> EmptyNode], !.dummy = size = 0,
               !.lastfree = IF size = 0 THEN 1 ELSE n + 1]

\* setarrayvector, for a table that grows.
WithArrayVector(t, size) ==
  [t EXCEPT !.array = [i \in 1 .. size |-> IF i <= Len(t.array) THEN t.array[i] ELSE Nil]]

\* luaH_new.
LuaH_new(narray, nhash) ==
  WithNodeVector(WithArrayVector([array |-> <<>>, node |-> <<>>, dummy |-> TRUE, lastfree |-> 1],
                                 narray), nhash)

\* mainposition: strings take the hash modulo the size, other keys an odd modulus.
MainPosition(t, key) ==
  1 + (KeyHash(key) % (IF key < 0 THEN SizeNode(t) ELSE Max({1, SizeNode(t) - 1})))

\* The nodes from n on.
RECURSIVE Chain(_, _)
Chain(t, n) == IF n = Nil THEN <<>> ELSE <<n>> \o Chain(t, t.node[n].next)

InArray(t, key) == key \in 1 .. Len(t.array)

\* The node of a key, Nil if there is none.
NodeOf(t, key) ==
  LET chain == Chain(t, MainPosition(t, key))
      i == SelectInSeq(chain, LAMBDA n : t.node[n].key = key)
  IN IF i = 0 THEN Nil ELSE chain[i]

\* luaH_get, luaH_getnum, luaH_getstr.
LuaH_get(t, key) ==
  CASE key = Nil -> Nil
    [] key # Nil /\ InArray(t, key) -> t.array[key]
    [] OTHER -> IF NodeOf(t, key) = Nil THEN Nil ELSE t.node[NodeOf(t, key)].val

-----------------------------------------------------------------------------
(* Rehash. *)

\* numusearray, numusehash, countint: the integer keys in use, and how many of all
\* keys there are.
UsedKeys(t) ==
  {i \in DOMAIN t.array : t.array[i] # Nil} \cup
  {t.node[i].key : i \in {j \in DOMAIN t.node : t.node[j].val # Nil}}

\* Slip: half is enough.
ComputeSizes_Half(keys) ==
  LET Size(i) == 2 ^ i
      Below(i) == Cardinality({k \in keys : k > 0 /\ k <= Size(i)})
      good == {i \in 0 .. 6 : 2 * Below(i) >= Size(i) /\ Below(i) > 0}
  IN IF good = {} THEN 0 ELSE Size(Max(good))

\* computesizes: the largest power of two such that more than half of the indices
\* up to it are in use; zero if there is none.
ComputeSizes(keys) ==
  LET Size(i) == 2 ^ i
      Below(i) == Cardinality({k \in keys : k > 0 /\ k <= Size(i)})
      good == {i \in 0 .. 6 : 2 * Below(i) > Size(i)}
  IN IF good = {} THEN 0 ELSE Size(Max(good))

\* getfreepos: the pointer only moves down, and past the first node.
GetFreePos(t) ==
  LET free == {i \in 1 .. t.lastfree - 1 : t.node[i].key = Nil}
  IN IF IsDummy(t) \/ free = {} THEN Nil ELSE Max(free)

RECURSIVE LuaH_set(_, _, _), NewKey(_, _, _), Resize(_, _, _)

\* Slip: the node before the one that moves is not told.
MoveColliding_Forget(t, mp, othern, n) ==
  [t EXCEPT !.node[n] = t.node[mp], !.node[mp] = EmptyNode]

\* newkey: a colliding node that is not in its main position moves to n.
MoveColliding(t, mp, othern, n) ==
  LET chain == Chain(t, othern)
      previous == chain[SelectInSeq(chain, LAMBDA i : t.node[i].next = mp)]
  IN [t EXCEPT !.node[previous].next = n, !.node[n] = t.node[mp], !.node[mp] = EmptyNode]

Put(t, n, key, val) == [t EXCEPT !.node[n].key = key, !.node[n].val = val]

\* newkey, and the assignment to the value it returns; with rehash.
NewKey(t, key, val) ==
  LET mp == MainPosition(t, key)
      n  == GetFreePos(t)
      taken == [t EXCEPT !.lastfree = IF n = Nil THEN 0 ELSE n]
      othern == MainPosition(t, t.node[mp].key)
      keys == UsedKeys(t) \cup {key}
      na == ComputeSizes(keys)
  IN CASE t.node[mp].val = Nil /\ ~IsDummy(t) -> Put(t, mp, key, val)
       [] ~(t.node[mp].val = Nil /\ ~IsDummy(t)) /\ n = Nil ->
            LuaH_set(Resize(t, na, Cardinality(keys \ 1 .. na)), key, val)
       [] ~(t.node[mp].val = Nil /\ ~IsDummy(t)) /\ n # Nil ->
            IF othern # mp THEN Put(MoveColliding(taken, mp, othern, n), mp, key, val)
            ELSE Put([taken EXCEPT !.node[n].next = t.node[mp].next, !.node[mp].next = n], n, key, val)

\* luaH_set, luaH_setnum, luaH_setstr, and the assignment.
LuaH_set(t, key, val) ==
  CASE InArray(t, key) -> [t EXCEPT !.array[key] = val]
    [] ~InArray(t, key) /\ NodeOf(t, key) # Nil -> [t EXCEPT !.node[NodeOf(t, key)].val = val]
    [] OTHER -> NewKey(t, key, val)

\* resize: what no longer fits the array goes to the new hash part, then the old
\* nodes are inserted again, from the last to the first.
Resize(t, nasize, nhsize) ==
  LET old == Len(t.array)
      grown == IF nasize > old THEN WithArrayVector(t, nasize) ELSE t
      empty == [WithNodeVector(grown, nhsize) EXCEPT !.array = SubSeq(@, 1, nasize)]
      vanishing == [i \in 1 .. old - nasize |-> nasize + i]
      Array(u, i) == IF t.array[i] = Nil THEN u ELSE LuaH_set(u, i, t.array[i])
      Nodes(u, node) == IF node.val = Nil THEN u ELSE LuaH_set(u, node.key, node.val)
  IN FoldLeft(Nodes, FoldLeft(Array, empty, vanishing), Reverse(t.node))

-----------------------------------------------------------------------------
(* luaH_next and luaH_getn. *)

\* findindex: where a traversal stands at a key.
FindIndex(t, key) ==
  CASE key = Nil -> 0 [] InArray(t, key) -> key [] OTHER -> Len(t.array) + NodeOf(t, key)

\* luaH_next: the next key with a value, Nil at the end.
LuaH_next(t, key) ==
  LET ValueAt(i) == IF i <= Len(t.array) THEN t.array[i] ELSE t.node[i - Len(t.array)].val
      rest == {i \in FindIndex(t, key) + 1 .. Len(t.array) + SizeNode(t) : ValueAt(i) # Nil}
      i == Min(rest)
  IN IF rest = {} THEN Nil ELSE IF i <= Len(t.array) THEN i ELSE t.node[i - Len(t.array)].key

\* The binary searches of luaH_getn and unbound_search: i is in use and j is not.
RECURSIVE Between(_, _, _)
Between(t, i, j) ==
  IF j - i <= 1 THEN i
  ELSE LET m == (i + j) \div 2
       IN IF LuaH_get(t, m) = Nil THEN Between(t, i, m) ELSE Between(t, m, j)

RECURSIVE UnboundSearch(_, _, _)
UnboundSearch(t, i, j) ==
  IF j > MaxInt THEN Min({k \in 1 .. MaxInt + 1 : LuaH_get(t, k) = Nil}) - 1
  ELSE IF LuaH_get(t, j) = Nil THEN Between(t, i, j)
  ELSE UnboundSearch(t, j, j * 2)

LuaH_getn(t) ==
  LET j == Len(t.array)
  IN IF j > 0 /\ t.array[j] = Nil THEN Between(t, 0, j)
     ELSE IF IsDummy(t) THEN j ELSE UnboundSearch(t, j, j + 1)

-----------------------------------------------------------------------------

\* After any assignments a table has the values that were assigned last; a traversal
\* meets every key that has a value once, even if the fields it meets are cleared on
\* the way; the length is a border; and the array part is more than half full
\* whenever it was sized by a rehash.
TableRight(narray, nhash, sets) ==
  LET t == FoldLeft(LAMBDA u, s : LuaH_set(u, s[1], s[2]), LuaH_new(narray, nhash), sets)
      keys == {s[1] : s \in ToSet(sets)}
      Meaning(k) == LET last == SelectLastInSeq(sets, LAMBDA s : s[1] = k)
                    IN IF last = 0 THEN Nil ELSE sets[last][2]
      live == {k \in keys : Meaning(k) # Nil}
      Walk[n \in 0 .. Cardinality(keys) + 1] ==
        IF n = 0 THEN [t |-> t, key |-> LuaH_next(t, Nil), met |-> <<>>]
        ELSE IF Walk[n - 1].key = Nil THEN Walk[n - 1]
        ELSE LET w == Walk[n - 1]
                 u == LuaH_set(w.t, w.key, Nil)
             IN [t |-> u, key |-> LuaH_next(u, w.key), met |-> Append(w.met, w.key)]
      walked == Walk[Cardinality(keys) + 1]
      border == LuaH_getn(t)
  IN /\ \A k \in keys : LuaH_get(t, k) = Meaning(k)
     /\ walked.key = Nil /\ IsInjective(walked.met) /\ ToSet(walked.met) = live
     /\ border = 0 \/ LuaH_get(t, border) # Nil
     /\ LuaH_get(t, border + 1) = Nil
     /\ Len(t.array) \notin {0, narray} =>
          \E n \in DOMAIN sets : 2 * Cardinality({k \in {sets[i][1] : i \in 1 .. n} :
                                                    k \in 1 .. Len(t.array)}) > Len(t.array)

=============================================================================
