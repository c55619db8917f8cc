----------------------------- MODULE HashTable -----------------------------
(***************************************************************************)
(* src/src/HashTable.hpp: open addressing with linear probing.  Hash 0     *)
(* marks a free slot (no string hashes to it), nothing is ever removed,    *)
(* and HashTableInsert does not look whether the string is there already.  *)
(* HashTable and HashSet differ in the payload only.                       *)
(*                                                                         *)
(* FirstShift is the smallest table, 7 in the code.                        *)
(***************************************************************************)
EXTENDS Integers, FiniteSetsExt, SequencesExt

CONSTANT FirstShift

ASSUME ShiftAssumption == FirstShift \in Nat \ {0}

FreeSlot == [hash |-> 0]

HashTableInit == [shift |-> 0, count |-> 0, slots |-> <<>>]

\* m_TableSize: there is no storage at first.
TableSize(table) == IF table.shift = 0 THEN 0 ELSE 2 ^ table.shift

\* The slots in the order in which a hash probes them, from distance 0.
ProbeIndex(size, hash, distance) == (hash + distance) % size

\* Distance to the first slot that a probe for this hash may stop at.
FirstStop(slots, size, hash, Stops(_)) ==
  Min({d \in 0 .. size - 1 : Stops(slots[ProbeIndex(size, hash, d)])})

IsFree(slot) == slot.hash = 0

\* HashTableBaseLookup: the index of the first match, or -1.
HashTableLookup(table, hash, string) ==
  LET size == TableSize(table)
      Matches(slot) == slot.hash = hash /\ slot.string = string
      Stops(slot) == IsFree(slot) \/ Matches(slot)
      index == ProbeIndex(size, hash, FirstStop(table.slots, size, hash, Stops))
  IN IF size = 0 \/ IsFree(table.slots[index]) THEN -1 ELSE index

\* Where a record goes: the first free slot from its home on.
PutRecord(slots, size, record) ==
  [slots EXCEPT ![ProbeIndex(size, record.hash,
                             FirstStop(slots, size, record.hash, IsFree))] = record]

\* Slip: the records are copied to the same indices.
HashTableGrow_Copy(table) ==
  LET shift == Max({table.shift + 2, FirstShift})
  IN [table EXCEPT !.shift = shift,
                   !.slots = [i \in 0 .. 2 ^ shift - 1 |->
                                IF i < TableSize(table) THEN table.slots[i] ELSE FreeSlot]]

\* HashTableGrow: four times the size, and the old slots from first to last.
HashTableGrow(table) ==
  LET shift == Max({table.shift + 2, FirstShift})
      size  == 2 ^ shift
      Insert(slots, i) ==
        IF IsFree(table.slots[i]) THEN slots ELSE PutRecord(slots, size, table.slots[i])
  IN [table EXCEPT
        !.shift = shift,
        !.slots = FoldLeft(Insert, [i \in 0 .. size - 1 |-> FreeSlot],
                           [n \in 1 .. TableSize(table) |-> n - 1])]

\* HashTableBaseInsert and HashTableInsert: grow at a load of 80/256.
HashTableInsert(table, hash, string, payload) ==
  LET load  == (256 * (table.count + 1)) \div 2 ^ table.shift
      roomy == IF load > 80 THEN HashTableGrow(table) ELSE table
      record == [hash |-> hash, string |-> string, payload |-> payload]
  IN [roomy EXCEPT !.slots = PutRecord(@, TableSize(roomy), record),
                   !.count = @ + 1]

\* A change through the pointer that HashTableLookup returns.
SetPayload(table, index, payload) == [table EXCEPT !.slots[index].payload = payload]

UsedSlots(table) == {i \in DOMAIN table.slots : ~IsFree(table.slots[i])}

\* HashTableWalk: the records in the order of their slots.
HashTableWalk(table) ==
  SelectSeq([n \in 1 .. TableSize(table) |-> table.slots[n - 1]], LAMBDA slot : ~IsFree(slot))

\* What every lookup relies on: the walk meets as many records as were counted,
\* a probe always comes to a free slot, and no free slot is between a record
\* and its home.
TableSound(table) ==
  /\ Cardinality(UsedSlots(table)) = table.count
  /\ table.shift > 0 => UsedSlots(table) # DOMAIN table.slots
  /\ \A i \in UsedSlots(table) :
       \A d \in 0 .. (i - table.slots[i].hash) % TableSize(table) :
         ~IsFree(table.slots[ProbeIndex(TableSize(table), table.slots[i].hash, d)])

=============================================================================
