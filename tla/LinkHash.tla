-------------------------------- MODULE LinkHash --------------------------------
(***************************************************************************)
(* The table of names and values of a JSON object (json-c, linkhash.c, and *)
(* json_object_object_add and _del of json_object.c).                      *)
(*                                                                         *)
(* Open addressing with marks where entries were deleted; the entries in   *)
(* use are linked in the order they were added.  The hash of a name        *)
(* depends on a seed that is drawn once in a process.                      *)
(***************************************************************************)
EXTENDS Integers, FiniteSets, FiniteSetsExt

CONSTANTS
  Keys, Values,
  None,      \* NULL
  Hashes,    \* what lh_char_hash may return
  DefSize,   \* JSON_OBJECT_DEF_HASH_ENTRIES
  MaxSize    \* bound: entries of a table

LinkHashAssumption ==
  /\ DefSize \in Nat \ {0} /\ MaxSize \in Nat
  /\ Hashes \subseteq Nat /\ None \notin Keys \cup Values

VARIABLES
  hash,   \* lh_get_hash, with the seed of this process
  t       \* the lh_table

vars == <<hash, t>>

Marks == {"empty", "freed"}                       \* LH_EMPTY and LH_FREED

Blank == [k |-> "empty", v |-> None, next |-> None, prev |-> None]

(* lh_table_new.                                                           *)
New(size) ==
  [table |-> [n \in 0..size - 1 |-> Blank], size |-> size, count |-> 0, head |-> None,
   tail |-> None]

Init == hash \in [Keys -> Hashes] /\ t = New(DefSize)

-----------------------------------------------------------------------------
(* The cell at step i of the way of key through a table.                   *)
Cell(x, key, i) == (hash[key] + i) % x.size

(* lh_table_lookup_entry_w_hash: the cell of key, None if there is none.   *)
Lookup(x, key) ==
  LET steps == 0..x.size - 1
      ends == {i \in steps : x.table[Cell(x, key, i)].k \in {key, "empty"}}
      n == Cell(x, key, Min(ends))
  IN IF ends # {} /\ x.table[n].k = key THEN n ELSE None

(* The rest of lh_table_insert_w_hash, when there is room.                 *)
Placed(x, key, v) ==
  LET free == {i \in 0..x.size - 1 : x.table[Cell(x, key, i)].k \in Marks}
      n == Cell(x, key, Min(free))
      put == [x.table EXCEPT ![n] = [k |-> key, v |-> v, next |-> None, prev |-> x.tail]]
  IN [x EXCEPT !.table = IF x.head = None THEN put ELSE [put EXCEPT ![x.tail].next = n],
               !.count = @ + 1,
               !.head = IF @ = None THEN n ELSE @,
               !.tail = n]

(* The cells in use, by their links, and back from the end.                *)
Linked(x) ==
  LET f[i \in 1..x.count] == IF i = 1 THEN x.head ELSE x.table[f[i - 1]].next
  IN f

(* lh_table_resize: the entries in their order into twice as many cells.   *)
Resized(x) ==
  LET cells == Linked(x)
      f[i \in 0..x.count] ==
        IF i = 0 THEN New(2 * x.size)
        ELSE Placed(f[i - 1], x.table[cells[i]].k, x.table[cells[i]].v)
  IN f[x.count]

(* LH_LOAD_FACTOR is 0.66.                                                 *)
Loaded(x) == 100 * x.count >= 66 * x.size

Roomy(x) == IF Loaded(x) THEN Resized(x) ELSE x

-----------------------------------------------------------------------------
(* json_object_object_add: a name that is there gets the new value.        *)
Replace(key, v) ==
  /\ Lookup(t, key) # None
  /\ t' = [t EXCEPT !.table[Lookup(t, key)].v = v]
  /\ UNCHANGED hash

Insert(key, v) ==
  /\ Lookup(t, key) = None
  /\ Roomy(t).size <= MaxSize
  /\ t' = Placed(Roomy(t), key, v)
  /\ UNCHANGED hash

(* lh_table_delete.                                                        *)
Delete(key) ==
  /\ Lookup(t, key) # None
  /\ LET n == Lookup(t, key)
         e == t.table[n]
         cut == [t.table EXCEPT ![n] = [Blank EXCEPT !.k = "freed"]]
         fore == IF e.prev = None THEN cut ELSE [cut EXCEPT ![e.prev].next = e.next]
     IN t' = [t EXCEPT !.table = IF e.next = None THEN fore
                                 ELSE [fore EXCEPT ![e.next].prev = e.prev],
                       !.count = @ - 1,
                       !.head = IF @ = n THEN e.next ELSE @,
                       !.tail = IF @ = n THEN e.prev ELSE @]
  /\ UNCHANGED hash

Next == \E key \in Keys : Delete(key) \/ \E v \in Values : Replace(key, v) \/ Insert(key, v)

Spec == Init /\ [][Next]_vars

-----------------------------------------------------------------------------
(* Properties.                                                             *)

InUse == {n \in 0..t.size - 1 : t.table[n].k \notin Marks}

TypeOK ==
  /\ hash \in [Keys -> Hashes]
  /\ t.size \in DefSize..MaxSize /\ t.count = Cardinality(InUse)
  /\ DOMAIN t.table = 0..t.size - 1
  /\ \A n \in InUse : t.table[n].k \in Keys /\ t.table[n].v \in Values

(* The links lead through every entry once and back: nothing is lost from  *)
(* the order by deleting first, last or middle entries and adding others   *)
(* in their cells.                                                         *)
LinksSound ==
  LET f == Linked(t)
  IN IF t.count = 0 THEN t.head = None /\ t.tail = None
     ELSE /\ {f[i] : i \in 1..t.count} = InUse
          /\ f[t.count] = t.tail /\ t.table[t.tail].next = None
          /\ t.table[t.head].prev = None
          /\ \A i \in 2..t.count : t.table[f[i]].prev = f[i - 1]

(* Every entry is found by its name, also in a table that has no empty     *)
(* cell left, and there is always a cell for the next one.                 *)
LookupFinds ==
  /\ \A n \in InUse : Lookup(t, t.table[n].k) = n
  /\ t.count < t.size \/ Loaded(t)

(* It is the ordered table of names a JSON object stands for: whatever     *)
(* changes it is one operation of OrderedTable.                            *)
Abstract == INSTANCE OrderedTable WITH
  pairs <- [i \in 1..t.count |-> [key |-> t.table[Linked(t)[i]].k,
                                  val |-> t.table[Linked(t)[i]].v]]

IsTable == Abstract!Init /\ [][t' # t => Abstract!Next]_t

(* All of it: json-c's objects keep their entries through every mix of     *)
(* adding, replacing, deleting and growing (linkhash.c).                   *)
ObjectSound == TypeOK /\ LinksSound /\ LookupFinds
===============================================================================
