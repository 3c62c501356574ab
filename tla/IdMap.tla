---------------------------------- MODULE IdMap ----------------------------------
(***************************************************************************)
(* The hash table behind nng's identifiers of sockets, contexts, dialers,  *)
(* listeners, pipes and requests (core/idhash.c).                          *)
(*                                                                         *)
(* Open addressing without tombstones: a cell counts the entries whose     *)
(* search passed over it (skips), so that a search ends at a cell nothing  *)
(* passed over; the table counts every step that placed an entry (load).   *)
(* Identifiers are words of Width bits; the real ones have 32.             *)
(***************************************************************************)
EXTENDS Integers, FiniteSets, FiniteSetsExt

CONSTANTS
  Width,    \* bits of an identifier
  Ids,      \* identifiers that users set and remove themselves
  Values,
  None,
  Lo, Hi,   \* id_min_val and id_max_val
  MaxCount  \* bound: entries

Word == 0..(2^Width - 1)

ASSUME IdAssumption ==
  /\ Width \in Nat /\ MaxCount \in Nat
  /\ Ids \subseteq Word /\ Lo \in Word /\ Hi \in Word /\ 0 < Lo /\ Lo < Hi
  /\ None \notin Values

VARIABLES
  entries,  \* id_entries, from 0
  cap, count, load, min_load, max_load,
  dyn_val

table == <<entries, cap, count, load, min_load, max_load>>
vars == <<table, dyn_val>>

Empty == [key |-> 0, skips |-> 0, val |-> None]

(* nni_id_map_init, with and without a random start.                       *)
Init ==
  /\ entries = <<>> /\ cap = 0 /\ count = 0 /\ load = 0 /\ min_load = 0 /\ max_load = 0
  /\ dyn_val \in Lo..Hi

-----------------------------------------------------------------------------
(* Searching.                                                              *)

(* The sizes a table can have.                                             *)
Caps == {2^k : k \in 3..Width + 1}

(* ID_INDEX and ID_NEXT: the cells visited from a cell on, in a table of   *)
(* each size.                                                              *)
Ways ==
  [n \in Caps |-> [start \in 0..n - 1 |->
     LET at[k \in 0..n - 1] == IF k = 0 THEN start ELSE (at[k - 1] * 5 + 1) % n
     IN [k \in 0..n - 1 |-> at[k]]]]

Probe(n, id) == Ways[n][id % n]

Hit(e, id) == e.key = id /\ e.val # None

(* id_find: the cell of id, None if there is none.                         *)
Find(id) ==
  IF count = 0 THEN None
  ELSE LET at == Probe(cap, id)
           ends == {k \in 0..cap - 1 : Hit(entries[at[k]], id) \/ entries[at[k]].skips = 0}
           last == at[Min(ends)]
       IN IF ends # {} /\ Hit(entries[last], id) THEN last ELSE None

(* Mutant: the cells on the way do not count what passes over them.        *)
Placed_NoSkips(es, n, id, v) ==
  LET at == Probe(n, id)
      k == Min({j \in 0..n - 1 : es[at[j]].val = None})
  IN [cells |-> [es EXCEPT ![at[k]].key = id, ![at[k]].val = v], steps |-> k + 1]

(* id placed in the first free cell of es on its way, the cells it passed  *)
(* over counted, and the number of cells visited.                          *)
Placed(es, n, id, v) ==
  LET at == Probe(n, id)
      k == Min({j \in 0..n - 1 : es[at[j]].val = None})
      passed == {at[j] : j \in 0..k - 1}
  IN [cells |-> [i \in 0..n - 1 |->
                   IF i \in passed THEN [es[i] EXCEPT !.skips = @ + 1]
                   ELSE IF i = at[k] THEN [es[i] EXCEPT !.key = id, !.val = v] ELSE es[i]],
      steps |-> k + 1]

-----------------------------------------------------------------------------
(* Resizing.                                                               *)

Current == [cells |-> entries, n |-> cap, load |-> load, lo |-> min_load, hi |-> max_load]

(* The capacity for c entries: a power of two, 8 at least.                 *)
CapFor(c) == Min({n \in Caps : n >= 2 * c})

(* The entries of t in n new cells, placed in the order of the old ones.   *)
Rebuilt(t, n) ==
  LET r[i \in 0..t.n] ==
        IF i = 0 THEN [cells |-> [j \in 0..n - 1 |-> Empty], steps |-> 0]
        ELSE LET e == t.cells[i - 1] IN
             IF e.val = None THEN r[i - 1]
             ELSE LET p == Placed(r[i - 1].cells, n, e.key, e.val)
                  IN [cells |-> p.cells, steps |-> r[i - 1].steps + p.steps]
  IN r[t.n]

LoadFits(t) == t.load < t.hi /\ t.load >= t.lo

(* id_resize of t, which holds c entries.                                  *)
Resized(t, c) ==
  LET n == CapFor(c) IN
  IF LoadFits(t) \/ n = t.n THEN t
  ELSE LET r == Rebuilt(t, n)
       IN [cells |-> r.cells, n |-> n, load |-> r.steps,
           lo |-> IF n > 8 THEN n \div 8 ELSE 0, hi |-> IF n > 8 THEN (n * 2) \div 3 ELSE 5]

Become(t, c) ==
  /\ entries' = t.cells /\ cap' = t.n /\ load' = t.load
  /\ min_load' = t.lo /\ max_load' = t.hi /\ count' = c

-----------------------------------------------------------------------------
(* Operations.                                                             *)

(* nni_id_set.                                                             *)
Put(id, v) ==
  LET t == Resized(Current, count)
      p == Placed(t.cells, t.n, id, v)
  IN \/ /\ Find(id) # None
        /\ LET i == CHOOSE j \in 0..t.n - 1 : Hit(t.cells[j], id)
           IN Become([t EXCEPT !.cells[i].val = v], count)
     \/ /\ Find(id) = None /\ count < MaxCount
        /\ Become([t EXCEPT !.cells = p.cells, !.load = @ + p.steps], count + 1)

Set(id, v) == Put(id, v) /\ UNCHANGED dyn_val

Unskipped(passed, i) ==
  [j \in 0..cap - 1 |-> IF j \in passed THEN [entries[j] EXCEPT !.skips = @ - 1]
                        ELSE IF j = i THEN [entries[j] EXCEPT !.key = 0, !.val = None]
                        ELSE entries[j]]

(* nni_id_remove: the way to the entry is walked again.  The table then    *)
(* shrinks, if there is memory for that.                                   *)
Remove(id, memory) ==
  /\ Find(id) # None
  /\ LET at == Probe(cap, id)
         k == Min({j \in 0..cap - 1 : at[j] = Find(id)})
         t == [Current EXCEPT !.cells = Unskipped({at[j] : j \in 0..k - 1}, at[k]),
                              !.load = @ - (k + 1)]
     IN Become(IF memory THEN Resized(t, count - 1) ELSE t, count - 1)
  /\ UNCHANGED dyn_val

(* id_dyn_val after d, a word that overflows.                              *)
NextDyn(d) == LET n == (d + 1) % 2^Width IN IF n > Hi THEN Lo ELSE n

(* nni_id_alloc: the first identifier from id_dyn_val on that is not used. *)
Alloc(v) ==
  /\ count <= Hi - Lo
  /\ LET d[k \in 0..count + 1] == IF k = 0 THEN dyn_val ELSE NextDyn(d[k - 1])
         k == Min({j \in 0..count : Find(d[j]) = None})
     IN Put(d[k], v) /\ dyn_val' = d[k + 1]

Next ==
  \/ \E id \in Ids, v \in Values : Set(id, v)
  \/ \E id \in Word, memory \in BOOLEAN : Remove(id, memory)
  \/ \E v \in Values : Alloc(v)

Spec == Init /\ [][Next]_vars

-----------------------------------------------------------------------------
(* Properties.                                                             *)

Used == {i \in DOMAIN entries : entries[i].val # None}

(* The cells that are passed over on the way to the entry in cell i.       *)
WayTo(i) ==
  LET at == Probe(cap, entries[i].key)
      k == Min({j \in 0..cap - 1 : at[j] = i})
  IN {at[j] : j \in 0..k - 1}

TypeOK ==
  /\ cap \in {0} \cup Caps
  /\ entries \in [0..cap - 1 -> [key : Word, skips : Nat, val : Values \cup {None}]]
  /\ count = Cardinality(Used) /\ count <= MaxCount
  /\ load \in Nat /\ min_load \in Nat /\ max_load \in Nat /\ dyn_val \in Word

(* The counts of id_entries are exact: a cell's skips are the entries that *)
(* passed over it, the load is every cell visited (nni_id_remove asserts   *)
(* that it does not count below zero).                                     *)
CountsExact ==
  /\ \A i \in DOMAIN entries : entries[i].skips = Cardinality({j \in Used : i \in WayTo(j)})
  /\ load = FoldSet(LAMBDA i, n : n + Cardinality(WayTo(i)) + 1, 0, Used)

(* A search finds every entry, in a table that shrank, grew and lost       *)
(* others on the way.                                                      *)
FindFinds == \A i \in Used : Find(entries[i].key) = i

(* Placing an entry ends, soon: however the table came to its size, it has *)
(* a third of its cells free (the loop of nni_id_set has no other end).    *)
NeverFull == count <= max_load /\ (cap > 0 => 3 * count <= 2 * cap)

(* The table is the map it stands for (IdTable): every change of it is an  *)
(* operation of the map (the premise only says so once more, for TLC).     *)
Stands ==
  [id \in {entries[i].key : i \in Used} |->
     entries[CHOOSE i \in Used : entries[i].key = id].val]

Abstract == INSTANCE IdTable WITH table <- Stands

IsTable == Abstract!Init /\ [][table' # table => Abstract!Next]_table

(* req0_sock_init: "Request IDs are 32 bits, with the high order bit set." *)
AllocInRange == dyn_val \in Lo..Hi

(* Through every mix of sets, removals, growing and shrinking the counts   *)
(* of the table stay exact, searches find, and there is a free cell        *)
(* (core/idhash.c).                                                        *)
TableSound == TypeOK /\ CountsExact /\ FindFinds /\ NeverFull

=============================================================================
