------------------------------- MODULE Dictionary -------------------------------
(***************************************************************************)
(* The table iniparser keeps a configuration file in (dictionary.c): three *)
(* arrays with holes where keys were removed, and the number of keys in    *)
(* use, at which the search for a hole begins.                             *)
(***************************************************************************)
EXTENDS Integers, FiniteSets, FiniteSetsExt

CONSTANTS
  Keys, Values,
  None,      \* NULL
  MinSize,   \* DICTMINSZ
  MaxKeys    \* bound: entries

DictionaryAssumption ==
  MinSize \in Nat \ {0} /\ MaxKeys \in Nat /\ None \notin Keys \cup Values

VARIABLES
  key, val,   \* from 0
  size, n

vars == <<key, val, size, n>>

(* dictionary_new; the key with the hash beside it is modelled by the key.  *)
Init ==
  /\ size = MinSize /\ n = 0
  /\ key = [i \in 0..size - 1 |-> None] /\ val = [i \in 0..size - 1 |-> None]

Slots(k) == {i \in 0..size - 1 : key[i] = k}

(* dictionary_get: the first slot that has the key.                        *)
Get(k, def) == IF Slots(k) = {} THEN def ELSE val[Min(Slots(k))]

(* dictionary_grow.                                                        *)
Grown(f, new) == [i \in 0..new - 1 |-> IF i < size THEN f[i] ELSE None]

(* dictionary_set of a key that is there; v may be NULL.                   *)
SetOld(k, v) ==
  /\ n > 0 /\ Slots(k) # {}
  /\ val' = [val EXCEPT ![Min(Slots(k))] = v]
  /\ UNCHANGED <<key, size, n>>

(* dictionary_set of a new key: into the first hole from slot n on, around *)
(* the end; memory does not run out.                                       *)
SetNew(k, v) ==
  /\ Slots(k) = {} /\ n < MaxKeys
  /\ LET new == IF n = size THEN 2 * size ELSE size
         ks == Grown(key, new)
         steps == {j \in 0..new - 1 : ks[(n + j) % new] = None}
         i == (n + Min(steps)) % new
     IN /\ key' = [ks EXCEPT ![i] = k]
        /\ val' = [Grown(val, new) EXCEPT ![i] = v]
        /\ size' = new
  /\ n' = n + 1

Set(k, v) == SetOld(k, v) \/ SetNew(k, v)

(* dictionary_unset.                                                       *)
Unset(k) ==
  /\ Slots(k) # {}
  /\ key' = [key EXCEPT ![Min(Slots(k))] = None]
  /\ val' = [val EXCEPT ![Min(Slots(k))] = None]
  /\ n' = n - 1
  /\ UNCHANGED size

Next == \E k \in Keys : Unset(k) \/ \E v \in Values \cup {None} : Set(k, v)

Spec == Init /\ [][Next]_vars

-----------------------------------------------------------------------------
(* Properties.                                                             *)

InUse == {i \in 0..size - 1 : key[i] # None}

TypeOK ==
  /\ size >= MinSize /\ n \in 0..MaxKeys
  /\ key \in [0..size - 1 -> Keys \cup {None}]
  /\ val \in [0..size - 1 -> Values \cup {None}]

(* n counts the keys, so that there is a hole whenever one is looked for   *)
(* (dictionary_set inserts "in the first empty slot", from slot n on), and *)
(* no key is in two slots.                                                 *)
SlotsSound ==
  /\ n = Cardinality(InUse) /\ n <= size
  /\ \A i, j \in InUse : key[i] = key[j] => i = j

(* It is the map of keys to values it stands for (IdTable), through        *)
(* growing, removing and setting again.                                    *)
Abstract == INSTANCE IdTable WITH
  Ids <- Keys, Values <- Values \cup {None}, Lo <- 1, Hi <- 0,
  table <- [k \in {key[i] : i \in InUse} |-> Get(k, None)]

IsTable == Abstract!Init /\ [][vars' # vars => Abstract!Next]_vars

DictionarySound == TypeOK /\ SlotsSound
===============================================================================
