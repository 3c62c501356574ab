--------------------------------- MODULE IdTable ---------------------------------
(***************************************************************************)
(* What nng's core/idhash.h promises of a map from identifiers to things:  *)
(* a finite function, and identifiers drawn from a range that are not in   *)
(* use.                                                                    *)
(***************************************************************************)
EXTENDS Integers, Functions, TLC

CONSTANTS
  Ids,     \* the identifiers a user may set
  Values,
  Lo, Hi   \* the range nni_id_alloc draws from

VARIABLE table

Init == table = <<>>

With(id, v) == (id :> v) @@ table

Set(id, v) == table' = With(id, v)

Remove(id) == id \in DOMAIN table /\ table' = Restrict(table, DOMAIN table \ {id})

Alloc(id, v) == id \in Lo..Hi /\ id \notin DOMAIN table /\ table' = With(id, v)

Next ==
  \/ \E id \in Ids, v \in Values : Set(id, v)
  \/ \E id \in DOMAIN table : Remove(id)
  \/ \E id \in Lo..Hi, v \in Values : Alloc(id, v)

Spec == Init /\ [][Next]_table
=============================================================================
