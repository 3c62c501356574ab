------------------------------ MODULE OrderedTable ------------------------------
(***************************************************************************)
(* What a JSON object promises: names with values, each name once, in the  *)
(* order in which they were added; a name that is added again keeps its    *)
(* place.                                                                  *)
(***************************************************************************)
EXTENDS Naturals, Sequences, SequencesExt

CONSTANTS Keys, Values

VARIABLE pairs

Init == pairs = <<>>

PlaceOf(k) == {i \in DOMAIN pairs : pairs[i].key = k}

Add(k, v) ==
  pairs' = IF PlaceOf(k) = {} THEN Append(pairs, [key |-> k, val |-> v])
           ELSE [i \in DOMAIN pairs |-> IF i \in PlaceOf(k) THEN [key |-> k, val |-> v]
                                        ELSE pairs[i]]

Del(k) == \E i \in PlaceOf(k) : pairs' = RemoveAt(pairs, i)

Next == \E k \in Keys : Del(k) \/ \E v \in Values : Add(k, v)

Spec == Init /\ [][Next]_pairs
===============================================================================
