---------------------------- MODULE MCLogParser ----------------------------
(* Small instances of LogParser for TLC.                                   *)
EXTENDS LogParser, TLC

CONSTANTS p1, p2

OneParser == {p1}
TwoParsers == {p1, p2}
AllKinds == {"plain", "rejected", "poison"}
OnlyPlain == {"plain"}

Symmetry == Permutations(Parsers)
=============================================================================
