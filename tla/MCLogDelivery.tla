---------------------------- MODULE MCLogDelivery ----------------------------
(* Small instances of LogDelivery for TLC.                                 *)
EXTENDS LogDelivery, TLC

CONSTANTS t1, t2, m1, m2, m3

OneTracer == {t1}
TwoTracers == {t1, t2}
TwoEvents == {m1, m2}
ThreeEvents == {m1, m2, m3}
NoneQuoted == {}
OneQuoted == {m1}

TracerSymmetry == Permutations(Tracers)
==============================================================================
