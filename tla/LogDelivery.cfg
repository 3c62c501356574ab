\* Two tracers, two events, one of them unstorable; two faults.
SPECIFICATION Spec
CONSTANTS
  t1 = t1
  t2 = t2
  m1 = m1
  m2 = m2
  m3 = m3
  Tracers <- TwoTracers
  Events <- TwoEvents
  Quoted <- OneQuoted
  MaxConn = 1
  MaxFaults = 2
  MaxSend = 2
INVARIANTS
  AckedIsStored
  CopiesConserved
  HeldOnce
  UndialedIsStuck
  InnocentRefusedOnlyByLeaks
SYMMETRY TracerSymmetry
CHECK_DEADLOCK FALSE
