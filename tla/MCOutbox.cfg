SPECIFICATION Spec
CONSTANTS
  m1 = m1
  m2 = m2
  m3 = m3
  Other = Other
  Msgs = {m1, m2, m3}
  Buffer = 2
  Depth = 1
  MaxStreams = 2
  Faults <- Unhindered
INVARIANTS TypeOK AtMostOnce NoHole
PROPERTIES AcceptedAnswered ImplementsCourier
