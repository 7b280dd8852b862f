SPECIFICATION Spec
CONSTANTS
  c1 = c1
  c2 = c2
  c3 = c3
  c4 = c4
  None = None
  Conns = {c1, c2, c3}
  Causes <- CloseCause
  MaxCalls = 2
  MaxFaults = 3
INVARIANTS LossWillBeReported NeverRestsWithoutStream
PROPERTIES StreamRecovers AppEventsServed
