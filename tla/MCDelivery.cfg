SPECIFICATION Spec
CONSTANTS
  bob = bob
  None = None
  Last = 2
  Firsts = {1}
  Contacts = {bob}
  Sender <- OneSender
  MaxAttempts = 2
  MaxStreams = 2
  MaxCopies = 2
  MaxFrames = 1
  Faults <- AllFaults
INVARIANTS TypeOK NoGap AckedOnlyRead HealingAttended
PROPERTIES ImplementsFeed InFlightEnds
