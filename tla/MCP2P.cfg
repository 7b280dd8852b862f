SPECIFICATION Spec
CONSTANTS
  None = None
  bob = bob
  lan = lan
  public = public
  call1 = call1
  call2 = call2
  call3 = call3
  Peers = {bob}
  Calls = {call1, call2, call3}
  Candidates = {lan, public}
  Priority <- MCPriority
  Offers <- BothOrNone
  MaxRecorded = 1
CHECK_DEADLOCK FALSE
INVARIANTS TypeOK StatsAddUp ConnectingIsAttended ConnectedIsEarned
           ReportsAreTrue
PROPERTY AttemptsConclude
