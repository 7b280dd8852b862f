SPECIFICATION Spec
CONSTANTS
  None = None
  Faults <- AllFaults
  Lives = {4, 7}
  Lead = 5
  Floor = 1
  Slack = 1
  MaxTime = 8
  MaxTokens = 3
  MaxRestarts = 1
INVARIANTS TypeOK SameTokens RefreshScheduled FreshWhileServed
PROPERTY SignedOutStaysOut
