SPECIFICATION Spec
CONSTANTS
  None = None
  Faults <- NoFaults
  Lives = {4, 7}
  Lead = 5
  Floor = 1
  Slack = 1
  MaxTime = 8
  MaxTokens = 3
  MaxRestarts = 1
INVARIANT LogoutRevokes
