SPECIFICATION Spec
CONSTANTS
  Header = 5
  Bodies = {0, 2}
  MaxMsgs = 3
  Faults <- AllButStall
CHECK_DEADLOCK FALSE
INVARIANTS TypeOK FramesAreMessages NothingWithheld AnswerIsServed
PROPERTY MessagesArrive
