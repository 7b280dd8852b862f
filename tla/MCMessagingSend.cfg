SPECIFICATION Spec
CONSTANTS
  bob = bob
  carol = carol
  hello = hello
  text = text
  text2 = text2
  None = None
  Contacts = {bob, carol}
  Msgs = {hello, text}
  InitMsgs = {hello}
  Sender <- MCSender
  Faults <- NoFaults
  MaxEpoch = 2
  MaxSent = 2
  MaxOtpk = 1
  MaxSpk = 1
  MaxCrashes = 1
INVARIANTS TypeOK CrashSafe NoKeyReuse EstablishedIsPersisted
PROPERTY WritesAhead
