SPECIFICATION Spec
CONSTANTS
  bob = bob
  carol = carol
  hello = hello
  text = text
  text2 = text2
  None = None
  Contacts = {bob}
  Msgs = {hello, text, text2}
  InitMsgs = {hello}
  Sender <- MCSender
  Faults <- CodecFaults
  MaxEpoch = 2
  MaxSent = 0
  MaxOtpk = 1
  MaxSpk = 0
  MaxCrashes = 2
INVARIANTS ShownOncePerProcess OneLostPerCrash
