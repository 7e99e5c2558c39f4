\* The catchup decoder (no relaxed type): the checksum is the checklist.
CONSTANTS
  id = id  name = name  logo = logo  output = output
  Counted <- MCCounted
  Exempt <- MCExempt
  PARTS = PARTS
  PROXY = PROXY
  VOD_PROXY = VOD_PROXY
  CATCHUP = CATCHUP
  RELAY = RELAY
  StreamTypes = {CATCHUP}
  Decoders = {"catchup"}
SPECIFICATION Spec
CHECK_DEADLOCK FALSE
INVARIANTS TypeOK AcceptedIsComplete CompleteIsAccepted
