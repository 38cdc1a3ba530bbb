SPECIFICATION Spec
CONSTANTS
  a = a
  b = b
  NoJob = NoJob
  Email = {a}
  Source <- MCSource
  Score <- MCScore
  Routing = {"inbound"}
  Window = 1
  MaxDeliveries = 2
  MaxMishaps = 0
  Allowed <- MCQuiet
PROPERTIES ReplyPacketIsChained
CHECK_DEADLOCK FALSE
