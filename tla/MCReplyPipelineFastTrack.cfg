SPECIFICATION Spec
CONSTANTS
  a = a
  b = b
  NoJob = NoJob
  Email = {a}
  Source <- MCNew
  Score <- MCFast
  Routing = {"inbound"}
  Window = 1
  MaxDeliveries = 2
  MaxMishaps = 0
  Allowed <- MCQuiet
INVARIANTS FastTrackIsStored
CHECK_DEADLOCK FALSE
