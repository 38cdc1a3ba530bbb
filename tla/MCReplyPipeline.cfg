SPECIFICATION Spec
CONSTANTS
  a = a
  b = b
  NoJob = NoJob
  Email = {a, b}
  Source <- MCSource
  Score <- MCScore
  Routing = {"inbound", "leads"}
  Window = 1
  MaxDeliveries = 2
  MaxMishaps = 2
  Allowed <- MCAllowed
INVARIANTS TypeOK CopiesPaidFor AckedIsHandled StraysPaidFor
PROPERTIES EveryEmailIsStored
CHECK_DEADLOCK FALSE
