\* Two workers, one of them with the client that main() makes, and four requests,
\* of which the last does not parse; one email an hour, two attempts of the
\* harness, two deliveries; mishaps and changes of the hour as in MCAllowed.
CONSTANTS
  w1 = w1
  w2 = w2
  Worker = {w1, w2}
  Request = {1, 2, 3, 4}
  Steps <- Lists
  Leadless = {3}
  Malformed = {4}
  Decoder = {w1}
  HarnessRetries = 1
  MaxDeliveries = 2
  MaxPerHour = 1
  Allowed <- MCAllowed
  None = None
SPECIFICATION Spec
INVARIANTS
  TypeOK
  SendsPaidFor
  RecordsMatchSends
  HourlyLimit
  OkMeansSent
PROPERTY EveryRequestSettles
CHECK_DEADLOCK FALSE
