\* Two processes, three entries read in batches of two.  The first does not parse: a
\* batch begins with it, or has two entries that parse.  Two of raised calls, a
\* SIGTERM and a kill.
CONSTANTS
  w1 = w1
  w2 = w2
  Worker = {w1, w2}
  Name <- OwnPid
  NumTasks = 3
  Malformed = {1}
  Batch = 2
  MaxRetries = 2
  DlqEnabled = TRUE
  MaxFaults = 2
  MaxStops = 1
  MaxCrashes = 1
  MaxTrouble = 2
  NoOne = NoOne
SPECIFICATION Spec
INVARIANTS
  TypeOK
  LossPaidFor
  DuplicatesPaidFor
PROPERTIES
  EveryTaskSettles
