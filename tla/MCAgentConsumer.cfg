\* Two workers, one of them with the client main() builds, two entries of which
\* the second does not parse, two raised Redis calls and one crash.
CONSTANTS
  w1 = w1
  w2 = w2
  Worker = {w1, w2}
  Decoder = {w1}
  NumTasks = 2
  Malformed = {2}
  MaxRetries = 3
  DlqEnabled = TRUE
  MaxFaults = 2
  MaxCrashes = 1
  NoOne = NoOne
SPECIFICATION Spec
INVARIANTS
  TypeOK
  DeadOnlyAfterRetries
  DuplicatesPaidFor
PROPERTIES
  AtLeastOnce
  EveryTaskSettles
