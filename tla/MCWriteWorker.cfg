\* Two workers; an entry that does not parse, one whose last retry goes to the dead
\* letters and one whose last retry is reported; any two troubles.
CONSTANTS
  w1 = w1
  w2 = w2
  Worker = {w1, w2}
  NumTasks = 3
  Malformed = {1}
  LastTry = {2}
  MaxRetries = 1
  DlqEnabled = TRUE
  Allowed <- TwoTroubles
SPECIFICATION Spec
INVARIANTS
  TypeOK
  WorkIsExclusive
  RepetitionPaidFor
  AckedIsAnswered
  StrandedPaidFor
PROPERTIES
  EveryTaskIsLetGo
  ShutdownEnds
