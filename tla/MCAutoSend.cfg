\* Two consumers, one reply with any kind of booking, two harness attempts, two
\* deliveries.  Unless its booking cannot be parsed, two mishaps: raised calls,
\* SIGTERMs, crashes or repeated answers.  The Copywriter answers the second
\* request without a body.  No reply has as many as five requests.
CONSTANTS
  w1 = w1
  w2 = w2
  Worker = {w1, w2}
  NumReplies = 1
  Bodiless = {2}
  HarnessRetries = 1
  MaxRetries = 2
  MaxCopies = 5
  MaxAnswers = 2
  MaxMishaps <- Mishaps
  NoOne = NoOne
SPECIFICATION Spec
INVARIANTS
  TypeOK
  OneSendPerAnswer
  CopiesPaidFor
PROPERTY ReplyIsSent
