\* A poller and the webhook, which is also told of m2; m1 is junk to the
\* pre-filter; two raised calls or crashes.
CONSTANTS
  p1 = p1
  m1 = m1
  m2 = m2
  Hook = Hook
  NoMail = NoMail
  Poller = {p1}
  Boxed = {m1, m2}
  Pushed = {m2}
  Junk = {m1}
  MaxResults = 2
  MaxPending = 3
  MaxMishaps = 2
SPECIFICATION Spec
INVARIANTS
  TypeOK
  OnePerLife
  ReadIsHandled
  LossPaidFor
PROPERTY UnreadIsHandled
