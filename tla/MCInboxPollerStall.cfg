\* A poller, a limit of one entry, nothing fails: is the second mail ever handled?
CONSTANTS
  p1 = p1
  m1 = m1
  m2 = m2
  Hook = Hook
  NoMail = NoMail
  Poller = {p1}
  Boxed = {m1, m2}
  Pushed = {}
  Junk = {}
  MaxResults = 1
  MaxPending = 1
  MaxMishaps = 0
SPECIFICATION Spec
PROPERTY BackpressurePasses
