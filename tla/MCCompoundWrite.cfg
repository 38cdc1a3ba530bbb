\* Two writers, two emails in one thread of a lead and two in one of a staging
\* lead, one of them executed twice, any rows there before.
CONSTANTS
  w1 = w1
  w2 = w2
  l1 = l1
  s1 = s1
  t1 = t1
  t2 = t2
  u1 = u1
  e1 = e1
  e2 = e2
  e3 = e3
  f1 = f1
  f2 = f2
  Writer = {w1, w2}
  Lead = {l1, s1}
  Thread = {t1, u1}
  Email = {e1, e2, f1, f2}
  leadOf <- Leads
  threadOf <- Threads
  Staging = {s1}
  MaxRuns <- Runs
  MaxFaults = 1
  MaxMishaps = 1
  NoEmail = NoEmail
SPECIFICATION Spec
CHECK_DEADLOCK FALSE
SYMMETRY Writers
INVARIANTS
  TypeOK
  StoredIsKept
  FailureLeavesNothing
PROPERTY StageResurrectsNobody
