\* Primary tables, one upsert that fails: does a rollback delete only what it created?
CONSTANTS
  w1 = w1
  w2 = w2
  l1 = l1
  s1 = s1
  t1 = t1
  t2 = t2
  u1 = u1
  e1 = e1
  e2 = e2
  e3 = e3
  f1 = f1
  f2 = f2
  Writer = {w1, w2}
  Lead = {l1}
  Thread = {t1, t2}
  Email = {e1, e2, e3}
  leadOf <- Leads
  threadOf <- Threads
  Staging = {}
  MaxRuns <- Runs
  MaxFaults = 1
  MaxMishaps = 0
  NoEmail = NoEmail
SPECIFICATION Spec
PROPERTY RollbackDeletesCreated
