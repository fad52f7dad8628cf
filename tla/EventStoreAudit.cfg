SPECIFICATION Spec
CONSTANTS
  t1 = t1
  t2 = t2
  a = a
  b = b
  u = u
  none = none
  Txs = {t1, t2}
  Accounts = {a, b}
  Users = {u}
  NoAccount = none
  Threads = {client, worker}
  Absent = absent
  Drafts <- MCDrafts
  MaxEvents = 3
  Exclusive = TRUE
INVARIANTS
  AuditTrailIsComplete
CHECK_DEADLOCK FALSE
