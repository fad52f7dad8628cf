SPECIFICATION Spec
CONSTANTS
  t1 = t1
  t2 = t2
  a = a
  b = b
  u = u
  none = none
  Txs = {t1, t2}
  Accounts = {a, b}
  Users = {u}
  NoAccount = none
  Threads = {client, worker}
  Absent = absent
  Drafts <- MCDrafts
  MaxEvents = 4
  Exclusive = TRUE
INVARIANTS
  TypeOK
  TransactionTrailIsExact
  LossNeedsRacingCreation
PROPERTIES
  HistoryOnlyGrows
CHECK_DEADLOCK FALSE
