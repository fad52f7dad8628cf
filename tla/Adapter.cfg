SPECIFICATION AdapterSpec
CONSTANTS
  a = a
  none = none
  Accounts = {a}
  NoAccount = none
  Txs = {t1}
  NoTx = noTx
  Worker = worker
  Threads = {worker, t1}
  Contexts <- MCContexts
  OpeningFunds <- MCFunds
  MaxQueue = 1
INVARIANT
  MovedAtMostOnce
CHECK_DEADLOCK FALSE
