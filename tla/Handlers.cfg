SPECIFICATION DirectSpec
CONSTANTS
  a = a
  b = b
  Accounts = {a, b}
  NoAccount = none
  Txs = {t1, t2}
  NoTx = noTx
  Threads = {t1, t2}
  Contexts <- MCContexts
  OpeningFunds <- MCFunds
INVARIANT
  NoDoubleSpending
CHECK_DEADLOCK FALSE
