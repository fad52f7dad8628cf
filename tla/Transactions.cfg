SPECIFICATION FairSpec
CONSTANTS
  a = a
  b = b
  none = none
  Accounts <- MCAccounts
  NoAccount = none
  Txs = {t1, t2}
  NoTx = noTx
  Worker = worker
  Threads = {worker}
  Contexts <- MCContexts
  OpeningFunds <- MCFunds
  MaxQueue = 1
INVARIANTS
  TypeOK
  NoOverdraft
  ReadsAreCurrent
  ReplayRestoresFunds
  RecordedBalancesAreTrue
  TrailTellsOutcome
  HeldOnce
  StatusIsFound
  StatsMatchOutcomes
PROPERTIES
  StateAdvances
  QueuedIsDecided
  StopEndsWorker
  RefinesLedger
