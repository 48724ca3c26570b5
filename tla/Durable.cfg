CONSTANTS
  s1 = s1
  acc1 = acc1
  acc2 = acc2
  acc3 = acc3
  t1 = t1
  t2 = t2
  NoServer = NoServer
  Server = {s1}
  Account = {acc1, acc2, acc3}
  ServerCluster <- OneServer
  AccountCluster <- Shards
  InitialBalance = 10
  Tid = {t1, t2}
  Txn <- Transfers
  Me = s1
  MaxChunks = 3
  MaxBallot = 2
  MaxSync = 2
  Crashes = 2
  Errors = 1
  Tears = 1
SPECIFICATION Spec
CHECK_DEADLOCK FALSE
INVARIANT DurableTypeOK
INVARIANT IndexReadsPrepare
INVARIANT LossPerTear
INVARIANT RestartIsExact
INVARIANT DriftIsExplained
