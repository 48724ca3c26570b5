CONSTANTS
  t1 = t1
  t2 = t2
  t3 = t3
  NoServer = 0
  Server = {1, 2, 3}
  Account = {1, 2, 3, 4}
  Tid = {t1, t2, t3}
  total_clients = 4
  num_clusters = 2
  cluster_size = 2
  ServerCluster <- ServerShards
  AccountCluster <- AccountShards
  InitialBalance = 10
  Txn <- Transfers
  Rows <- File
  MaxFailures = 1
SPECIFICATION FairSpec
CHECK_DEADLOCK FALSE
INVARIANT ClientTypeOK
INVARIANT VotesInFlight
INVARIANT RowsInOrder
PROPERTY ImplementsCoordinator
PROPERTY VotedEventuallyDecided
PROPERTY ExitCompletes
