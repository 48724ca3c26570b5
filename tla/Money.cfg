CONSTANTS
  s1 = s1
  s2 = s2
  s3 = s3
  s4 = s4
  a = a
  b = b
  c = c
  x = x
  t1 = t1
  t2 = t2
  NoServer = NoServer
  Server = {s1, s2, s3, s4}
  Account = {a, b, c, x}
  ServerCluster <- TwoClusters
  AccountCluster <- Shards
  InitialBalance = 10
  Tid = {t1, t2}
  Txn <- CrossTxns
  Leaders = {s1, s3}
  MaxBallot = 2
  Budget <- OneUnreachable
SPECIFICATION Spec
CHECK_DEADLOCK FALSE
INVARIANT MoneyConserved
PROPERTY ServersFollowCoordinator
