CONSTANTS
  s1 = s1
  s2 = s2
  s3 = s3
  s4 = s4
  a = a
  b = b
  c = c
  x = x
  t1 = t1
  t2 = t2
  NoServer = NoServer
  Server = {s1, s2, s3}
  Account = {a, x}
  ServerCluster <- OneCluster
  AccountCluster <- Shards
  InitialBalance = 10
  Tid = {t1}
  Txn <- OneCrossTxn
  Leaders = {s1}
  MaxBallot = 3
  Budget <- Outage
SPECIFICATION FairSpec
CHECK_DEADLOCK FALSE
INVARIANT VotesAccounted
PROPERTY EventuallyAnswered
PROPERTY PreparedEventuallyClosed
