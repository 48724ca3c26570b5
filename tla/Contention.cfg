CONSTANTS
  s1 = s1
  s2 = s2
  s3 = s3
  s4 = s4
  a = a
  b = b
  c = c
  x = x
  t1 = t1
  t2 = t2
  NoServer = NoServer
  Server = {s1, s2, s3}
  Account = {a, b, c, x}
  ServerCluster <- OneCluster
  AccountCluster <- Shards
  InitialBalance = 10
  Tid = {t1, t2}
  Txn <- IntraTxns
  Leaders = {s1, s2}
  MaxBallot = 3
  Budget <- OneRestart
SPECIFICATION Spec
CHECK_DEADLOCK FALSE
CONSTRAINT FourCalls
INVARIANT TypeOK
INVARIANT DurableVotes
INVARIANT NoLostWakeup
INVARIANT ParkedCalls
PROPERTY AnsweredOnce
