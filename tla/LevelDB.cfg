CONSTANTS
  w1 = w1
  w2 = w2
  Thread = {w1, w2}
  Key = {1, 2}
  NoValue = NoValue
  Reads <- OneReader
  Builds = {"debug", "release"}
  WriteBufferSize = 0
  L0_CompactionTrigger = 1
  L0_SlowdownWritesTrigger = 1
  L0_StopWritesTrigger = 2
  NumLevels = 3
  MaxMemCompactLevel = 2
  MaxLevelEntries = 2
  MaxOutputEntries = 1
  MaxPuts = 3
  MaxCrashes = 1
  MaxFaults = 1
SPECIFICATION LevelDBFairSpec
CHECK_DEADLOCK FALSE
INVARIANT NeededFilesKept
INVARIANT LevelDBTypeOK
INVARIANT LevelsDisjoint
INVARIANT MemtablesLogged
INVARIANT MemoryMatchesDisk
INVARIANT StableReads
PROPERTY ImplementsKVStore
PROPERTY CallsReturn
