CONSTANTS
  w1 = w1
  w2 = w2
  Main = Main
  Nobody = Nobody
  Workers = {w1, w2}
  Files <- MCFiles
  SegCount <- MCSegCount
  Flushers <- MCFlushers
  MaxAttempts = 2
SPECIFICATION FairSpec
CHECK_DEADLOCK FALSE
INVARIANTS RecordIsHonest CleanMeansSaved DeliveredIsComplete
PROPERTIES SavedInOrder DownloadEnds
