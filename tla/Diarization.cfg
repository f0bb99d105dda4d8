SPECIFICATION FairSpec
CONSTANTS
  MaxWindows = 6
  BatchSizes = {1, 4}
  PoolSizes = {0, 1, 3}
  FBANK_BATCH_SIZE = 4
  MayFail = TRUE
  Blank = Blank
  MaxEmbeddings = 6
  BLOCK = 2
  PdistWorkers = {p1, p2}
  Unset = Unset
INVARIANTS TypeOK RowsMatch OkIsComplete BlameIsDeserved FirstFailureIsReported SlicesFit CondensedIsInOrder
PROPERTIES DiarizationEnds EmbedsInOrder
