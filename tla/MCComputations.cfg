SPECIFICATION MCSpec
CONSTANTS
  Half = 2
  OBJ_NUMB_MAX_SIZE = 2
  kMaxStages = 4
  kMaxDepth = 3
  MaxConf = 3
  kSample = 6
  kCellPercent = 15
  GridMin = 2
  GridMax = 4
  Second = 4
  TailMargin = 2
  WindowBack = 12
  WindowAhead = 3
  DynMin = 4
  DynMax = 7
  kPayloaderInternalPt = 4
INVARIANTS
  DecodingIsSound
  ObjectsAreSound
  SavedJobsRun
  ZonesFireAtTheirLevel
  RecordingsAreAddressed
  AnswerFitsOffer
CHECK_DEADLOCK FALSE
