\* Four spans through a buffer of three, batches of two, one retry, one restart.
CONSTANTS
  Bound = 3
  BatchSize = 2
  MaxRetries = 1
  MaxSpans = 4
  MaxStarts = 2
SPECIFICATION FairSpec
\* With no span left to offer and no start left to make, a stopped exporter is at rest.
CHECK_DEADLOCK FALSE
INVARIANTS
  TypeOK
  NothingVanishes
  DuplicatesAreBounded
  CountersCoverSpans
  ExportedIsStored
  StopFlushes
  StopIsBounded
PROPERTIES
  EverySpanIsTaken
  StopReturns
