\* Two PHP threads that push or read the counters, one exporter thread, and a ring of three
\* slots that four pushes wrap.
CONSTANTS
  p1 = p1
  p2 = p2
  c1 = c1
  Nobody = Nobody
  Capacity = 3
  Producers <- TwoProducers
  Consumers <- OneConsumer
  MaxCounts <- DrainSizes
  MaxSpans = 4
SPECIFICATION StatusSpec
SYMMETRY ProducersAlike
CONSTRAINTS OneReader ReadersAreGone
ACTION_CONSTRAINT ReaderReturns
INVARIANTS
  TypeOK
  SlotExclusive
  Fifo
  NeverSpins
  EveryPushAccountedFor
  StatusMakesSense
PROPERTIES
  ImplementsQueue
