\* Two producers and one exporter thread on a ring of two slots, drained one span at a time.
CONSTANTS
  p1 = p1
  p2 = p2
  c1 = c1
  Nobody = Nobody
  Capacity = 2
  Producers <- TwoProducers
  Consumers <- OneConsumer
  MaxCounts <- OneAtATime
  MaxSpans = 3
SPECIFICATION FairSpec
PROPERTIES
  EverySpanIsTaken
  DrainReturns
  PushReturns
