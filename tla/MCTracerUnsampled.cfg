\* An unsampled request pushes a span.
CONSTANTS
  f1 = f1
  Fiber <- NoFiber
  TracedKinds <- UserOnly
  MaxDepth = 0
  MaxRequests = 1
  MaxNesting = 2
  MaxCalls = 2
  MaxIds = 4
  MaxManual = 1

SPECIFICATION Spec

INVARIANT UnsampledPushesNothing
