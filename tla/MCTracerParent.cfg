\* Nested calls: the inner span does not name the outer one.
CONSTANTS
  f1 = f1
  Fiber <- NoFiber
  TracedKinds <- UserOnly
  MaxDepth = 0
  MaxRequests = 1
  MaxNesting = 2
  MaxCalls = 2
  MaxIds = 4
  MaxManual = 0

SPECIFICATION Spec

INVARIANT ParentIsCaller
