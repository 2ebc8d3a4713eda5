\* One request without fibers, user and internal calls and a manual span.
CONSTANTS
  f1 = f1
  Fiber <- NoFiber
  TracedKinds <- BothKinds
  MaxDepth = 2
  MaxRequests = 1
  MaxNesting = 4
  MaxCalls = 3
  MaxIds = 5
  MaxManual = 1

SPECIFICATION Spec

INVARIANTS
  TypeOK
  ContextMatchesStack
  StartsMatch
  ParentsWerePushed
