\* Two requests with a fiber and fatal errors, user calls traced.
CONSTANTS
  f1 = f1
  Fiber <- OneFiber
  TracedKinds <- UserOnly
  MaxDepth = 2
  MaxRequests = 2
  MaxNesting = 3
  MaxCalls = 3
  MaxIds = 5
  MaxManual = 0

SPECIFICATION Spec

INVARIANTS
  ContextMatchesStack
  NestingIsLimited
  EveryCallAccountedFor
  CallSpansHaveTrace
  ParentsWerePushed
