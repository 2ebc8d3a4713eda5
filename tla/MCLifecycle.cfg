\* A process that loads the module twice, with a child and a grandchild.
CONSTANTS
  Process = {first, child, grandchild}
  first = first
  child = child
  grandchild = grandchild
  First = first
  MaxReloads = 1
SPECIFICATION Spec
\* A server whose processes are all gone is at rest.
CHECK_DEADLOCK FALSE
INVARIANTS
  TypeOK
  UserCallsReachZend
  WorkerHasBuffer
  ThreadNeverOverwritten
PROPERTIES
  FlushedBeforeFreed
