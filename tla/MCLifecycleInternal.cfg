\* One process, so that only the hook chain matters.
CONSTANTS
  Process = {first}
  first = first
  First = first
  MaxReloads = 0
SPECIFICATION Spec
\* A server whose processes are all gone is at rest.
CHECK_DEADLOCK FALSE
INVARIANTS
  InternalCallsRun
