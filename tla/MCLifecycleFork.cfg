\* A prefork server: the module is loaded, then a child is forked that serves the requests.
CONSTANTS
  Process = {first, child}
  first = first
  child = child
  First = first
  MaxReloads = 0
SPECIFICATION Spec
\* A server whose processes are all gone is at rest.
CHECK_DEADLOCK FALSE
INVARIANTS
  RunningMeansAlive
