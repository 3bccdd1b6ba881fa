\* One managed instance, two queries, two listeners, a restart of the service.
SPECIFICATION Spec
CONSTANTS
  inst = inst  manager = manager
  q1 = q1  q2 = q2  l1 = l1  l2 = l2
  None = None
  Instances = {inst}
  Manager = manager
  Queries = {q1, q2}
  Listeners = {l1, l2}
  MaxGenerations = 2
  MaxChanges = 3
  MaxToggles = 2
  MaxFailures = 1
\* Queries, listeners and the service stop at their bounds.
CHECK_DEADLOCK FALSE
INVARIANT TypeOK
INVARIANT EventsAgree
INVARIANT CacheTrue
PROPERTY StatusTrue
SYMMETRY MCSymmetry
