\* Two services, two owners, a managed object.
SPECIFICATION Spec
CONSTANTS
  s1 = s1  s2 = s2
  u1 = u1  u2 = u2
  manager = manager  instance = instance
  managerIface = managerIface  iface = iface
  l1 = l1  l2 = l2  l3 = l3
  Root = Root
  None = None
  Services = {s1, s2}
  Owners = {u1, u2}
  Paths = {manager, instance}
  Objects = {managerIface, iface}
  PathOf <- MCPathOf
  Above <- MCAbove
  Parent <- MCManagerOf
  ManagerOf <- MCManagerOf
  Listeners = {l1, l2, l3}
  ServiceOf <- MCServiceOf
  ObjectOf <- MCObjectOf
  Reclaims = FALSE
  MaxEvents = 4
  Calls = 256
\* The system comes to rest once all events have happened.
CHECK_DEADLOCK FALSE
SYMMETRY MCSymmetry
INVARIANT TypeOK
INVARIANT OwnersTracked
INVARIANT PendingExact
INVARIANT ListenersInformed
