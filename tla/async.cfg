\* Two senders, a call with and one without a timeout, no address reused.
SPECIFICATION Spec
CONSTANTS
  c1 = c1  c2 = c2  c3 = c3
  p1 = p1  p2 = p2  p3 = p3
  t1 = t1  t2 = t2
  None = None
  Calls = {c1, c2}
  Infinite = {c2}
  Threads = {t1, t2}
  Pendings = {p1, p2}
  Addresses <- OwnAddress2
  OwnLoop = FALSE
  MaxConnects = 1
\* The system comes to rest once every call is made and the connection closed.
CHECK_DEADLOCK FALSE
INVARIANT TypeOK
INVARIANT Ownership
INVARIANT NoDanglingHandler
PROPERTY ImplementsContract
