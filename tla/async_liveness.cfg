\* Answers, deletions and disconnect() under fairness, with the own main loop.
SPECIFICATION FairSpec
CONSTANTS
  c1 = c1  c2 = c2  c3 = c3
  p1 = p1  p2 = p2  p3 = p3
  t1 = t1  t2 = t2
  None = None
  Calls = {c1, c2}
  Infinite = {}
  Threads = {t1}
  Pendings = {p1}
  Addresses <- AnyAddress
  OwnLoop = TRUE
  MaxConnects = 2
\* The system comes to rest once every call is made and the connection closed.
CHECK_DEADLOCK FALSE
INVARIANT StaleEntryFinished
PROPERTY CallsComplete
