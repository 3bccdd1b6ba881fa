\* One thread asks, callbacks ask too; two threads block.
SPECIFICATION FairSpec
CONSTANTS
  r1 = r1  r2 = r2  r3 = r3
  a1 = a1  b1 = b1  b2 = b2
  NoRequest = NoRequest
  Requests = {r1, r2}
  Callers = {a1}
  Blockers = {b1, b2}
  DispatchThread = TRUE
\* Every request is answered and the proxy is gone.
CHECK_DEADLOCK FALSE
INVARIANT ProxyTypeOK
INVARIANT ThreadReady
PROPERTY ImplementsContract
PROPERTY RequestsComplete
