SPECIFICATION Spec
CONSTANTS
  a = a
  b = b
  l = l
  s = s
  Attributes = {a}
  Broadcasts = {b}
  Legacy = {l}
  Selectives = {s}
  StatusEvent = StatusEvent
  None = None
  MaxTags = 2
  MaxToggles = 2
CHECK_DEADLOCK FALSE
INVARIANT TypeOK
INVARIANT SubscriptionsMatch
INVARIANT ListenersServed
