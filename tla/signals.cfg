\* Any sequence of operations, one at a time; the bus accepts every rule.
SPECIFICATION Spec
CONSTANTS
  s1 = s1  s2 = s2  s3 = s3
  r1 = r1  r2 = r2
  n1 = n1  n2 = n2
  e1 = e1  e2 = e2  e3 = e3
  h1 = h1  h2 = h2
  None = None
  Paths = {s1, s2, s3}
  Rules = {r1, r2}
  RuleOf <- SignalRules
  Selective = {r2}
  Handlers = {h1, h2}
  Names = {n1, n2}
  Entries = {e1, e2, e3}
  NameOf <- EntryNames
  Overlap <- NoOverlap
  MatchFails = {}
  SizeT = 8
  MaxFilters = 3
  MaxConnects = 2
INVARIANT TypeOK
INVARIANT References
INVARIANT RulesAgree
