SPECIFICATION Spec
SYMMETRY Interchangeable
CONSTANTS
  Tabs = {t1, t2}
  Queries = {q1, q2}
  NoQuery = NoQuery
  Sessions = {s1, s2}
  NoSession = NoSession
  Limit = 1
  MaxChunks = 2
  MaxReloads = 1
INVARIANTS
  OwnContent
