SPECIFICATION BrowserSpec
SYMMETRY Interchangeable
CONSTANTS
  Tabs = {t1, t2}
  Queries = {q1, q2}
  NoQuery = NoQuery
  Sessions = {s1, s2}
  NoSession = NoSession
  Limit = 2
  MaxChunks = 2
  MaxReloads = 1
  MaxSends = 3
  MaxChoices = 1
INVARIANTS
  BrowserTypeOK
  OneStream
  FiledWhereAsked
  SavedSettled
  NoChunkLost
  OwnUnlessAdopted
  DeletedStaysGone
  ShownIsLatest
PROPERTIES
  SavedGrows
