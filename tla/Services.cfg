SPECIFICATION Spec
CONSTANTS
  StepCount = 2
  MaxRetries = 2
  Requests = {r1, r2}
  MaxOverwrites = 1
  Lines <- MCLines
  MaxLines = 2
  Short = s
  Hash = hash
  Bar = bar
  Marker = marker
  SearchWords = 3
  RowWidth <- MCRows
  RowsTouch = TRUE
  wordA = wordA
  wordB = wordB
  wordC = wordC
  MaxLength = 4
  MaxLevel = 3
  KeyCount = 3
  ChunkSize = 1
  MaxCalls = 2
  MaxMatches = 1
  PageCount = 2
  MaxPages = 1
  Papers <- MCPapers
  Payloads <- MCPayloads
  Parsings = {p1, p2}
  SourceFiles <- MCFiles
  ProbePages = 2
  DigitalMin = 2
  PageSize = 4
  Callers = {l1, l2}
  MaxPieces = 2
  ParamCount = 1
  None = None
  Scorers = {t1, t2}
  MaxScores = 4
  Clients = {h1, h2}
  Configurations <- MCEnvironments
  DataTrees <- MCTrees
  FileNames = {"n1", "n2", "n3"}
  FileContents = {1, 2, 3}
  MaxUses = 3
  MaxFlips = 1
  Characters = {1, 2}
  Datasets <- MCDatasets
  Readings <- MCReadings
  FieldLists <- MCFieldLists
  EvalLimit = 2
INVARIANTS
  ServicesTypeOK
  ProgressIsTold
  FailuresHandled
  DiffIsCurrent
  DiffIsTrue
  DocumentIsWhole
  FieldsAreGrounded
  FilesAreRead
  TracesTellCalls
  ScoresAreWhole
  CompositionIsSound
  EvaluationIsRight
PROPERTIES
  RunEnds
CHECK_DEADLOCK FALSE
