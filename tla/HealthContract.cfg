SPECIFICATION CompositionSpec
CONSTANTS
  Clients = {c1, c2}
  Configurations <- MCServerStores
  DataTrees <- MCTrees
  FileNames = {"n1", "n2", "n3"}
  FileContents = {1, 2, 3}
  MaxUses = 3
  MaxFlips = 1
INVARIANT HealthAlwaysAnswers
CHECK_DEADLOCK FALSE
