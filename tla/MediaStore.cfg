SPECIFICATION Spec
CONSTANTS
  Name = {a, b}
  Upload = {u1, u2}
  NoFile = NoFile
  Limit = 2
  MaxPowerLoss = 1
INVARIANTS
  PublishedWhole
  AnswersTrue
PROPERTIES
  CatalogSpec
  CommitAnswered
CHECK_DEADLOCK FALSE
