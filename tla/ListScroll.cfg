\* One scroll through a list of four documents, by each of nine queries, while
\* others add, write and remove documents.
SPECIFICATION Spec
CONSTANTS
  Docs <- MCDocs
  Queries <- MCQueries
  Public = "*"
  DefaultBooks = {"MM", "DMG"}
  MoveNames <- MCMoveNames
  DefaultSize = 1
  MaxSize = 2
CONSTRAINT Relevant
INVARIANTS
  TypeOK
  ScrollComplete
  NoRepeats
  TotalHonest
CHECK_DEADLOCK FALSE
