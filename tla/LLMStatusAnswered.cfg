\* The status the comment of GetGenerationStatus promises in every answer.
SPECIFICATION Spec
CONSTANTS
  Jobs = {j1}
  Polls = {p1}
  None = None
SYMMETRY Alike
INVARIANT
  StatusAnswered
CHECK_DEADLOCK FALSE
