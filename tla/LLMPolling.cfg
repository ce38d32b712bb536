\* Two jobs and two polls, with restarts: what a poll may be told, and what
\* becomes of a job.
SPECIFICATION Spec
CONSTANTS
  Jobs = {j1, j2}
  Polls = {p1, p2}
  None = None
INVARIANTS
  TypeOK
  AnswersStand
PROPERTIES
  KeepsJobsContract
  OutcomeFixed
  JobsEnd
  ProcessedJobsPublished
CHECK_DEADLOCK FALSE
