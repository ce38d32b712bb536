\* Three requests for the documents of two users: what is stored, and what a
\* request is told, whatever comes between its check and its query.
SPECIFICATION Spec
CONSTANTS
  u1 = u1 u2 = u2 r1 = r1 r2 = r2 r3 = r3
  c1 = c1 c2 = c2
  Requests = {r1, r2, r3}
  Users = {u1, u2}
  Public = Public
  None = None
  Encounters = {e1}
  Tables = {t1}
  Data = {d1}
  Maps = {m1}
  MapData <- MCMapData
  Creatures = {c1, c2, zeros}
  NilObjectID = zeros
  Characters = {h1}
CONSTRAINTS OneKind OneCreature
SYMMETRY Alike
INVARIANTS
  TypeOK
  AnsweredToOwner
  StoredMapsWellFormed
  OneDeleteWins
  ImagesPresent
PROPERTIES
  NotFoundTruthful
  EncountersShelved
  MapsShelved
  DocumentsKept
CHECK_DEADLOCK FALSE
