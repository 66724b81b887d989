\* One slot for two readers, so that they evict each other; a ring of two messages and
\* a bit, so that the third laps the readers of either.
CONSTANTS
  Publishers = {p}
  Readers = {a, b}
  Conflating = {b}
  NUM_READERS = 1
  Size = 9
  MsgSize <- Sizes
  NoOne = none
SPECIFICATION Spec
CHECK_DEADLOCK FALSE
INVARIANTS
  TypeOK
  ValidMeansIntact
PROPERTIES
  DeliversInOrder
