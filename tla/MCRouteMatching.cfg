\* Chunks of three points and tracks of up to eight: one to four chunks, the last
\* one full or not, each with no, one or two matchings.
SPECIFICATION Spec
CONSTANTS
  W = 3
  MaxPoints = 8
  MaxMatchings = 2
INVARIANTS
  TypeOK
  LinesInOrder
  GapsAreMapboxs
CHECK_DEADLOCK FALSE
