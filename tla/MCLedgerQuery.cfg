\* Pages of one item; up to three items of two events, at 1 s and 1.2 s. As texts
\* the bounds are the other way round: from 1 s to 1.2 s is an error.
SPECIFICATION LedgerSpec
CONSTANTS
  Events = {1, 2}
  Times = {100, 120}
  Bounds = {100, 120}
  Limit = 1
  MaxItems = 3
INVARIANTS
  LedgerTypeOK
  PageInOrder
  PagesMissNothing
CHECK_DEADLOCK FALSE
