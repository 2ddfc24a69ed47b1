\* As MCLedgerQuery.cfg, with 1.25 s too; emitted_at_gte is 1 s.
SPECIFICATION LedgerSpec
CONSTANTS
  Events = {1, 2}
  Times = {100, 120, 125}
  Bounds = {100}
  Limit = 1
  MaxItems = 3
INVARIANT GteIsTime
CHECK_DEADLOCK FALSE
