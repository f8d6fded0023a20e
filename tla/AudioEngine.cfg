SPECIFICATION Spec
CONSTANTS
  Drivers = {d}
  Mics = {m1, m2}
  Rates = {44, 48}
  RingBlocks = 1
  MaxCalls = 3
  MaxChanges = 1
INVARIANT ExchangeLives
INVARIANT RatesAgree
PROPERTY ClearedAlone
PROPERTY ControlReturns
CHECK_DEADLOCK FALSE
