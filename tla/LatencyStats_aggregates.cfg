\* Expected violation: SummaryAggregatesAsSpecified (spec.md against the code's aggregation).
CONSTANTS
  NSld = 2
  Links = {0}
  MaxPkts = 3
  MaxTime = 1
  MaxFailures = 1
  PayloadSize = 1
  NaN = NaN
  Pending = Pending
  MacKeepsOrder = TRUE
  MainConfigs <- MCMainConfigs

SPECIFICATION Spec

CHECK_DEADLOCK FALSE

INVARIANT SummaryAggregatesAsSpecified
