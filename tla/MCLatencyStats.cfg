\* The analysis of one success map: the decomposition refines the spec's
\* recurrence and the summary row agrees with the per-station rows.
CONSTANTS
  NSld <- MCNSld
  Links <- MCLinks
  MaxPkts <- MCMaxPkts
  MaxTime <- MCMaxTime
  MaxFailures <- MCMaxFailures
  PayloadSize <- MCPayloadSize
  NaN = NaN
  Pending = Pending
  MacKeepsOrder = TRUE
  MainConfigs <- MCMainConfigs

SPECIFICATION Spec

\* The program exits after closing the summary file.
CHECK_DEADLOCK FALSE

INVARIANT TypeOK
INVARIANT RowsAgree
PROPERTY DecompositionRefined
