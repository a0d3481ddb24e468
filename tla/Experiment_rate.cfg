\* Expected violation: SummaryWrittenUnlessRejected (spec.md against main()'s outputs).
CONSTANTS
  NSld <- MCNSld
  IntLexemes <- MCIntLexemes
  MaxLen <- MCMaxLen
  GarbageBytes <- MCValidBytes
  SlotNs <- MCSlotNs
  Lambdas <- MCBadLambdas
  UnspecifiedNs <- MCUnspecifiedNs
  Comma = Comma
  Blank = Blank
  Junk = Junk
  Width <- MCWidth
  Bases <- MCBases
  Stages <- MCStages
  Links <- MCLinks
  MaxPkts <- MCMaxPkts
  MaxTime <- MCMaxTime
  MaxFailures <- MCMaxFailures
  PayloadSize <- MCPayloadSize
  PayloadBytes <- MCPayloadBytes
  SimulationTimes <- MCSimulationTimes
  UseRts <- MCUseRts
  UnlimitedAmpdu <- MCUnlimitedAmpdu
  MaxMpdusInAmpdu <- MCMaxMpdusInAmpdu
  MpduOverhead <- MCMpduOverhead
  NaN = NaN
  Pending = Pending

SPECIFICATION Spec

CHECK_DEADLOCK FALSE

PROPERTY SummaryWrittenUnlessRejected
