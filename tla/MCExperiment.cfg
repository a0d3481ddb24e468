\* main() from the --nodeAcs string to the closed summary file.
CONSTANTS
  NSld <- MCNSld
  IntLexemes <- MCIntLexemes
  MaxLen <- MCMaxLen
  GarbageBytes <- MCGarbageBytes
  SlotNs <- MCSlotNs
  Lambdas <- MCLambdas
  UnspecifiedNs <- MCUnspecifiedNs
  Comma = Comma
  Blank = Blank
  Junk = Junk
  Width <- MCWidth
  Bases <- MCBases
  Stages <- MCStages
  Links <- MCLinks
  MaxPkts <- MCMaxPkts
  MaxTime <- MCMaxTime
  MaxFailures <- MCMaxFailures
  PayloadSize <- MCPayloadSize
  PayloadBytes <- MCPayloadBytes
  SimulationTimes <- MCSimulationTimes
  UseRts <- MCUseRts
  UnlimitedAmpdu <- MCUnlimitedAmpdu
  MaxMpdusInAmpdu <- MCMaxMpdusInAmpdu
  MpduOverhead <- MCMpduOverhead
  NaN = NaN
  Pending = Pending

SPECIFICATION Spec

\* The program ends: it returns 1, aborts, or exits after closing the file.
CHECK_DEADLOCK FALSE

INVARIANT MacDefaultsAsCommented
INVARIANT BeaconIntervalInTus
PROPERTY ProgramTerminates
