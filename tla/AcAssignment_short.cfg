\* Expected violation: UnlistedStationsGetBestEffort (spec.md against the --nodeAcs handling).
CONSTANTS
  NSld <- MCNSld
  IntLexemes <- MCIntLexemes
  MaxLen <- MCMaxLen
  GarbageBytes <- MCGarbageBytes
  SlotNs <- MCSlotNs
  Lambdas <- MCLambdas
  UnspecifiedNs <- MCUnspecifiedNs
  Comma = Comma
  Blank = Blank
  Junk = Junk

SPECIFICATION Spec

CHECK_DEADLOCK FALSE

INVARIANT UnlistedStationsGetBestEffort
