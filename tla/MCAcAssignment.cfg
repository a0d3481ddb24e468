\* Every --nodeAcs string of up to four lexemes, three stations.
CONSTANTS
  NSld <- MCNSld
  IntLexemes <- MCIntLexemes
  MaxLen <- MCMaxLen
  GarbageBytes <- MCGarbageBytes
  SlotNs <- MCSlotNs
  Lambdas <- MCLambdas
  UnspecifiedNs <- MCUnspecifiedNs
  Comma = Comma
  Blank = Blank
  Junk = Junk

SPECIFICATION Spec

\* The configuration stage ends: the simulation starts, or the program exits.
CHECK_DEADLOCK FALSE

INVARIANT TypeOK
INVARIANT ClientsFollowParsedList
