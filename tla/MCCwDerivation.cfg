\* Command-line CW bases and stages whose CWmax fits in the integer type.
CONSTANTS
  Width <- MCWidth
  Bases <- MCBases
  Stages <- MCStages

SPECIFICATION Spec

\* Configuration ends once every Txop is set; the simulation that follows is
\* not part of this module.
CHECK_DEADLOCK FALSE

INVARIANT TypeOK
INVARIANT CwBoundsMatchFormula
