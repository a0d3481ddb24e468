\* Expected violation: a stage whose CWmax does not fit in the integer type.
\* Width 4 stands for the 64 bits of uint64_t: base 3 with stage 3 overflows
\* 4 bits as base 3 with stage 63 overflows 64 bits.
CONSTANTS
  Width = 4
  Bases = {3}
  Stages = {3}

SPECIFICATION Spec

CHECK_DEADLOCK FALSE

INVARIANT CwBoundsMatchFormula
