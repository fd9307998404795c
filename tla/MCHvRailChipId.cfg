CONSTANTS
  Revisions = {"r0", "r1", "r2", "unknown"}
  Chips <- MCChips
  Discharge = 2
SPECIFICATION RailSpec
INVARIANTS NoReadPutsVpeOnPin1
