CONSTANTS
  Revisions = {"r0", "r1", "r2", "unknown"}
  Chips <- AT28C040
  Discharge = 2
SPECIFICATION RailSpec
INVARIANTS NoReadPutsVpeOnPin1
