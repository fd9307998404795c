CONSTANTS
  Revisions = {"r0", "r1", "r2", "unknown"}
  Chips <- MCChips
  Discharge = 2
SPECIFICATION RawSpec
INVARIANTS IdleIsSafe
