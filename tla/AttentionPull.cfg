CONSTANTS
  Agents = {a1}
  MaxPresses = 2

SPECIFICATION Spec

INVARIANTS
  EveryReturnPulls

