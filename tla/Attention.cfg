CONSTANTS
  Agents = {a1}
  MaxPresses = 2

SPECIFICATION Spec

INVARIANTS
  KeyDecides
  PullStands

PROPERTIES
  NoRegrab
  SaverComes
