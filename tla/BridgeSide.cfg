CONSTANTS
  a = a
  b = b
  h1 = h1
  h2 = h2
  Snaps = {a, b}
  Nothing = nothing
  Sids = {a, b}
  Threads = {h1, h2}
  MaxTools = 2

SPECIFICATION BridgeSpec
SYMMETRY Symmetry

INVARIANTS
  SingleFlight
  BeliefHolds
  OutcomeHolds
  PromptHasAsker

PROPERTIES
  QuestionStands
