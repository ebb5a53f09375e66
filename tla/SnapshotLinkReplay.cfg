CONSTANTS
  a = a
  b = b
  Snaps = {a, b}
  Nothing = nothing

SPECIFICATION Spec

PROPERTIES
  LiveStateStays
