CONSTANTS
  Hooks = {"h1", "h2"}
  Bridges = {"b1", "b2"}
  Grace = 1
  Cooldown = 2
  Window = 3
  OpenFor = 2
  Threshold = 3
  Sids = {a}
  Threads = {h1, h2}
  MaxTools = 2
  Registries <- SmallRegistries
  WireMax = 7
  Base = 2
  Attempts = 3

SPECIFICATION HostSpec

INVARIANTS
  GoodSnapshot

PROPERTIES
  OneRuns
  BreakerTrips
  Recovers
  CorpsesVanish
