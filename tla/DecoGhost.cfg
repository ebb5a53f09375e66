CONSTANTS
  Elements = {"line", "cell"}
  Poses = {"plain", "chip", "fleet"}
  Offsets = {10}
  Levels = {"lively", "off"}

SPECIFICATION DecoSpec

INVARIANTS
  Retracts
