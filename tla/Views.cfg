CONSTANTS
  N = 3
  Clients = {"scene_trans", "ui_glow"}
  Self = "scene_trans"
  Subjects = {"trans", "clock", "dash", "weather", "foot", "deco", "link", "sprite"}
  MaxStamp = 2

SPECIFICATION ViewSpec

INVARIANTS
  TargetIsLastAsked
  RefreshTier
  FaceAtRest
  TimeOnGlass
  InPlace
  WeatherShown
  GlowFallsBack
  NoSpriteLeft

PROPERTIES
  FooterContinuity
  Contract
  ComesToRest
  DecoSettles
