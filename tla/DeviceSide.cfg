CONSTANTS
  M = 2
  s1 = s1
  s2 = s2
  s3 = s3
  Sids = {s1, s2, s3}
  CodexSids = {s3}
  NoSid = noSid
  MaxAgents = 2
  MaxPresses = 3
  Beats = {10, 30, 100}
  Frozen = {250, 700}
  Elements = {"line", "bracket"}
  Poses = {"plain", "fleet"}
  Offsets = {10}
  Levels = {"lively", "off"}
  MemberKeys <- SmallKeys
  Documents <- SmallDocuments
  Caps = {3, 5}
  Copies = {4, 8}
  TickWrap = 5
  MaxDelay = 2
  MaxTime = 10
  MaxFrames = 3

SPECIFICATION DeviceSpec
SYMMETRY Symmetry

INVARIANTS
  Converges
  PressOnItsWay
  InkErased
  DurableAsShown
  NothingLostAtBoot
  WholeInPlace
  ReadsMember
  AsTheHostSays
  EachFrameOnce

PROPERTIES
  PlaceKept
  AnchorStays
