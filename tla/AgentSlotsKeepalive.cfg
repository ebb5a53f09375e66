CONSTANTS
  M = 2
  s1 = s1
  s2 = s2
  s3 = s3
  Sids = {s1, s2, s3}
  CodexSids = {s3}
  NoSid = noSid
  MaxAgents = 3

SPECIFICATION Spec
SYMMETRY Symmetry

INVARIANTS
  KeepaliveIsQuiet
