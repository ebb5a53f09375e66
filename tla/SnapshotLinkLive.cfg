CONSTANTS
  Snaps = {a}
  Nothing = nothing

SPECIFICATION Spec

PROPERTIES
  LinkComesBack
  PanelFollows
  ConfigReturns
