CONSTANTS
  Sids = {a}
  Threads = {h1}
  MaxTools = 2

SPECIFICATION Spec

PROPERTIES
  ToolsAreExempt
