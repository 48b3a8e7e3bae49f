SPECIFICATION FairSpec
CONSTANTS
  Configs = {cfgA, cfgB}
  Broken = Broken
  Missing = Missing
  NoHandler = NoHandler
  MaxEdits = 2
CHECK_DEADLOCK FALSE
PROPERTIES Reloads
