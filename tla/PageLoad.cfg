SPECIFICATION PageSpec
CONSTANTS
  Configs <- MCConfigs
  Broken = Broken
  Missing = Missing
  NoHandler = NoHandler
  MaxEdits = 2
  Tabs = {t1, t2}
  Address = address
  Account = account
  NoSection = NoSection
INVARIANTS PageTypeOK FirstListingIsFull StatusHolds
PROPERTIES NoticedIsApplied
