SPECIFICATION FairSpec
CONSTANTS
  Keys = {k1}
  Files = {f1}
  Texts = {empty}
  EmptyText = empty
  Skinny = skinny
  NoFile = NoFile
  Absent = Absent
  NoKey = NoKey
  Listers = {g1, g2}
  NoListing = NoListing
  Faults = TRUE
  MaxRev = 2
  MaxRef = 2
INVARIANTS TypeOK FreshUnlessRaced
PROPERTIES ListAnswered
