SPECIFICATION Spec
CONSTANTS
  Keys = {k1, k2}
  Files = {f1}
  Texts = {empty}
  EmptyText = empty
  Skinny = skinny
  NoFile = NoFile
  Absent = Absent
  NoKey = NoKey
  Listers = {}
  NoListing = NoListing
  Faults = FALSE
  MaxRev = 2
  MaxRef = 2
INVARIANTS HandedIsNeverBound
