SPECIFICATION ServerSpec
CONSTANTS
  Keys = {k1, k2}
  Files = {f1}
  Texts = {empty, t1}
  EmptyText = empty
  Skinny = skinny
  NoFile = NoFile
  Absent = Absent
  NoKey = NoKey
  NoDump = NoDump
  Putters = {w1}
  Getters = {}
  Listers = {}
  NoListing = NoListing
  MaxRev = 2
  MaxRef = 2
SYMMETRY Symmetry
INVARIANTS ServerTypeOK LastSentIsStored ConsistentUnlessMixed RefsCover HandedIsUnbound
