SPECIFICATION Spec
CONSTANTS
  Keys = {k1}
  Files = {}
  Texts = {empty, t1}
  EmptyText = empty
  Skinny = skinny
  NoFile = NoFile
  Absent = Absent
  NoKey = NoKey
  Putters = {w1}
  Getters = {}
  Listers = {g1}
  NoListing = NoListing
  MaxRev = 2
  MaxRef = 2
SYMMETRY Symmetry
INVARIANTS ClearMeansCurrent
