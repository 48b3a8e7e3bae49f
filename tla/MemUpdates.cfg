SPECIFICATION Spec
CONSTANTS
  Keys = {k1}
  Files = {}
  Texts = {empty, t1}
  EmptyText = empty
  Skinny = skinny
  NoFile = NoFile
  Absent = Absent
  NoKey = NoKey
  Putters = {w1, w2}
  Getters = {r1}
  Listers = {g1}
  NoListing = NoListing
  MaxRev = 3
  MaxRef = 2
CONSTRAINT ReadersApart
SYMMETRY Symmetry
INVARIANTS TypeOK ConsistentUnlessMixed GetConsistent RevsDistinct
           LastSentIsStored UpdatesAttached NotModifiedIsRight TitlesFreshUnlessRaced
PROPERTIES RevisionsGrow
