SPECIFICATION WikiSpec
CONSTANTS
  Keys = {k1, k2}
  Files = {f1, f2}
  Texts = {empty}
  EmptyText = empty
  Skinny = skinny
  NoFile = NoFile
  Absent = Absent
  NoKey = NoKey
  Listers = {}
  NoListing = NoListing
  Faults = TRUE
  MaxRev = 2
  MaxRef = 2
  Jobs = {j1, j2}
CONSTRAINT FewMishaps
SYMMETRY Symmetry
INVARIANTS WikiTypeOK RefsCover RefsExact HandedIsUnbound FilesPresent NoOrphans
PROPERTIES ImplementsInterface
