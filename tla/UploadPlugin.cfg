SPECIFICATION PluginSpec
CONSTANTS
  Keys = {k1}
  Files = {f1}
  Texts <- MCTexts
  EmptyText = empty
  Skinny = skinny
  NoFile = NoFile
  Absent = Absent
  NoKey = NoKey
  Listers = {}
  NoListing = NoListing
  Faults = TRUE
  MaxRev = 4
  MaxRef = 2
  Jobs = {up, del, other}
  Title = k1
  UpJob = up
  DelJob = del
  OtherJob = other
  Uploading = uploading
  Failed = failed
  Foreign = foreign
  Gone = gone
  MaxMishaps = 2
INVARIANTS PluginTypeOK RevisionTellsText UploadIsStored
