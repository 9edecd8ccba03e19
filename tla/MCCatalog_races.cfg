SPECIFICATION Spec
CONSTANTS
  a = a
  b = b
  a1 = a1
  a2 = a2
  a3 = a3
  b1 = b1
  c1 = c1
  r1 = r1
  r2 = r2
  Album <- MCAlbum
  Revision <- MCRevision
  AlbumOf <- MCAlbumOf
  Collector <- MCCollector
  Request <- MCRequest
  NoRevision = NoRevision
  NoRequest = NoRequest
  NoJob = NoJob
  Asked <- MCAsked
INVARIANTS TypeOK OneCurrentRevision NoCircularWait
PROPERTIES PublicationLeavesNoGap CatalogSerialized OnboardingAllOrNothing
SYMMETRY Symmetry
