SPECIFICATION ExportSpec
CONSTANTS
  Ann = Ann
  Bob = Bob
  Cem = Cem
  S1 = S1
  S2 = S2
  North = North
  South = South
  NoCollection = NoCollection
  AnySection = AnySection
  Collector = {Ann, Bob}
  Sticker = {S1}
  Section = {North, South}
  Revision = {1}
  StickersOf <- MCStickersOf
  SectionOf <- MCSectionOf
  DisplayName <- MCName
  Id <- MCId
  MaximumQuantity = 2
  MaximumLimit = 2
  Start <- FormStart
  Queries <- FormQueries
  FormOwner = {Bob}
  PageSize = 1
  Exporter = {}
  Null = Null
  NoFile = NoFile
  MaxChanges = 3
  MaxLate = 1
INVARIANTS
  HiddenMeansHidden
