SPECIFICATION ExportSpec
CONSTANTS
  Ann = Ann
  Bob = Bob
  Cem = Cem
  S1 = S1
  S2 = S2
  North = North
  South = South
  NoCollection = NoCollection
  AnySection = AnySection
  Collector = {Ann, Bob, Cem}
  Sticker = {S1, S2}
  Section = {North, South}
  Revision = {1, 2}
  StickersOf <- MCStickersOf
  SectionOf <- MCSectionOf
  DisplayName <- MCName
  Id <- MCId
  MaximumQuantity = 2
  MaximumLimit = 2
  Start <- MCStart
  Queries <- MCQueries
  FormOwner = {Bob}
  PageSize = 1
  Exporter = {Ann}
  Null = Null
  NoFile = NoFile
  MaxChanges = 1
  MaxLate = 0
INVARIANTS
  AnswerOfOneMoment
  ExchangeIsMutual
  PagesPartitionMatches
  NoPageBeyondTheLast
  FileOfOneMoment
  ListsAgree
PROPERTIES
  PageSettles
