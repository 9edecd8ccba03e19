SPECIFICATION FairSpec
CONSTANTS
  d1 = d1
  d2 = d2
  r1 = r1
  r2 = r2
  s1 = s1
  Device <- MCDevice
  Sticker <- MCSticker
  Request <- MCRequest
  DirectChange <- MCDirectChange
  MaxQuantity = 2
  Unchecked = Unchecked
  NoCall = NoCall
  NoRequest = NoRequest
  NotPending = NotPending
INVARIANTS TypeOK ViewIsAccurate
PROPERTIES Linearizable EveryUpdateSettles
