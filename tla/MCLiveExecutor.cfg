SPECIFICATION FairSpec
CONSTANTS
  Venues <- ConstVenues
  Intents <- ConstIntents
  MaxRetriesPerLeg = 1
  MinPartialFillPct = 50
  HedgeDriftMax = 0
  MaxOrderNotional = 3
  MaxDailyNotional = 7
  Day = 0
  MinNotional <- ConstMinNotional
  MinQty <- ConstMinQty
  LotSize <- ConstLotSize
  TTL = 1
  MaxTime = 1
INVARIANTS
  RecordedIsReal
  AbandonedLegsUnwound
  DailyWithinCap
PROPERTIES
  EveryIntentEnds
