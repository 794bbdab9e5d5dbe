SPECIFICATION CallsSpec
CONSTANTS
  Calls = {c1, c2, c3}
  Keys = {k1, k2}
  NoEntry = none
  Forgetting = TRUE
  Abandoning = TRUE
  MaxQueries = 3
  Capacity = 2
  Concurrency = 1
INVARIANTS MapEntryInFlight NoLostWakeup SlotsAccounted CancelsOnlyAbandoned
PROPERTIES EveryCallReturns SlotsComeBack
