SPECIFICATION CiasSpec
CONSTANTS
  DroppedMax = 3
  Byte = 2
  NoCode = NoCode
  Capacity = 2
  Lines = 2
  Ticks = 1
  Gap = 3
  Patience = 2
  Loads = {1, 2}
  MaxKeys = 4
  MaxLoads = 1
  ChipB = TRUE
  Guests = {{"TA"}, {"TOD"}}
  Code = {k}
INVARIANTS
  KeysKept
  LineTruthful
  PeriodExact
  PeriodsReported
  ReadingCoherent
PROPERTIES
  InterruptsHandled
  KeysArrive
