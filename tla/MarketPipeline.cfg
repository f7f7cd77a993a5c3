SPECIFICATION Spec
CONSTANTS
  NoCandle = NoCandle
  Never = Never
  Timeframes <- Alignments
  Sources <- Feeds
  Decided <- Regular
  Times = {2, 4}
  MaxEpochs = 2
  MaxAccepted = 4
  Window = 1
  HistoryLimit = 2
  Required = 1
  CycleWindow = 1
  RecentWindow = 1
  Contexts = {x, y}
INVARIANTS
  CandlesAreTheTrades
  CountedOnce
  RestorationAgrees
  FramesAreWhole
  PreparedOnce
CHECK_DEADLOCK FALSE
