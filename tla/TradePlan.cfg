SPECIFICATION Spec
CONSTANTS
  NoEvent = NoEvent
  Whole = 100
  Structure <- MCStructure
  Regime <- MCRegime
  Allowed <- MCAllowed
  Costs <- MCCosts
  MinimumReward = 300
  Limits <- MCLimits
  Sizing <- MCSizing
  Execution <- MCExecution
  Charts <- MCCharts
  Shapes <- MCShapes
  Requests = {500, 1500}
  Groups = {{}, {"g"}, {"h"}}
  Quotes <- MCQuotes
  History = 9
  DayStart = 50000
  MaxLength = 10
INVARIANTS
  TargetsAreUntouched
  UpMirrorsDown
  LossIsBounded
CHECK_DEADLOCK FALSE
