SPECIFICATION Spec
CONSTANTS
  Quantity = 2
  NoOrder = NoOrder
  NoCapabilities = NoCapabilities
  Refused = Refused
  Order = Order
  MaxUnsaved = 2
  MaxCancels = 2
  Adapters <- Declared
  EntryPrices <- Buys
  ExitPrices <- Sells
  PreparedAsOf = 1
  Signs <- BothSides
  Marks <- SomeMarks
  Deliveries <- SomeDeliveries
INVARIANTS
  FifoIsUnitByUnit
  NetIsConserved
  StaleAuthoritiesAreRefused
  NeverOverProtected
  NothingInvented
  RedeliveryIsHarmless
  HonestReportsAreAccepted
  RestorationSucceeds
PROPERTIES
  ClosedForGood
CHECK_DEADLOCK FALSE
