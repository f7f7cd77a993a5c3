SPECIFICATION Spec
CONSTANTS
  Quantity = 2
  NoOrder = NoOrder
  NoCapabilities = NoCapabilities
  Refused = Refused
  None = None
  Plans = {p1, p2}
  Adapter <- Managed
  Callers <- AnyCaller
  MaxFilled <- FilledUpTo
  MaxResults = 1
INVARIANTS
  CoveredOnce
  SessionStaysValid
  BooksWithinBroker
PROPERTIES
  NothingForgotten
CHECK_DEADLOCK FALSE
SYMMETRY Interchangeable
