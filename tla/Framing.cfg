SPECIFICATION FramingSpec
CONSTANTS
  Base = 2
  HeaderSize = 2
  Place <- MCPlace
  MaxLength = 2
  MaxAsked = 4
  MaxConnections = 2
  Bodies <- MCBodies
  Links <- MCLinks
  Answer <- MCAnswer
  InvalidLength <- Long
CHECK_DEADLOCK FALSE
INVARIANTS
  AnswersIntact
PROPERTIES
  ImplementsChannel
