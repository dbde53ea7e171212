SPECIFICATION NamesSpec
CONSTANTS
  Words = {"Maadi"}
  MaxPieces = 7
CHECK_DEADLOCK FALSE
INVARIANTS
  DestinationsAgree
