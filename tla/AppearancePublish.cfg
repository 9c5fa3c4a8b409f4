SPECIFICATION CfgSpec
CONSTANTS
  Slots = {h1}
  MaxRows = 3
CHECK_DEADLOCK FALSE
PROPERTY PublishMovesForward
