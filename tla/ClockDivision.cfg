SPECIFICATION DivisionSpec
CONSTANTS
  Width = 5
  Power <- MCPower
INVARIANT DivisionInv
CHECK_DEADLOCK FALSE
