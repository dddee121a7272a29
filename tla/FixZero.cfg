SPECIFICATION AddsSpec
CONSTANTS
  Base = 4
  Pointers = {"x", "y"}
INVARIANT NegatedZeroIsPositive
