SPECIFICATION Spec
CONSTANTS
  MaxAddress = 3
  MaxLine = 1
  Files = {1, 2}
  Version = 4
  Units = 2
  MaxRows = 4
INVARIANTS CoveredAddressesRight
CHECK_DEADLOCK FALSE
