SPECIFICATION DemangleSpec
CONSTANTS
  Words = 256
  MaxSteps = 16
  MaxDepth = 6
  MinHash = 2
  Decimal <- MCDecimal
  Digit62 <- MCDigit62
  Hex = {"0", "1", "a"}
  Basic = {"h", "l"}
  Mangled <- MCNames
INVARIANTS MeaningPrinted CutShortRefused WithinBudget
