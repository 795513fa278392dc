SPECIFICATION Spec
CONSTANTS
  Regs = {x0, x1}
  Words = 8
  Pages = {0, 4}
  Offsets = {1, 3}
  Shift = 2
  Traits = {}
INVARIANTS PagesSound TargetSound PairsRecovered
