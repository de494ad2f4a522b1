CONSTANTS
  A = A
  B = B
  C = C
  None = None
  Symbol = {A, B, C}
  Action <- EveryKind
  Lot <- TenShares
  a1 = a1
  a2 = a2
  Adjuster <- Adjusters
  Delta <- Deltas
  Scale = 10
  FactorScale = 100
  DivisionScale = 1000
  MaxDay = 3
  MaxAdjustments = 2
  Tolerance = 2
SYMMETRY AnyAdjuster
SPECIFICATION Spec
INVARIANTS OrderIrrelevant BooksAgree PastStands
CHECK_DEADLOCK FALSE
