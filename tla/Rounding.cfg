\* One order beside another of its account, in arithmetic of four significant digits.
CONSTANTS
  Precision = 4
  MaxNumber = 12
  Others = {0, 5, 22}
SPECIFICATION Spec
INVARIANTS
  FillsExhaustExactly
  ExactWithinPrecision
  DriftIsBounded
