\* Two orders of one account in arithmetic of three significant digits: does dust stay locked?
CONSTANTS
  Precision = 3
  MaxNumber = 7
  Others = {0, 1, 5}
SPECIFICATION Spec
INVARIANTS
  NothingStaysLocked
