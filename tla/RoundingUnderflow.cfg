\* One order in arithmetic of three significant digits: do its fills cost more than it reserved?
CONSTANTS
  Precision = 3
  MaxNumber = 7
  Others = {0}
SPECIFICATION Spec
INVARIANTS
  ReservationCoversFills
