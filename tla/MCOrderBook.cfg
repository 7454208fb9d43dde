\* Three orders, any mix of restored and submitted; identifiers run out.
CONSTANTS
  Orders = {o1, o2, o3}
  Prices = {1, 2, 3}
  Quantities = {1, 2}
  MaxRestored = 2
  None = None
SPECIFICATION FairSpec
CHECK_DEADLOCK FALSE
INVARIANTS
  PriceTimeSorted
  BookHoldsOpenOrders
  NoNewCross
  FillsAccountForQuantity
  TradesWithinLimits
PROPERTIES
  NoOvertaking
  ImplementsPriceTimePriority
  SubmitReturns
