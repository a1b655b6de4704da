SPECIFICATION Spec
CONSTANTS
  N = 3
  InitialLimit = 6
  Costs <- MCCosts
  Actuals <- MCActuals
  Limits <- MCLimits
INVARIANTS
  TypeOK
  HardLimit
  LedgerReconciles
  ReservationMatchesLedger
PROPERTY
  ClosedOnce
