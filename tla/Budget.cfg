\* Two runs share a machine's meter over three days; limits that leave a rest.
SPECIFICATION Spec
CONSTANTS
  run1 = run1
  run2 = run2
  machine = machine
  NoProcess = NoProcess
  NoLimit = NoLimit
  Process = {run1, run2}
  Meter = {machine}
  MeterOf <- MCMeterOf
  Estimate <- MCEstimate
  Limits <- MCLimits
  MaxDay = 2
  MaxBegun = 6
  MaxLaunches = 3
  MaxResets = 1
  MaxDeaths = 1
INVARIANTS
  BudgetInv
  UsedIsGranted
  DayIsBounded
CHECK_DEADLOCK FALSE
