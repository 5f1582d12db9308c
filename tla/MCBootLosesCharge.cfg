SPECIFICATION Spec
CONSTANTS
  Instances = {a, b}
  Environments <- MCEnvironments
  CustomerCount = 1
  Requests = {q1}
  MaxSignals = 0
  MaxFailures = 0
  None = None
INVARIANT BootsSpareCharges
CHECK_DEADLOCK FALSE
