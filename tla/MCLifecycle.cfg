SPECIFICATION FairSpec
CONSTANTS
  Instances = {a, b}
  Environments <- MCEnvironments
  CustomerCount = 2
  Requests = {q1, q2}
  MaxSignals = 2
  MaxFailures = 1
  None = None
INVARIANT TypeOK
INVARIANT ServingIsReady
PROPERTY MigratesOnce
PROPERTY GracefulExit
PROPERTY EventuallyServing
CHECK_DEADLOCK FALSE
