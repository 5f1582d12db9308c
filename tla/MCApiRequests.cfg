SPECIFICATION FairSpec
CONSTANTS
  Requests = {r1, r2, r3}
  c = c
  d = d
  Customers = {c, d}
  Known = {c}
  Plans <- MCPlans
  CurrentPlan <- MCCurrentPlan
  ChangeIds = {i1, i2}
  Forms <- MCForms
  PoolMax = 1
  TokenTtl = 1
  Earlier = {d}
  MaxTime = 1
  MaxFailures = 1
  None = None
CHECK_DEADLOCK FALSE
INVARIANT TypeOK
INVARIANT PlanChangesBacked
INVARIANT OnlyTheOwnerSchedules
INVARIANT CountersTrailTheTable
INVARIANT SessionOutlivesToken
INVARIANT WaitersMeanFullPool
PROPERTY EveryRequestIsAnswered
PROPERTY NobodyOvertakes
