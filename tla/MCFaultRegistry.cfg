SPECIFICATION Spec
CONSTANTS
  Targets <- OneTarget
  Calls = {c1}
  RateScale = 2
  Rates = {0, 2}
  Latencies = {0, 2}
  Durations = {1}
  HangTime = 1
  MaxTime = 3
  None = None
INVARIANT TypeOK
INVARIANT ActiveFaultShows
PROPERTY ImplementsWindows
