SPECIFICATION Spec
CONSTANTS
  Journeys <- MCJourneys
  Summaries <- MCSummaries
  Baselines <- MCBaselines
  RoundsUp <- MCRoundsUp
  None = None
INVARIANT NoWorseNoHarsher
INVARIANT ExitTellsRegression
INVARIANT HeadlineFitsTable
CHECK_DEADLOCK FALSE
