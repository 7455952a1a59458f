SPECIFICATION Spec
CONSTANTS
  None = None
  a1 = a1  a2 = a2  b = b
  People = {a1, a2, b}
  Stratum <- TheStratum
  Minimum <- OneOfEach
  Maximum <- OneOfEach
  CohortMin = 2
  CohortMax = 2
  Runs <- TheRuns
  Thresholds = {1, 2}
  Baselines <- TheBaselines
  FollowUps <- TheFollowUps
  BaselineWindow <- FirstWindow
  FollowUpWindow <- SecondWindow
  MaxTime = 1
  MaxEdits = 1
CONSTRAINT Bounded
CHECK_DEADLOCK FALSE
INVARIANT WithdrawnStaysOut
PROPERTIES SuccessIsAMajority CompletePacksWereReviewed
