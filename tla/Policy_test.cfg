CONSTANTS
  Null = Null
  Width = 3
  Form <- Forms
  Lower <- Lowered
  Net <- Nets
  Suffixed <- WithSuffix
  Bare <- Bares
  Session <- Sessions
  Documents <- Walks
  Selector <- Walked
SPECIFICATION BenchSpec
INVARIANT BuilderShowsText
INVARIANT BaselineWasLive
INVARIANT VerdictIsReference
INVARIANT CaveatsAreComplete
INVARIANT DriveWarningsAreEarned
INVARIANT WalkIsMeaning
PROPERTY UntouchedSurvive
PROPERTY Returns
