CONSTANTS
  Targets = {4, 5}
  ItemsPerRun = 2
  Ceiling = 5
  Collected <- FirstAnswers
  Answers <- SomeAnswers
  SampleSize = 2
  None = None
  MaxStops = 1
  MaxLabels = 2
SPECIFICATION Spec
INVARIANT CleanHasAVerdict
