SPECIFICATION FairSpec
CONSTANTS
  LastDay = 3
  Starts = {0, 2}
  MaxOccurrences = 2
  EndDate = 2
  SafetyCap = 1
  ValidUntil = 0
  Interval = 2
  Outcomes = {"ACCEPTED"}
  Jobs = {j1, j2}
  NoJob = NoJob
  Never = Never
  MaxMishaps = 1
INVARIANTS OccurrencesOnce 
PROPERTIES DueWorkIsDone
CHECK_DEADLOCK FALSE
