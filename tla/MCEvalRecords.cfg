SPECIFICATION Spec
CONSTANTS
  Tasks <- MCTasks
  Expect <- MCExpect
  MaxFaults = 1
  Procs <- MCProcs
  Scripts <- MCScripts
  Images <- MCImages
  Attempts <- MCAttempts
  Schedules <- MCSchedules
  Absent = Absent
  Torn = Torn
INVARIANTS
  ScoreIsEarned
  RuntimeIsClean
  FrozenOrRefused
  ReportIsSound
PROPERTIES
  WholeRecordsLast
  CommandsEnd
