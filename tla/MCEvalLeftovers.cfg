\* A verification that says ok, and a container or a volume that is still there.
SPECIFICATION Spec
CONSTANTS
  Tasks <- MCTasks
  Expect <- MCExpect
  MaxFaults = 1
  Procs <- MCProcs
  Scripts <- MCVerifyOnly
  Images <- MCImages
  Attempts <- MCAttempts
  Schedules <- MCSchedules
  Absent = Absent
  Torn = Torn
INVARIANTS
  LeftoversAreReported
