\* Everything may go wrong, and an attempt stops when it is done.
SPECIFICATION Spec
CONSTANTS
  CaptureFaults = TRUE
  RuntimeFaults = TRUE
  HostFaults = TRUE
  Interrupts = TRUE
INVARIANTS
  CompletedIsEarned
  ExposureIsGraded
  OutcomeIsHonest
PROPERTIES
  CaptureIsSealed
  AttemptEnds
CHECK_DEADLOCK FALSE
