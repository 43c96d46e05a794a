\* Nothing fails but a write of the supervisor.
SPECIFICATION Spec
CONSTANTS
  CaptureFaults = TRUE
  RuntimeFaults = FALSE
  HostFaults = FALSE
  Interrupts = FALSE
INVARIANTS
  NonzeroIsPreExposure
CHECK_DEADLOCK FALSE
