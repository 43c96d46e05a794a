\* No file to three, one worker to three: every path of parseFiles.
SPECIFICATION Spec
CONSTANTS
  FileCounts <- MCFileCounts
  Configured <- MCConfigured
  Procs <- MCProcs
  MaxParseWorkers = 3
INVARIANTS
  PoolIsSound
  SuccessIsComplete
PROPERTIES
  StoredOnce
  ImplementsStage
  Returns
