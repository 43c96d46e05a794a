\* The paths of MCParsePool, asked for what the comment promises.
SPECIFICATION Spec
CONSTANTS
  FileCounts <- MCFewFiles
  Configured <- MCConfigured
  Procs <- MCProcs
  MaxParseWorkers = 3
INVARIANTS
  NoCanceledFile
