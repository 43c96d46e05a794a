\* Far is two hops or more; fewer than two inbound links is under-linked.
SPECIFICATION SearchSpec
CONSTANTS
  Docs <- MCDocs
  RootSets <- MCRootSets
  IntentionalSets <- MCIntentionalSets
  InboundThreshold = 2
  FarThreshold = 0
  DefaultInbound = 3
  DefaultFar = 2
INVARIANTS
  SearchIsExact
  ReportsAreConsistent
