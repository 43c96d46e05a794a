\* Every command, with the file, the documents, the network, the disk and the user
\* at odds.
SPECIFICATION CliSpec
CONSTANTS
  Docs <- MCDocs
  RefSets <- MCRefSets
  Roots <- MCRoots
  Untyped <- MCUntyped
  Invocations <- MCInvocations
  Excluded <- MCExcluded
  Notable <- MCNotable
  MaxRequests = 2
INVARIANTS
  VerdictIsHonest
  ArtifactsMatchExit
  ConfigIsHonoured
  OutputMatchesExit
  BodiesAreHonest
  ServerIsClosed
PROPERTIES
  CommandEnds
